-------------------------- MODULE AdmissionProofs --------------------------
(***************************************************************************)
(* Proofs about admission (Admission): the concurrency slots of a key, its *)
(* cap, its budgets and its buckets, for every number of calls and keys,   *)
(* every window and every limit.                                           *)
(*                                                                         *)
(* The argument. A slot is counted when a guard is made and given back     *)
(* when that guard is dropped, so the count is the number of guards        *)
(* (Slotted); a call past the limiter holds one unless its key had no      *)
(* limit, and one was only made below the cap of limits that were in the   *)
(* store (Capped). A budget that was used up stays so until a new day or   *)
(* an operator, and a call that finds it so in the store has not yet       *)
(* passed it in its list (Doomed). A bucket is never over full, and all    *)
(* that is known of the time is past (Past): what its calls were let pass  *)
(* since a time and what was left at the last look are paid by a full one  *)
(* and the refill up to that look (Paid), unless a call moved it back, or  *)
(* it had other limits, since then; a call that knows other limits has     *)
(* read the clock before they were changed (Known).                        *)
(***************************************************************************)
EXTENDS Admission, FiniteSetTheorems, WellFoundedInduction, TLAPS

-----------------------------------------------------------------------------
(* The inductive invariant.                                                *)

\* The caps that may have stood for a key.
Caps(k) == IF steady[k] = Never THEN {limits[k].max} ELSE {l.max : l \in LimitSets}

\* A call's limits were its key's, and are until an operator sets others.
Verified ==
    /\ limits \in [Keys -> LimitSets]
    /\ \A c \in Calls : pc[c] # "idle" =>
          /\ lim[c] \in LimitSets
          /\ steady[KeyOf[c]] = Never => lim[c] = limits[KeyOf[c]]

\* in_flight is the number of guards, and a handler has one.
Slotted ==
    /\ SlotsBalance
    /\ \A c \in Calls : pc[c] \in Handling => held[c] \/ Unlimited(lim[c])

\* No more guards than the largest cap.
Capped == \A k \in Keys : 0 \notin Caps(k) => inFlight[k] <= Max(Caps(k))

\* One of the budgets that the call has still to read is used up.
Ahead(c) ==
    \E i \in (pos[c] + 1)..SubjectCount(c) :
       Exceeded(SubjectOf(c, i), budget[SubjectOf(c, i)], day)

\* A call that is doomed has not read the used-up budget yet, or was refused.
DoomedAt(c) ==
    /\ pc[c] \in {"idle", "rate", "tokens"} => listed[c] = <<>>
    /\ pc[c] \in {"idle", "rate", "tokens", "list"} => pos[c] = 0
    /\ doomed[c] => c \notin Videos /\ pc[c] \in {"rate", "tokens", "list", "read", "done"}
    /\ doomed[c] /\ pc[c] # "done" =>
          /\ Ahead(c)
          /\ \A i \in 1..Len(listed[c]) : listed[c][i] = budget[SubjectOf(c, i)]
    /\ doomed[c] /\ pc[c] = "read" =>
          Len(listed[c]) >= SubjectCount(c) /\ today[c] = day
Doomed == \A c \in Calls : DoomedAt(c)

AdmissionInv == TypeOK /\ Verified /\ Slotted /\ Capped /\ Doomed

\* What a key's calls and buckets know of the time is past.
Past ==
    /\ \A c \in Calls :
          /\ at[c] <= clock /\ admitted[c] <= clock
          /\ admitted[c] # Never => pc[c] \notin {"idle", "rate"}
          /\ c \in metered => pc[c] \notin {"idle", "rate", "tokens"}
          /\ pc[c] \in {"filing", "closing", "dropped"} => cost[c] \in Tokens
    /\ \A k \in Keys :
          /\ upset[k] <= clock
          /\ rpm[k] # <<>> => /\ rpm[k][1].last <= clock /\ rpm[k][1].tokens >= 0
                              /\ rpm[k][1].tokens <= rpm[k][1].cap * Window
          /\ tpm[k] # <<>> => /\ tpm[k][1].last <= clock
                              /\ tpm[k][1].tokens <= tpm[k][1].cap * Window

\* A call that knows other limits than its key has read the clock before they were set.
Known ==
    \A c \in Calls : pc[c] = "rate" /\ lim[c] # limits[KeyOf[c]] => at[c] <= upset[KeyOf[c]]

\* Calls of a key that its rate limit let pass since a time.
Since(k, t) == {c \in Calls : KeyOf[c] = k /\ admitted[c] # Never /\ admitted[c] >= t}

\* Of a limited key, a call that passed since the last upset has moved the bucket.
MovedAt(k) ==
    \A c \in Calls : KeyOf[c] = k /\ admitted[c] # Never =>
       \/ limits[k].rpm = 0
       \/ admitted[c] <= upset[k]
       \/ rpm[k] # <<>> /\ admitted[c] <= rpm[k][1].last

\* What passed since any time after the last upset, and what was in the bucket when
\* it was last looked at, are what was there and the refill up to then.
PaidAt(k) ==
    limits[k].rpm > 0 /\ rpm[k] # <<>> =>
       \A t \in Nat : upset[k] < t /\ t <= rpm[k][1].last =>
          Cardinality(Since(k, t)) * Window + rpm[k][1].tokens
             <= limits[k].rpm * Window + (rpm[k][1].last - t) * rpm[k][1].rate

Paid == \A k \in Keys : MovedAt(k) /\ PaidAt(k)

BucketInv == AdmissionInv /\ Past /\ Known /\ Paid

-----------------------------------------------------------------------------
(* Largest elements and sums over finite sets.                             *)

\* A set of subsets of a finite set has a smallest one.
LEMMA MinimalSubset ==
    ASSUME NEW S, IsFiniteSet(S), NEW T, T \subseteq SUBSET S, T # {}
    PROVE  \E s \in T : \A u \in T : u \subseteq s => u = s
  <1>1. IsWellFoundedOn(StrictSubsetOrdering(S), SUBSET S)
    BY FS_StrictSubsetOrderingWellFounded, FS_FiniteSubsetsOfFinite
  <1>2. PICK s \in T : \A u \in T : ~(<<u, s>> \in StrictSubsetOrdering(S))
    BY <1>1, WFMin
  <1>3. \A u \in T : u \subseteq s => u = s
    BY <1>2 DEF StrictSubsetOrdering
  <1>4. QED BY <1>3

\* A set of numbers.
Numbers(S) == S \subseteq Int

\* A finite set of numbers has a largest one.
LEMMA MaxIs ==
    ASSUME NEW S, Numbers(S), S # {}, IsFiniteSet(S)
    PROVE  Max(S) \in S /\ \A y \in S : y <= Max(S)
  <1> DEFINE Bad == {A \in SUBSET S : A # {} /\ ~ \E m \in A : \A y \in A : m >= y}
  <1>1. CASE Bad # {}
    <2>1. PICK A \in Bad : \A u \in Bad : u \subseteq A => u = A
      <3>1. Bad \subseteq SUBSET S
        OBVIOUS
      <3> HIDE DEF Bad
      <3>2. QED BY <1>1, <3>1, MinimalSubset
    <2>2. PICK x \in A : TRUE
      BY <2>1
    <2>3. A \ {x} \notin Bad /\ A \subseteq Int /\ ~ \E m \in A : \A y \in A : m >= y
      BY <2>1, <2>2 DEF Numbers
    <2>4. CASE A \ {x} = {}
      BY <2>2, <2>3, <2>4
    <2>5. CASE A \ {x} # {}
      <3>1. PICK m \in A \ {x} : \A y \in A \ {x} : m >= y
        BY <2>3, <2>5
      <3>2. CASE x >= m
        <4>1. \A y \in A : x >= y
          BY <2>2, <2>3, <3>1, <3>2
        <4>2. QED BY <2>2, <2>3, <4>1
      <3>3. CASE ~(x >= m)
        <4>1. \A y \in A : m >= y
          BY <2>2, <2>3, <3>1, <3>3
        <4>2. QED BY <2>3, <3>1, <4>1
      <3>4. QED BY <3>2, <3>3
    <2>6. QED BY <2>4, <2>5
  <1>2. CASE Bad = {}
    <2>1. \E m \in S : \A y \in S : m >= y
      BY <1>2
    <2>2. Max(S) \in S /\ \A y \in S : Max(S) >= y
      BY <2>1 DEF Max
    <2>3. QED BY <2>2 DEF Numbers
  <1>3. QED BY <1>1, <1>2

\* The larger and the smaller of two numbers.
LEMMA MaxMinOfTwo ==
    ASSUME NEW a \in Int, NEW b \in Int
    PROVE  /\ Max({a, b}) = IF a >= b THEN a ELSE b
           /\ Min({a, b}) = IF a <= b THEN a ELSE b
  <1>1. \E x \in {a, b} : \A y \in {a, b} : x >= y
    OBVIOUS
  <1>2. Max({a, b}) \in {a, b} /\ \A y \in {a, b} : Max({a, b}) >= y
    BY <1>1 DEF Max
  <1>3. \E x \in {a, b} : \A y \in {a, b} : x =< y
    OBVIOUS
  <1>4. Min({a, b}) \in {a, b} /\ \A y \in {a, b} : Min({a, b}) =< y
    BY <1>3 DEF Min
  <1>5. QED BY <1>2, <1>4

\* The function that MapThenSumSet recurses with.
Picked(s) == CHOOSE x \in s : TRUE
IsSum(h, f, S) == h = [s \in SUBSET S |-> IF s = {} THEN 0
                                          ELSE f[Picked(s)] + h[s \ {Picked(s)}]]

SumOf(f, S) == (CHOOSE h : IsSum(h, f, S))[S]

\* The element picked of a set is one of its elements.
LEMMA PickedIn ==
    ASSUME NEW s, s # {}
    PROVE  Picked(s) \in s /\ s \ {Picked(s)} \subseteq s /\ s \ {Picked(s)} # s
  <1>1. \E x \in s : TRUE
    OBVIOUS
  <1>2. Picked(s) \in s
    BY <1>1 DEF Picked
  <1>3. QED BY <1>2

\* One step of the recursion.
LEMMA SumStep ==
    ASSUME NEW h, NEW f, NEW S, IsSum(h, f, S), NEW s \in SUBSET S
    PROVE  /\ s = {} => h[s] = 0
           /\ s # {} => h[s] = f[Picked(s)] + h[s \ {Picked(s)}]
  <1> DEFINE body(g) == [u \in SUBSET S |-> IF u = {} THEN 0
                                            ELSE f[Picked(u)] + g[u \ {Picked(u)}]]
  <1>1. h = body(h)
    BY DEF IsSum
  <1>2. body(h)[s] = IF s = {} THEN 0 ELSE f[Picked(s)] + h[s \ {Picked(s)}]
    OBVIOUS
  <1> HIDE DEF body
  <1>3. h[s] = IF s = {} THEN 0 ELSE f[Picked(s)] + h[s \ {Picked(s)}]
    BY <1>1, <1>2
  <1>4. QED BY <1>3

\* The function is unique where it is defined.
LEMMA SumUnique ==
    ASSUME NEW S, IsFiniteSet(S), NEW f, NEW A \in SUBSET S, NEW B \in SUBSET S,
           NEW h, IsSum(h, f, A), NEW g, IsSum(g, f, B),
           NEW s \in SUBSET A, s \in SUBSET B
    PROVE  h[s] = g[s]
  <1> DEFINE Bad == {u \in SUBSET S : u \subseteq A /\ u \subseteq B /\ h[u] # g[u]}
  <1>1. CASE Bad # {}
    <2>1. PICK u \in Bad : \A v \in Bad : v \subseteq u => v = u
      <3>1. Bad \subseteq SUBSET S
        OBVIOUS
      <3> HIDE DEF Bad
      <3>2. QED BY <1>1, <3>1, MinimalSubset
    <2>2. CASE u = {}
      BY <2>1, <2>2, SumStep
    <2>3. CASE u # {}
      <3>1. u \ {Picked(u)} \subseteq u /\ u \ {Picked(u)} # u
        BY <2>3, PickedIn
      <3>2. h[u \ {Picked(u)}] = g[u \ {Picked(u)}]
        BY <2>1, <3>1
      <3>3. h[u] = f[Picked(u)] + h[u \ {Picked(u)}] /\ g[u] = f[Picked(u)] + g[u \ {Picked(u)}]
        <4>1. u \in SUBSET A /\ u \in SUBSET B
          BY <2>1
        <4>2. h[u] = f[Picked(u)] + h[u \ {Picked(u)}]
          BY <2>3, <4>1, SumStep
        <4>3. g[u] = f[Picked(u)] + g[u \ {Picked(u)}]
          BY <2>3, <4>1, SumStep
        <4>4. QED BY <4>2, <4>3
      <3>4. QED BY <2>1, <3>2, <3>3
    <2>4. QED BY <2>2, <2>3
  <1>2. CASE Bad = {}
    BY <1>2
  <1>3. QED BY <1>1, <1>2

\* And there is one on every finite set.
LEMMA SumExists ==
    ASSUME NEW S, IsFiniteSet(S), NEW f
    PROVE  \E h : IsSum(h, f, S)
  <1> DEFINE Bad == {A \in SUBSET S : ~ \E h : IsSum(h, f, A)}
  <1>1. CASE Bad # {}
    <2>1. PICK A \in Bad : \A B \in Bad : B \subseteq A => B = A
      <3>1. Bad \subseteq SUBSET S
        OBVIOUS
      <3> HIDE DEF Bad
      <3>2. QED BY <1>1, <3>1, MinimalSubset
    <2> DEFINE G(B) == CHOOSE h : IsSum(h, f, B)
               H == [s \in SUBSET A |-> IF s = {} THEN 0 ELSE f[Picked(s)]
                        + G(s \ {Picked(s)})[s \ {Picked(s)}]]
    <2>2. A \in SUBSET S
      BY <2>1
    <2>3. ASSUME NEW B \in SUBSET A, B # A PROVE IsSum(G(B), f, B)
      <3>1. \E h : IsSum(h, f, B)
        BY <2>1, <2>2, <2>3
      <3>2. QED BY <3>1
    <2>4. ASSUME NEW u \in SUBSET A, u # A PROVE H[u] = G(u)[u]
      <3>1. IsSum(G(u), f, u) /\ u \in SUBSET u
        BY <2>3, <2>4
      <3> HIDE DEF G
      <3>2. CASE u = {}
        <4>1. G(u)[u] = 0
          BY <3>1, <3>2, SumStep
        <4>2. QED BY <3>2, <4>1
      <3>3. CASE u # {}
        <4>1. PICK v : v = u \ {Picked(u)}
          OBVIOUS
        <4>2. v \in SUBSET u /\ v # A /\ v \in SUBSET A /\ u \in SUBSET S /\ v \in SUBSET S
          BY <2>2, <2>4, <3>3, <4>1, PickedIn
        <4>3. G(u)[u] = f[Picked(u)] + G(u)[v]
          BY <3>1, <3>3, <4>1, SumStep
        <4>4. IsSum(G(v), f, v)
          BY <2>3, <4>2
        <4>5. G(u)[v] = G(v)[v]
          BY <3>1, <4>2, <4>4, SumUnique
        <4>6. H[u] = f[Picked(u)] + G(v)[v]
          BY <3>3, <4>1
        <4>7. QED BY <4>3, <4>5, <4>6
      <3>4. QED BY <3>2, <3>3
    <2>5. \A s \in SUBSET A : s # {} =>
            G(s \ {Picked(s)})[s \ {Picked(s)}] = H[s \ {Picked(s)}]
      <3>1. ASSUME NEW s \in SUBSET A, s # {}
            PROVE  G(s \ {Picked(s)})[s \ {Picked(s)}] = H[s \ {Picked(s)}]
        <4>1. s \ {Picked(s)} \in SUBSET A /\ s \ {Picked(s)} # A
          BY <3>1, PickedIn
        <4> HIDE DEF G, H
        <4>2. QED BY <2>4, <4>1
      <3> HIDE DEF G, H
      <3>2. QED BY <3>1
    <2>6. H = [s \in SUBSET A |-> IF s = {} THEN 0
                                  ELSE f[Picked(s)] + H[s \ {Picked(s)}]]
      <3> DEFINE K == [s \in SUBSET A |-> IF s = {} THEN 0
                                  ELSE f[Picked(s)] + H[s \ {Picked(s)}]]
      <3>1. ASSUME NEW s \in SUBSET A PROVE H[s] = K[s]
        <4>1. H[s] = IF s = {} THEN 0 ELSE f[Picked(s)]
                        + G(s \ {Picked(s)})[s \ {Picked(s)}]
          OBVIOUS
        <4>2. K[s] = IF s = {} THEN 0 ELSE f[Picked(s)] + H[s \ {Picked(s)}]
          BY DEF K
        <4> HIDE DEF G, H, K
        <4>3. QED BY <2>5, <4>1, <4>2
      <3>2. H = [s \in SUBSET A |-> H[s]] /\ K = [s \in SUBSET A |-> K[s]]
        OBVIOUS
      <3>3. H = K
        <4> HIDE DEF G, H, K
        <4>1. QED BY <3>1, <3>2
      <3>4. QED BY <3>3
    <2>7. IsSum(H, f, A)
      BY <2>6 DEF IsSum
    <2>8. QED BY <2>1, <2>7
  <1>2. CASE Bad = {}
    BY <1>2
  <1>3. QED BY <1>1, <1>2

\* A sum of larger numbers is larger.
LEMMA SumGrows ==
    ASSUME NEW S, IsFiniteSet(S), NEW f, NEW g,
           \A x \in S : f[x] \in Nat /\ g[x] \in Nat /\ f[x] <= g[x]
    PROVE  /\ SumOf(f, S) \in Nat
           /\ SumOf(g, S) \in Nat
           /\ SumOf(f, S) <= SumOf(g, S)
  <1>1. PICK h : IsSum(h, f, S) /\ h = CHOOSE k : IsSum(k, f, S)
    BY SumExists
  <1>2. PICK j : IsSum(j, g, S) /\ j = CHOOSE k : IsSum(k, g, S)
    BY SumExists
  <1> DEFINE Bad == {u \in SUBSET S : ~(h[u] \in Nat /\ j[u] \in Nat /\ h[u] <= j[u])}
  <1>3. CASE Bad # {}
    <2>1. PICK u \in Bad : \A v \in Bad : v \subseteq u => v = u
      <3>1. Bad \subseteq SUBSET S
        OBVIOUS
      <3> HIDE DEF Bad
      <3>2. QED BY <1>3, <3>1, MinimalSubset
    <2>2. CASE u = {}
      <3>1. h[u] = 0 /\ j[u] = 0
        BY <1>1, <1>2, <2>2, SumStep
      <3>2. QED BY <2>1, <3>1
    <2>3. CASE u # {}
      <3>1. PICK v : v = u \ {Picked(u)}
        OBVIOUS
      <3>2. v \subseteq u /\ v # u /\ Picked(u) \in S
        BY <2>1, <2>3, <3>1, PickedIn
      <3>3. h[v] \in Nat /\ j[v] \in Nat /\ h[v] <= j[v]
        BY <2>1, <3>2
      <3>4. h[u] = f[Picked(u)] + h[v] /\ j[u] = g[Picked(u)] + j[v]
        BY <1>1, <1>2, <2>1, <2>3, <3>1, SumStep
      <3>5. f[Picked(u)] \in Nat /\ g[Picked(u)] \in Nat /\ f[Picked(u)] <= g[Picked(u)]
        BY <3>2
      <3>6. h[u] \in Nat /\ j[u] \in Nat /\ h[u] <= j[u]
        BY <3>3, <3>4, <3>5
      <3>7. QED BY <2>1, <3>6
    <2>4. QED BY <2>2, <2>3
  <1>4. CASE Bad = {}
    <2>1. h[S] \in Nat /\ j[S] \in Nat /\ h[S] <= j[S]
      BY <1>4
    <2>2. SumOf(f, S) = h[S]
      BY <1>1 DEF SumOf
    <2>3. SumOf(g, S) = j[S]
      BY <1>2 DEF SumOf
    <2>4. QED BY <2>1, <2>2, <2>3
  <1>5. QED BY <1>3, <1>4

\* What a subject spent in a period is such a sum, now and after a step.
LEMMA PeriodSpendIs ==
    ASSUME NEW s, NEW b, NEW d
    PROVE  /\ PeriodSpend(s, b, d)
                = SumOf(spend[s], IF b.period = "total" THEN 0..MaxDays ELSE d..MaxDays)
           /\ PeriodSpend(s, b, d)'
                = SumOf(spend'[s], IF b.period = "total" THEN 0..MaxDays ELSE d..MaxDays)
  BY Zenon DEF PeriodSpend, MapThenSumSet, MapThenFoldSet, SumOf, IsSum, Picked


-----------------------------------------------------------------------------
(* Lemmas on the operators.                                                *)

\* A product grows with its factor.
LEMMA ProductGrows ==
    ASSUME NEW m \in Int, NEW n \in Int, NEW r \in Nat, m <= n
    PROVE  m * r \in Int /\ n * r \in Int /\ m * r <= n * r
  <1>1. PICK d \in Nat : n = m + d
    <2>1. n - m \in Nat /\ n = m + (n - m)
      OBVIOUS
    <2>2. QED BY <2>1
  <1>2. (m + d) * r = m * r + d * r /\ d * r \in Nat
    OBVIOUS
  <1>3. QED BY <1>1, <1>2

\* What a refill counts of the time that passed: all but part of a millisecond.
LEMMA ElapsedIs ==
    ASSUME NEW b \in Bucket, NEW t \in Nat
    PROVE  /\ Elapsed(b, t) \in Nat
           /\ b.last <= t => /\ Elapsed(b, t) <= t - b.last
                             /\ t - b.last <= Elapsed(b, t) + (Grain - 1)
  <1>1. PICK x \in Int : x = t - b.last
    BY DEF Bucket
  <1>2. PICK g \in Nat \ {0} : g = Grain
    BY BoundsAssumption
  <1>3. PICK q \in Int : q = x \div g
    OBVIOUS
  <1>4. q * g \in Int /\ q * g <= x /\ x <= q * g + (g - 1)
    <2>1. x = q * g + (x % g) /\ x % g \in 0..(g - 1)
      BY <1>3
    <2>2. q * g \in Int
      OBVIOUS
    <2>3. QED BY <2>1, <2>2
  <1>5. Elapsed(b, t) = IF 0 >= q * g THEN 0 ELSE q * g
    BY <1>1, <1>2, <1>3, <1>4, MaxMinOfTwo DEF Elapsed
  <1>6. PICK m \in Int : m = q * g
    BY <1>4
  <1>7. m <= x /\ x <= m + (g - 1) /\ Elapsed(b, t) = IF 0 >= m THEN 0 ELSE m
    BY <1>4, <1>5, <1>6
  <1>8. b.last <= t <=> x >= 0
    BY <1>1 DEF Bucket
  <1>9. QED BY <1>1, <1>2, <1>7, <1>8

\* What a bucket holds with the refill of some ticks.
LEMMA ToppedIs ==
    ASSUME NEW b \in Bucket, NEW n \in Nat
    PROVE  /\ b.cap * Window \in Nat /\ b.tokens \in Int /\ n * b.rate \in Nat
           /\ Topped(b, n) \in Int
           /\ Topped(b, n) = IF b.cap * Window <= b.tokens + n * b.rate
                               THEN b.cap * Window ELSE b.tokens + n * b.rate
  <1>1. b.cap * Window \in Nat /\ b.tokens \in Int /\ n * b.rate \in Nat
    BY BoundsAssumption DEF Bucket
  <1>2. PICK w \in Int, v \in Int : w = b.cap * Window /\ v = b.tokens + n * b.rate
    BY <1>1
  <1>3. Topped(b, n) = IF w <= v THEN w ELSE v
    BY <1>2, MaxMinOfTwo DEF Topped
  <1>4. QED BY <1>1, <1>2, <1>3

\* It grows with the ticks, by no more than their refill.
LEMMA ToppedGrows ==
    ASSUME NEW b \in Bucket, NEW m \in Nat, NEW n \in Nat, NEW g \in Nat, m <= n, n <= m + g
    PROVE  Topped(b, m) <= Topped(b, n) /\ Topped(b, n) <= Topped(b, m) + g * b.rate
  <1>1. PICK r \in Nat : r = b.rate
    BY DEF Bucket
  <1>2. PICK w \in Nat, v \in Int : w = b.cap * Window /\ v = b.tokens
    BY ToppedIs
  <1>3. PICK x \in Nat, y \in Nat, z \in Nat : x = m * r /\ y = n * r /\ z = g * r
    OBVIOUS
  <1>4. x <= y /\ y <= x + z
    <2>1. (m + g) * r = m * r + g * r
      OBVIOUS
    <2>2. QED BY <1>3, <2>1, ProductGrows
  <1>5. /\ Topped(b, m) = IF w <= v + x THEN w ELSE v + x
        /\ Topped(b, n) = IF w <= v + y THEN w ELSE v + y
    BY <1>1, <1>2, <1>3, ToppedIs
  <1>6. QED BY <1>1, <1>3, <1>4, <1>5

\* The bucket of a key is a bucket, whether it is made or refilled.
LEMMA BucketTyped ==
    /\ \A n \in Nat, t \in Nat : NewBucket(n, t) \in Bucket
    /\ \A b \in Seq(Bucket), n \in Nat, t \in Nat : Existing(b, n, t) \in Bucket
    /\ \A b \in Bucket, n \in Nat : [b EXCEPT !.cap = n] \in Bucket
    /\ \A b \in Bucket, x \in Int : [b EXCEPT !.tokens = x] \in Bucket
    /\ \A b \in Bucket, t \in Nat : Refill(b, t) \in Bucket
  <1>1. ASSUME NEW n \in Nat, NEW t \in Nat PROVE NewBucket(n, t) \in Bucket
    BY BoundsAssumption DEF NewBucket, Bucket
  <1>2. ASSUME NEW b \in Seq(Bucket), NEW n \in Nat, NEW t \in Nat
        PROVE  Existing(b, n, t) \in Bucket
    BY <1>1 DEF Existing
  <1>3. ASSUME NEW b \in Bucket, NEW n \in Nat PROVE [b EXCEPT !.cap = n] \in Bucket
    BY DEF Bucket
  <1>4. ASSUME NEW b \in Bucket, NEW x \in Int PROVE [b EXCEPT !.tokens = x] \in Bucket
    BY DEF Bucket
  <1>5. ASSUME NEW b \in Bucket, NEW t \in Nat PROVE Refill(b, t) \in Bucket
    <2>1. PICK m \in Int : m = Topped(b, Elapsed(b, t))
      BY ElapsedIs, ToppedIs
    <2>2. Refill(b, t) = [b EXCEPT !.tokens = m, !.last = t]
      BY <2>1 DEF Refill
    <2>3. PICK x \in Bucket : x = [b EXCEPT !.tokens = m]
      BY <1>4, <2>1
    <2>4. [x EXCEPT !.last = t] \in Bucket
      BY DEF Bucket
    <2>5. QED BY <2>2, <2>3, <2>4
  <1>6. QED BY <1>1, <1>2, <1>3, <1>4, <1>5

\* What a refill leaves alone, and what it makes of the tokens.
LEMMA RefillIs ==
    ASSUME NEW b \in Bucket, NEW t \in Nat
    PROVE  /\ Refill(b, t) \in Bucket
           /\ Refill(b, t).cap = b.cap /\ Refill(b, t).rate = b.rate
           /\ Refill(b, t).last = t
           /\ Refill(b, t).tokens = Topped(b, Elapsed(b, t))
  BY BucketTyped DEF Refill, Bucket

\* The caps that may have stood for a key are finitely many numbers.
LEMMA CapsFinite ==
    /\ \A n \in Nat : Numbers({n}) /\ IsFiniteSet({n}) /\ Max({n}) = n
    /\ Numbers({l.max : l \in LimitSets}) /\ IsFiniteSet({l.max : l \in LimitSets})
  <1>1. ASSUME NEW n \in Nat PROVE Numbers({n}) /\ IsFiniteSet({n}) /\ Max({n}) = n
    <2>1. Numbers({n})
      BY DEF Numbers
    <2>2. IsFiniteSet({n})
      BY FS_Singleton
    <2>3. QED BY <2>1, <2>2, MaxIs
  <1>2. Numbers({l.max : l \in LimitSets})
    BY SettingsAssumption DEF Numbers, Limits
  <1>3. [l \in LimitSets |-> l.max] \in Surjection(LimitSets, {l.max : l \in LimitSets})
    BY DEF Surjection
  <1>4. IsFiniteSet({l.max : l \in LimitSets})
    BY <1>3, FS_Surjection, SettingsAssumption
  <1>5. QED BY <1>1, <1>2, <1>4

\* A call has a key, and its subjects are subjects.
LEMMA SubjectIs ==
    ASSUME NEW c \in Calls
    PROVE  /\ KeyOf[c] \in Keys /\ SubjectCount(c) \in Nat
           /\ \A i \in 1..SubjectCount(c) : SubjectOf(c, i) \in Subjects
  BY CallsAssumption, SubjectsAssumption DEF SubjectCount, SubjectOf

\* A guard is dropped: a slot that it held is given back.
LEMMA ReleaseIs ==
    ASSUME TypeOK, NEW c \in Calls, Release(c)
    PROVE  /\ held' = [held EXCEPT ![c] = FALSE]
           /\ held' \in [Calls -> BOOLEAN]
           /\ inFlight' \in [Keys -> Nat]
           /\ \A k \in Keys : inFlight'[k] <= inFlight[k]
           /\ \A k \in Keys : inFlight'[k] =
                 IF held[c] /\ k = KeyOf[c] /\ inFlight[k] > 0 THEN inFlight[k] - 1
                                                               ELSE inFlight[k]
  <1>1. KeyOf[c] \in Keys
    BY SubjectIs
  <1>2. inFlight[KeyOf[c]] \in Nat
    BY <1>1 DEF TypeOK
  <1>3. PICK m \in Nat : /\ m = Max({0, inFlight[KeyOf[c]] - 1})
                         /\ m = IF inFlight[KeyOf[c]] > 0 THEN inFlight[KeyOf[c]] - 1 ELSE 0
    <2>1. 0 \in Int /\ inFlight[KeyOf[c]] - 1 \in Int
      BY <1>2
    <2>2. Max({0, inFlight[KeyOf[c]] - 1})
            = IF inFlight[KeyOf[c]] > 0 THEN inFlight[KeyOf[c]] - 1 ELSE 0
      BY <1>2, <2>1, MaxMinOfTwo
    <2>3. QED BY <1>2, <2>2
  <1>4. held' = [held EXCEPT ![c] = FALSE] /\ held' \in [Calls -> BOOLEAN]
    BY DEF Release, TypeOK
  <1>5. CASE held[c]
    <2>1. inFlight' = [inFlight EXCEPT ![KeyOf[c]] = m]
      BY <1>3, <1>5 DEF Release
    <2>2. inFlight' \in [Keys -> Nat] /\ \A k \in Keys : inFlight'[k] = IF k = KeyOf[c] THEN m ELSE inFlight[k]
      BY <1>1, <1>3, <2>1 DEF TypeOK
    <2>3. \A k \in Keys : inFlight[k] \in Nat
      BY DEF TypeOK
    <2>4. QED BY <1>2, <1>3, <1>4, <1>5, <2>2, <2>3
  <1>6. CASE ~held[c]
    <2>1. inFlight' = inFlight
      BY <1>6 DEF Release
    <2>2. QED BY <1>4, <1>6, <2>1 DEF TypeOK
  <1>7. QED BY <1>5, <1>6

-----------------------------------------------------------------------------
(* The types.                                                              *)

\* A call that is verified.
LEMMA VerifyTyped == ASSUME TypeOK, NEW c \in Calls, Verify(c) PROVE TypeOK'
  <1>1. lim' \in [Calls -> Limits] /\ at' \in [Calls -> Nat] /\ pc' \in [Calls -> Places]
    BY SubjectIs DEF TypeOK, Verify, Goes, Places, Handling
  <1>2. doomed' \in [Calls -> BOOLEAN]
    <2>1. (SpentOut(c) /\ c \notin Videos) \in BOOLEAN
      OBVIOUS
    <2>2. doomed' = [doomed EXCEPT ![c] = SpentOut(c) /\ c \notin Videos]
      BY DEF Verify
    <2>3. QED BY <2>1, <2>2, Zenon DEF TypeOK
  <1>3. QED BY <1>1, <1>2 DEF TypeOK, Verify, storeVars, timeVars, scopeVars

\* A call that is checked.
LEMMA CheckTyped == ASSUME TypeOK, NEW c \in Calls, Check(c) PROVE TypeOK'
  <1> DEFINE b == [Existing(rpm[KeyOf[c]], lim[c].rpm, at[c]) EXCEPT !.cap = lim[c].rpm]
             r == Refill(b, at[c])
             takes == [r EXCEPT !.tokens = @ - Window]
  <1>1. KeyOf[c] \in Keys /\ lim[c].rpm \in Nat /\ at[c] \in Nat /\ rpm[KeyOf[c]] \in Seq(Bucket)
    BY SubjectIs DEF TypeOK, Limits
  <1>2. b \in Bucket
    BY <1>1, BucketTyped
  <1>3. r \in Bucket
    BY <1>1, <1>2, BucketTyped
  <1>4. takes \in Bucket
    <2>1. r.tokens - Window \in Int
      BY <1>3, BoundsAssumption DEF Bucket
    <2>2. takes = [r EXCEPT !.tokens = r.tokens - Window]
      BY <1>3
    <2>3. QED BY <1>3, <2>1, <2>2, BucketTyped
  <1>5. /\ rpm' = rpm \/ \E x \in Bucket : rpm' = [rpm EXCEPT ![KeyOf[c]] = <<x>>]
        /\ inFlight' = inFlight \/ inFlight' = [inFlight EXCEPT ![KeyOf[c]] = @ + 1]
        /\ held' = held \/ held' = [held EXCEPT ![c] = TRUE]
        /\ admitted' = admitted \/ admitted' = [admitted EXCEPT ![c] = at[c]]
        /\ pc' = [pc EXCEPT ![c] = "tokens"] \/ pc' = [pc EXCEPT ![c] = "done"]
    <2> HIDE DEF b, r, takes
    <2>1. QED BY <1>3, <1>4 DEF Check, CheckRefuses, Goes, b, r, takes
  <1>6. rpm' \in [Keys -> Seq(Bucket)] /\ \A k \in Keys : Len(rpm'[k]) <= 1
    <2>1. CASE rpm' = rpm
      BY <2>1 DEF TypeOK
    <2>2. CASE rpm' # rpm
      <3>1. PICK x \in Bucket : rpm' = [rpm EXCEPT ![KeyOf[c]] = <<x>>]
        BY <1>5, <2>2
      <3>2. <<x>> \in Seq(Bucket) /\ Len(<<x>>) = 1
        OBVIOUS
      <3>3. QED BY <1>1, <3>1, <3>2 DEF TypeOK
    <2>3. QED BY <2>1, <2>2
  <1>7. inFlight' \in [Keys -> Nat]
    <2>1. inFlight \in [Keys -> Nat] /\ inFlight[KeyOf[c]] + 1 \in Nat
      BY <1>1 DEF TypeOK
    <2>2. QED BY <1>1, <1>5, <2>1
  <1>8. held' \in [Calls -> BOOLEAN]
    BY <1>5 DEF TypeOK
  <1>9. admitted' \in [Calls -> Nat \cup {Never}] /\ pc' \in [Calls -> Places]
    BY <1>1, <1>5 DEF TypeOK, Places, Handling
  <1>10. UNCHANGED <<storeVars, timeVars, tpm, callVars, metered, doomed>>
    BY DEF Check
  <1>11. upset' \in [Keys -> Nat \cup {Never}]
    <2>1. upset' = upset \/ upset' = [upset EXCEPT ![KeyOf[c]] = clock]
      BY DEF Check, Upsets
    <2>2. QED BY <2>1 DEF TypeOK
  <1>12. QED BY <1>6, <1>7, <1>8, <1>9, <1>10, <1>11 DEF TypeOK, storeVars, timeVars, callVars

\* A call whose tokens are checked.
LEMMA CheckTokensTyped == ASSUME TypeOK, NEW c \in Calls, CheckTokens(c) PROVE TypeOK'
  <1> DEFINE r == Refill(Existing(tpm[KeyOf[c]], lim[c].tpm, at[c]), at[c])
  <1>1. KeyOf[c] \in Keys /\ lim[c].tpm \in Nat /\ at[c] \in Nat /\ tpm[KeyOf[c]] \in Seq(Bucket)
    BY SubjectIs DEF TypeOK, Limits
  <1>2. r \in Bucket
    BY <1>1, BucketTyped
  <1>3. /\ tpm' = tpm \/ tpm' = [tpm EXCEPT ![KeyOf[c]] = <<r>>]
        /\ Release(c) \/ UNCHANGED <<inFlight, held>>
        /\ metered' = metered \/ metered' = metered \cup {c}
        /\ \E p \in {"done", "access", "list"} : pc' = [pc EXCEPT ![c] = p]
    <2> HIDE DEF r
    <2>1. QED BY DEF CheckTokens, Returns, Goes, r
  <1> HIDE DEF r
  <1>4. tpm' \in [Keys -> Seq(Bucket)] /\ \A k \in Keys : Len(tpm'[k]) <= 1
    <2>1. <<r>> \in Seq(Bucket) /\ Len(<<r>>) = 1
      BY <1>2
    <2>2. CASE tpm' = [tpm EXCEPT ![KeyOf[c]] = <<r>>]
      BY <1>1, <2>1, <2>2 DEF TypeOK
    <2>3. CASE tpm' = tpm
      BY <2>3 DEF TypeOK
    <2>4. QED BY <1>3, <2>2, <2>3
  <1>5. inFlight' \in [Keys -> Nat] /\ held' \in [Calls -> BOOLEAN]
    BY <1>3, ReleaseIs DEF TypeOK
  <1>6. metered' \subseteq Calls /\ pc' \in [Calls -> Places]
    BY <1>3 DEF TypeOK, Places, Handling
  <1>7. UNCHANGED <<storeVars, timeVars, rpm, callVars, admitted, doomed, upset>>
    BY DEF CheckTokens
  <1>8. QED BY <1>4, <1>5, <1>6, <1>7 DEF TypeOK, storeVars, timeVars, callVars

\* A call that lists its budgets or reads what was spent of them.
LEMMA BudgetsTyped ==
    ASSUME TypeOK, NEW c \in Calls, ListBudgets(c) \/ ReadSpend(c) PROVE TypeOK'
  <1>1. CASE ListBudgets(c)
    <2>1. listed' \in [Calls -> Seq(Budget)]
      <3>1. CASE Len(listed[c]) < SubjectCount(c)
        <4>1. PICK s : s = SubjectOf(c, Len(listed[c]) + 1)
          OBVIOUS
        <4>2. Len(listed[c]) + 1 \in 1..SubjectCount(c)
          BY <3>1, SubjectIs DEF TypeOK
        <4>3. s \in Subjects
          BY <4>1, <4>2, SubjectIs
        <4>4. Append(listed[c], budget[s]) \in Seq(Budget)
          BY <4>3 DEF TypeOK
        <4>5. listed' = [listed EXCEPT ![c] = Append(listed[c], budget[s])]
          BY <1>1, <3>1, <4>1 DEF ListBudgets
        <4>6. QED BY <4>4, <4>5 DEF TypeOK
      <3>2. CASE ~(Len(listed[c]) < SubjectCount(c))
        BY <1>1, <3>2 DEF ListBudgets, TypeOK
      <3>3. QED BY <3>1, <3>2
    <2>2. today' \in [Calls -> 0..MaxDays] /\ pc' \in [Calls -> Places]
      BY <1>1 DEF ListBudgets, TypeOK, Goes, Places, Handling
    <2>3. QED BY <1>1, <2>1, <2>2
              DEF ListBudgets, TypeOK, storeVars, timeVars, scopeVars, histVars
  <1>2. CASE ReadSpend(c)
    <2>1. pos' \in [Calls -> Nat] /\ pc' \in [Calls -> Places]
      <3>1. pos \in [Calls -> Nat] /\ pos[c] + 1 \in Nat /\ pc \in [Calls -> Places]
        BY DEF TypeOK
      <3>2. pos' = [pos EXCEPT ![c] = 0] \/ pos' = [pos EXCEPT ![c] = pos[c] + 1]
        BY <1>2 DEF ReadSpend
      <3>3. pc' = pc \/ \E p \in {"access", "done"} : pc' = [pc EXCEPT ![c] = p]
        BY <1>2 DEF ReadSpend, Returns, Goes
      <3>4. pos' \in [Calls -> Nat]
        BY <3>1, <3>2
      <3>5. QED BY <3>1, <3>3, <3>4 DEF Places, Handling
    <2>2. Release(c) \/ UNCHANGED <<inFlight, held>>
      BY <1>2 DEF ReadSpend, Returns
    <2>3. inFlight' \in [Keys -> Nat] /\ held' \in [Calls -> BOOLEAN]
      BY <2>2, ReleaseIs DEF TypeOK
    <2>4. QED BY <1>2, <2>1, <2>3 DEF ReadSpend, TypeOK, storeVars, timeVars, histVars
  <1>3. QED BY <1>1, <1>2

\* A call in the gateway.
LEMMA GatewayTyped ==
    ASSUME TypeOK, NEW c \in Calls,
           Forward(c) \/ Streams(c) \/ Errs(c) \/ Hangup(c) \/ HangupStream(c)
    PROVE  TypeOK'
  <1>1. CASE Forward(c)
    BY <1>1 DEF Forward, TypeOK, Goes, Places, Handling, storeVars, timeVars, scopeVars, histVars
  <1>2. CASE Streams(c) \/ Errs(c) \/ Hangup(c)
    <2>1. /\ Release(c) /\ pc' \in [Calls -> Places]
          /\ UNCHANGED <<storeVars, timeVars, rpm, tpm, callVars, histVars>>
      BY <1>2 DEF Streams, Errs, Hangup, Returns, Goes, TypeOK, Places, Handling
    <2>2. inFlight' \in [Keys -> Nat] /\ held' \in [Calls -> BOOLEAN]
      BY <2>1, ReleaseIs
    <2>3. QED BY <2>1, <2>2 DEF TypeOK, storeVars, timeVars, callVars, histVars
  <1>3. CASE HangupStream(c)
    <2>1. PICK n \in Nat : cost' = [cost EXCEPT ![c] = n]
      BY <1>3, BoundsAssumption DEF HangupStream, TypeOK
    <2>2. cost' \in [Calls -> Nat] /\ pos' \in [Calls -> Nat] /\ pc' \in [Calls -> Places]
      BY <1>3, <2>1 DEF HangupStream, Goes, TypeOK, Places
    <2>3. QED BY <1>3, <2>2 DEF HangupStream, TypeOK, storeVars, timeVars, scopeVars, histVars
  <1>4. QED BY <1>1, <1>2, <1>3

\* A turn that is finished and filed.
LEMMA FilingTyped ==
    ASSUME TypeOK, NEW c \in Calls, Finish(c) \/ Rollup(c) PROVE TypeOK'
  <1>1. CASE Finish(c)
    <2> DEFINE b == [Existing(tpm[KeyOf[c]], lim[c].tpm, clock) EXCEPT !.cap = lim[c].tpm]
               r == Refill(b, clock)
    <2>1. KeyOf[c] \in Keys /\ lim[c].tpm \in Nat /\ clock \in Nat /\ tpm[KeyOf[c]] \in Seq(Bucket)
      BY SubjectIs DEF TypeOK, Limits
    <2>2. b \in Bucket
      BY <2>1, BucketTyped
    <2>3. r \in Bucket
      BY <2>1, <2>2, BucketTyped
    <2>4. PICK n \in Nat : ChargeTokens(c, n) /\ cost' = [cost EXCEPT ![c] = n]
      BY <1>1, BoundsAssumption DEF Finish, TypeOK
    <2>5. n \in Nat
      BY <2>4
    <2>6. tpm' \in [Keys -> Seq(Bucket)] /\ \A k \in Keys : Len(tpm'[k]) <= 1
      <3>1. PICK x : x = [r EXCEPT !.tokens = r.tokens - n * Window]
        OBVIOUS
      <3>2. x \in Bucket
        <4>1. r.tokens - n * Window \in Int
          BY <2>3, <2>5, BoundsAssumption DEF Bucket
        <4> HIDE DEF r
        <4>2. QED BY <2>3, <3>1, <4>1, BucketTyped
      <3>3. <<x>> \in Seq(Bucket) /\ Len(<<x>>) = 1
        BY <3>2
      <3>4. tpm' = tpm \/ tpm' = [tpm EXCEPT ![KeyOf[c]] = <<x>>]
        BY <2>4, <3>1 DEF ChargeTokens
      <3>5. CASE tpm' = [tpm EXCEPT ![KeyOf[c]] = <<x>>]
        <4> HIDE DEF r
        <4>1. QED BY <2>1, <3>3, <3>5 DEF TypeOK
      <3>6. CASE tpm' = tpm
        BY <3>6 DEF TypeOK
      <3>7. QED BY <3>4, <3>5, <3>6
    <2>7. cost' \in [Calls -> Nat] /\ pc' \in [Calls -> Places]
      BY <1>1, <2>4, <2>5 DEF Finish, Goes, TypeOK, Places, Handling
    <2>8. QED BY <1>1, <2>6, <2>7 DEF Finish, TypeOK, storeVars, timeVars, histVars
  <1>2. CASE Rollup(c)
    <2>1. spend' \in [Subjects -> [0..MaxDays -> Nat]]
      <3>1. CASE spend' = spend
        BY <3>1 DEF TypeOK
      <3>2. CASE spend' # spend
        <4>1. PICK s : s = SubjectOf(c, pos[c] + 1)
          OBVIOUS
        <4>2. pos[c] + 1 \in 1..SubjectCount(c)
          BY <1>2, <3>2, SubjectIs DEF TypeOK, Rollup
        <4>3. s \in Subjects
          BY <4>1, <4>2, SubjectIs
        <4>4. spend' = [spend EXCEPT ![s][started[c]] = @ + cost[c]]
          BY <1>2, <3>2, <4>1 DEF Rollup
        <4>5. started[c] \in 0..MaxDays /\ cost[c] \in Nat
          BY DEF TypeOK
        <4>6. PICK f : f = [spend[s] EXCEPT ![started[c]] = @ + cost[c]]
          OBVIOUS
        <4>7. f \in [0..MaxDays -> Nat]
          <5>1. spend[s] \in [0..MaxDays -> Nat]
            BY <4>3 DEF TypeOK
          <5>2. PICK g \in [0..MaxDays -> Nat] : g = spend[s]
            BY <5>1
          <5>3. g[started[c]] \in Nat
            BY <4>5
          <5>4. g[started[c]] + cost[c] \in Nat
            BY <4>5, <5>3
          <5>5. QED BY <4>5, <4>6, <5>2, <5>4
        <4>8. spend' = [spend EXCEPT ![s] = f]
          BY <4>3, <4>4, <4>6 DEF TypeOK
        <4>9. QED BY <4>7, <4>8 DEF TypeOK
      <3>3. QED BY <3>1, <3>2
    <2>2. pos' \in [Calls -> Nat] /\ pc' \in [Calls -> Places]
      <3>1. pos \in [Calls -> Nat] /\ pos[c] + 1 \in Nat /\ pc \in [Calls -> Places]
        BY DEF TypeOK
      <3>2. pos' = pos \/ pos' = [pos EXCEPT ![c] = pos[c] + 1]
        BY <1>2 DEF Rollup
      <3>3. pc' = pc \/ pc' = [pc EXCEPT ![c] = "done"]
        BY <1>2 DEF Rollup, Returns, Goes
      <3>4. pos' \in [Calls -> Nat]
        BY <3>1, <3>2
      <3>5. QED BY <3>1, <3>3, <3>4 DEF Places, Handling
    <2>3. Release(c) \/ UNCHANGED <<inFlight, held>>
      BY <1>2 DEF Rollup, Returns
    <2>4. inFlight' \in [Keys -> Nat] /\ held' \in [Calls -> BOOLEAN]
      BY <2>3, ReleaseIs DEF TypeOK
    <2>5. QED BY <1>2, <2>1, <2>2, <2>4 DEF Rollup, TypeOK, timeVars, histVars
  <1>3. QED BY <1>1, <1>2

\* Time, and the operator.
LEMMA WorldTyped ==
    ASSUME TypeOK,
           \/ Tick \/ NewDay
           \/ \E k \in Keys : SetLimits(k)
           \/ \E s \in Subjects : SetBudget(s)
    PROVE  TypeOK'
  <1>1. CASE Tick
    BY <1>1 DEF Tick, TypeOK, storeVars, scopeVars, callVars, histVars
  <1>2. CASE NewDay
    <2>1. doomed' \in [Calls -> BOOLEAN] /\ day' \in 0..MaxDays
      BY <1>2, BoundsAssumption DEF NewDay, TypeOK
    <2>2. QED BY <1>2, <2>1 DEF NewDay, TypeOK, storeVars, scopeVars, callVars
  <1>3. ASSUME NEW k \in Keys, SetLimits(k) PROVE TypeOK'
    <2>1. /\ limits' \in [Keys -> Limits] /\ steady' \in [Keys -> Nat \cup {Never}]
          /\ upset' \in [Keys -> Nat \cup {Never}]
      BY <1>3, SettingsAssumption DEF SetLimits, TypeOK
    <2>2. QED BY <1>3, <2>1 DEF SetLimits, TypeOK, scopeVars, callVars, histVars
  <1>4. ASSUME NEW s \in Subjects, SetBudget(s) PROVE TypeOK'
    <2>1. budget' \in [Subjects -> Budget] /\ doomed' \in [Calls -> BOOLEAN]
      BY <1>4, SettingsAssumption DEF SetBudget, TypeOK
    <2>2. QED BY <1>4, <2>1 DEF SetBudget, TypeOK, scopeVars, callVars
  <1>5. QED BY <1>1, <1>2, <1>3, <1>4

\* The initial state.
LEMMA InitTyped == Init => TypeOK
  <1> SUFFICES ASSUME Init PROVE TypeOK
    OBVIOUS
  <1>1. limits \in [Keys -> Limits] /\ budget \in [Subjects -> Budget]
    BY SettingsAssumption DEF Init
  <1>2. spend \in [Subjects -> [0..MaxDays -> Nat]]
    BY DEF Init
  <1>3. clock \in Nat /\ day \in 0..MaxDays /\ changes \in Nat
    BY BoundsAssumption DEF Init
  <1>4. /\ rpm \in [Keys -> Seq(Bucket)] /\ tpm \in [Keys -> Seq(Bucket)]
        /\ \A k \in Keys : Len(rpm[k]) <= 1 /\ Len(tpm[k]) <= 1
    <2>1. <<>> \in Seq(Bucket) /\ Len(<<>>) <= 1
      OBVIOUS
    <2>2. QED BY <2>1 DEF Init
  <1>5. inFlight \in [Keys -> Nat] /\ pc \in [Calls -> Places]
    BY DEF Init, Places, Handling
  <1>6. lim \in [Calls -> Limits] /\ at \in [Calls -> Nat]
    BY DEF Init, Limits
  <1>7. held \in [Calls -> BOOLEAN] /\ doomed \in [Calls -> BOOLEAN]
    BY DEF Init
  <1>8. listed \in [Calls -> Seq(Budget)]
    <2>1. <<>> \in Seq(Budget)
      OBVIOUS
    <2>2. QED BY <2>1 DEF Init
  <1>9. pos \in [Calls -> Nat] /\ cost \in [Calls -> Nat]
    BY DEF Init
  <1>10. started \in [Calls -> 0..MaxDays] /\ today \in [Calls -> 0..MaxDays]
    BY BoundsAssumption DEF Init
  <1>11. /\ admitted \in [Calls -> Nat \cup {Never}] /\ metered \subseteq Calls
         /\ steady \in [Keys -> Nat \cup {Never}] /\ upset \in [Keys -> Nat \cup {Never}]
    BY DEF Init
  <1>12. QED BY <1>1, <1>2, <1>3, <1>4, <1>5, <1>6, <1>7, <1>8, <1>9, <1>10, <1>11 DEF TypeOK

\* Every step keeps the types.
LEMMA NextTyped == TypeOK /\ [Next]_vars => TypeOK'
  <1> SUFFICES ASSUME TypeOK, [Next]_vars PROVE TypeOK'
    OBVIOUS
  <1>1. ASSUME NEW c \in Calls, Verify(c) PROVE TypeOK'
    BY <1>1, VerifyTyped
  <1>2. ASSUME NEW c \in Calls, Step(c) \/ Hangup(c) PROVE TypeOK'
    BY <1>2, CheckTyped, CheckTokensTyped, BudgetsTyped, GatewayTyped, FilingTyped DEF Step
  <1>3. CASE Tick \/ NewDay \/ (\E k \in Keys : SetLimits(k)) \/ (\E s \in Subjects : SetBudget(s))
    BY <1>3, WorldTyped
  <1>4. CASE UNCHANGED vars
    BY <1>4 DEF vars, storeVars, timeVars, scopeVars, callVars, histVars, TypeOK
  <1>5. QED BY <1>1, <1>2, <1>3, <1>4 DEF Next, Served

-----------------------------------------------------------------------------
(* The limits of a call.                                                   *)

\* A step of a verified call moves it alone, and leaves the settings and what it
\* was verified with.
LEMMA CallStep ==
    ASSUME TypeOK, NEW c \in Calls, Step(c) \/ Hangup(c)
    PROVE  /\ pc[c] # "idle"
           /\ \E p \in Places \ {"idle", "rate"} : pc' = [pc EXCEPT ![c] = p]
           /\ UNCHANGED <<limits, budget, timeVars, lim, at, doomed>>
  <1>1. pc \in [Calls -> Places]
    BY DEF TypeOK
  <1>2. CASE Check(c)
    BY <1>1, <1>2 DEF Check, CheckRefuses, Goes, Places, Handling, storeVars, callVars
  <1>3. CASE CheckTokens(c)
    BY <1>1, <1>3 DEF CheckTokens, Returns, Goes, Places, Handling, storeVars, callVars
  <1>4. CASE ListBudgets(c)
    BY <1>1, <1>4 DEF ListBudgets, Goes, Places, Handling, storeVars, histVars
  <1>5. CASE ReadSpend(c)
    BY <1>1, <1>5 DEF ReadSpend, Returns, Goes, Places, Handling, storeVars, histVars
  <1>6. CASE Forward(c)
    BY <1>1, <1>6 DEF Forward, Goes, Places, Handling, storeVars, histVars
  <1>7. CASE Finish(c)
    BY <1>1, <1>7 DEF Finish, Goes, Places, Handling, storeVars, histVars
  <1>8. CASE Streams(c) \/ Errs(c) \/ Hangup(c)
    BY <1>1, <1>8 DEF Streams, Errs, Hangup, Returns, Goes, Places, Handling, storeVars, callVars, histVars
  <1>9. CASE Rollup(c)
    BY <1>1, <1>9 DEF Rollup, Returns, Goes, Places, Handling, histVars
  <1>10. CASE HangupStream(c)
    BY <1>1, <1>10 DEF HangupStream, Goes, Places, storeVars, histVars
  <1>11. QED BY <1>2, <1>3, <1>4, <1>5, <1>6, <1>7, <1>8, <1>9, <1>10 DEF Step

\* Every step keeps Verified.
LEMMA VerifiedKept == TypeOK /\ Verified /\ [Next]_vars => Verified'
  <1> SUFFICES ASSUME TypeOK, Verified, [Next]_vars PROVE Verified'
    OBVIOUS
  <1>1. ASSUME NEW c \in Calls, Verify(c) PROVE Verified'
    <2>1. /\ lim' = [lim EXCEPT ![c] = limits[KeyOf[c]]] /\ pc' = [pc EXCEPT ![c] = "rate"]
          /\ limits' = limits /\ steady' = steady
      BY <1>1 DEF Verify, Goes, storeVars, timeVars
    <2>2. pc \in [Calls -> Places] /\ lim \in [Calls -> Limits] /\ KeyOf[c] \in Keys
      BY SubjectIs DEF TypeOK
    <2>3. QED BY <2>1, <2>2 DEF Verified
  <1>2. ASSUME NEW c \in Calls, Step(c) \/ Hangup(c) PROVE Verified'
    <2>1. /\ pc[c] # "idle" /\ limits' = limits /\ lim' = lim /\ steady' = steady
          /\ \E p \in Places : pc' = [pc EXCEPT ![c] = p]
      BY <1>2, CallStep DEF timeVars
    <2>2. pc \in [Calls -> Places]
      BY DEF TypeOK
    <2>3. QED BY <2>1, <2>2 DEF Verified
  <1>3. CASE Tick \/ NewDay \/ \E s \in Subjects : SetBudget(s)
    BY <1>3 DEF Tick, NewDay, SetBudget, storeVars, callVars, Verified
  <1>4. ASSUME NEW k \in Keys, SetLimits(k) PROVE Verified'
    <2>1. PICK l \in LimitSets : limits' = [limits EXCEPT ![k] = l]
      BY <1>4 DEF SetLimits
    <2>2. pc' = pc /\ lim' = lim /\ steady' = [steady EXCEPT ![k] = clock]
      BY <1>4 DEF SetLimits, callVars
    <2>3. clock # Never /\ steady \in [Keys -> Nat \cup {Never}]
      BY DEF TypeOK, Never
    <2>4. QED BY <2>1, <2>2, <2>3, CallsAssumption DEF Verified
  <1>5. CASE UNCHANGED vars
    BY <1>5 DEF vars, storeVars, timeVars, callVars, Verified
  <1>6. QED BY <1>1, <1>2, <1>3, <1>4, <1>5 DEF Next, Served

-----------------------------------------------------------------------------
(* The slots.                                                              *)

\* The three things a step of a call does with its slot: nothing, take one when
\* it is checked, or give it back when its handler returns.
Keeps(c) ==
    /\ UNCHANGED <<held, inFlight>>
    /\ held[c] => pc'[c] \in Handling
    /\ pc'[c] \in Handling => held[c] \/ Unlimited(lim[c])
Takes(c) ==
    /\ pc'[c] = "tokens" /\ ~held[c]
    /\ held' = [held EXCEPT ![c] = TRUE]
    /\ inFlight' = [inFlight EXCEPT ![KeyOf[c]] = @ + 1]
    /\ lim[c].max > 0 => inFlight[KeyOf[c]] < lim[c].max
GivesBack(c) == Release(c) /\ pc'[c] \in {"done", "streaming"}

\* A step of a call does one of them.
LEMMA SlotStep ==
    ASSUME TypeOK, Slotted, NEW c \in Calls, Step(c) \/ Hangup(c)
    PROVE  Keeps(c) \/ Takes(c) \/ GivesBack(c)
  <1>1. pc \in [Calls -> Places] /\ lim[c] \in Limits
    BY DEF TypeOK
  <1>2. /\ held[c] => pc[c] \in Handling
        /\ pc[c] \in Handling => held[c] \/ Unlimited(lim[c])
    BY DEF Slotted, SlotsBalance
  <1>3. CASE Check(c)
    <2>1. ~held[c]
      BY <1>2, <1>3 DEF Check, Handling
    <2>2. inFlight[KeyOf[c]] \in Nat /\ lim[c].max \in Nat
      BY <1>1, SubjectIs DEF TypeOK, Limits
    <2>3. CASE Unlimited(lim[c])
      BY <1>1, <1>3, <2>1, <2>3 DEF Check, Goes, Keeps
    <2>4. CASE /\ ~Unlimited(lim[c])
               /\ lim[c].max > 0 /\ inFlight[KeyOf[c]] >= lim[c].max
      BY <1>1, <1>3, <2>1, <2>4 DEF Check, CheckRefuses, Goes, Keeps, Handling
    <2>5. CASE /\ ~Unlimited(lim[c])
               /\ ~(lim[c].max > 0 /\ inFlight[KeyOf[c]] >= lim[c].max)
      <3>1. \/ /\ pc' = [pc EXCEPT ![c] = "tokens"]
               /\ inFlight' = [inFlight EXCEPT ![KeyOf[c]] = @ + 1]
               /\ held' = [held EXCEPT ![c] = TRUE]
            \/ CheckRefuses(c)
        BY <1>3, <2>5 DEF Check, Goes
      <3>2. CASE CheckRefuses(c)
        BY <1>1, <2>1, <3>2 DEF CheckRefuses, Goes, Keeps, Handling
      <3>3. lim[c].max > 0 => inFlight[KeyOf[c]] < lim[c].max
        BY <2>2, <2>5
      <3>4. QED BY <1>1, <2>1, <3>1, <3>2, <3>3 DEF Takes
    <2>6. QED BY <2>3, <2>4, <2>5
  <1>4. CASE CheckTokens(c)
    BY <1>1, <1>2, <1>4 DEF CheckTokens, Returns, Goes, Keeps, GivesBack, Handling
  <1>5. CASE ListBudgets(c)
    BY <1>1, <1>2, <1>5 DEF ListBudgets, Goes, Keeps, Handling, scopeVars
  <1>6. CASE ReadSpend(c)
    BY <1>1, <1>2, <1>6 DEF ReadSpend, Returns, Goes, Keeps, GivesBack, Handling
  <1>7. CASE Forward(c)
    BY <1>1, <1>2, <1>7 DEF Forward, Goes, Keeps, Handling, scopeVars
  <1>8. CASE Finish(c)
    BY <1>1, <1>2, <1>8 DEF Finish, Goes, Keeps, Handling
  <1>9. CASE Streams(c) \/ Errs(c) \/ Hangup(c)
    BY <1>1, <1>9 DEF Streams, Errs, Hangup, Returns, Goes, GivesBack
  <1>10. CASE Rollup(c)
    BY <1>1, <1>2, <1>10 DEF Rollup, Returns, Goes, Keeps, GivesBack, Handling
  <1>11. CASE HangupStream(c)
    BY <1>1, <1>2, <1>11 DEF HangupStream, Goes, Keeps, Handling, scopeVars
  <1>12. QED BY <1>3, <1>4, <1>5, <1>6, <1>7, <1>8, <1>9, <1>10, <1>11 DEF Step

\* The guards of a key are finitely many.
LEMMA HoldersFinite ==
    \A k : IsFiniteSet(Holders(k)) /\ Cardinality(Holders(k)) \in Nat
  <1>1. ASSUME NEW k PROVE IsFiniteSet(Holders(k)) /\ Cardinality(Holders(k)) \in Nat
    <2>1. Holders(k) \in SUBSET Calls
      BY DEF Holders
    <2>2. QED BY <2>1, CallsAssumption, FS_Subset, FS_CardinalityType
  <1>2. QED BY <1>1

\* A step of a call keeps the count of the slots.
LEMMA SlotsKept ==
    ASSUME TypeOK, Slotted, NEW c \in Calls, Step(c) \/ Hangup(c)
    PROVE  Slotted'
  <1>1. PICK p \in Places \ {"idle", "rate"} : pc' = [pc EXCEPT ![c] = p]
    BY CallStep
  <1>2. pc \in [Calls -> Places] /\ lim' = lim /\ pc'[c] = p
    BY <1>1, CallStep DEF TypeOK
  <1>3. \A d \in Calls : d # c => pc'[d] = pc[d]
    BY <1>1, <1>2
  <1>4. held \in [Calls -> BOOLEAN] /\ inFlight \in [Keys -> Nat] /\ KeyOf[c] \in Keys
    BY SubjectIs DEF TypeOK
  <1>5. CASE Keeps(c)
    <2>1. held' = held /\ inFlight' = inFlight
      BY <1>5 DEF Keeps
    <2>2. \A k : Holders(k)' = Holders(k)
      BY <2>1 DEF Holders
    <2>3. QED BY <1>2, <1>3, <1>5, <2>1, <2>2 DEF Keeps, Slotted, SlotsBalance, Unlimited
  <1>6. CASE Takes(c)
    <2>1. ASSUME NEW k \in Keys PROVE inFlight'[k] = Cardinality(Holders(k)')
      <3>1. inFlight[k] = Cardinality(Holders(k))
        BY DEF Slotted, SlotsBalance
      <3>2. CASE k = KeyOf[c]
        <4>1. Holders(k)' = Holders(k) \cup {c} /\ c \notin Holders(k)
          BY <1>4, <1>6, <3>2 DEF Takes, Holders
        <4>2. Cardinality(Holders(k)') = Cardinality(Holders(k)) + 1
          BY <4>1, HoldersFinite, FS_AddElement
        <4>3. QED BY <1>4, <1>6, <3>1, <3>2, <4>2 DEF Takes
      <3>3. CASE k # KeyOf[c]
        <4>1. Holders(k)' = Holders(k)
          BY <1>4, <1>6, <3>3 DEF Takes, Holders
        <4>2. QED BY <1>4, <1>6, <3>1, <3>3, <4>1 DEF Takes
      <3>4. QED BY <3>2, <3>3
    <2>2. /\ \A d \in Calls : held'[d] => pc'[d] \in Handling
          /\ \A d \in Calls : pc'[d] \in Handling => held'[d] \/ Unlimited(lim[d])
      BY <1>2, <1>3, <1>4, <1>6 DEF Takes, Slotted, SlotsBalance, Handling
    <2>3. QED BY <1>2, <2>1, <2>2 DEF Slotted, SlotsBalance, Unlimited
  <1>7. CASE GivesBack(c)
    <2>1. ASSUME NEW k \in Keys PROVE inFlight'[k] = Cardinality(Holders(k)')
      <3>1. inFlight[k] = Cardinality(Holders(k)) /\ Release(c)
        BY <1>7 DEF Slotted, SlotsBalance, GivesBack
      <3>2. CASE k = KeyOf[c] /\ held[c]
        <4>1. Holders(k)' = Holders(k) \ {c} /\ c \in Holders(k)
          BY <1>4, <3>1, <3>2 DEF Release, Holders
        <4>2. Cardinality(Holders(k)') = Cardinality(Holders(k)) - 1
          BY <4>1, HoldersFinite, FS_RemoveElement
        <4>3. Cardinality(Holders(k)) \in Nat /\ Cardinality(Holders(k)) # 0
          BY <4>1, HoldersFinite, FS_EmptySet
        <4>4. QED BY <3>1, <3>2, <4>2, <4>3, ReleaseIs
      <3>3. CASE ~(k = KeyOf[c] /\ held[c])
        <4>1. Holders(k)' = Holders(k)
          BY <1>4, <3>1, <3>3 DEF Release, Holders
        <4>2. QED BY <3>1, <3>3, <4>1, ReleaseIs
      <3>4. QED BY <3>2, <3>3
    <2>2. /\ \A d \in Calls : held'[d] => pc'[d] \in Handling
          /\ \A d \in Calls : pc'[d] \in Handling => held'[d] \/ Unlimited(lim[d])
      BY <1>2, <1>3, <1>4, <1>7 DEF GivesBack, Release, Slotted, SlotsBalance, Handling
    <2>3. QED BY <1>2, <2>1, <2>2 DEF Slotted, SlotsBalance, Unlimited
  <1>8. QED BY <1>5, <1>6, <1>7, SlotStep

\* Every step keeps Slotted.
LEMMA SlottedKept == TypeOK /\ Slotted /\ [Next]_vars => Slotted'
  <1> SUFFICES ASSUME TypeOK, Slotted, [Next]_vars PROVE Slotted'
    OBVIOUS
  <1>1. ASSUME NEW c \in Calls, Verify(c) PROVE Slotted'
    <2>1. /\ lim' = [lim EXCEPT ![c] = limits[KeyOf[c]]] /\ pc' = [pc EXCEPT ![c] = "rate"]
          /\ held' = held /\ inFlight' = inFlight /\ pc[c] = "idle"
      BY <1>1 DEF Verify, Goes, scopeVars
    <2>2. pc \in [Calls -> Places] /\ lim \in [Calls -> Limits]
      BY DEF TypeOK
    <2>3. \A k : Holders(k)' = Holders(k)
      BY <2>1 DEF Holders
    <2>4. QED BY <2>1, <2>2, <2>3 DEF Slotted, SlotsBalance, Handling, Unlimited
  <1>2. ASSUME NEW c \in Calls, Step(c) \/ Hangup(c) PROVE Slotted'
    BY <1>2, SlotsKept
  <1>3. CASE UNCHANGED <<held, inFlight, pc, lim>>
    BY <1>3 DEF Slotted, SlotsBalance, Holders, Unlimited
  <1>4. CASE \/ Tick \/ NewDay \/ UNCHANGED vars \/ (\E k \in Keys : SetLimits(k))
             \/ \E s \in Subjects : SetBudget(s)
    BY <1>3, <1>4 DEF Tick, NewDay, SetLimits, SetBudget, scopeVars, callVars, vars
  <1>5. QED BY <1>1, <1>2, <1>4 DEF Next, Served

-----------------------------------------------------------------------------
(* The cap.                                                                *)

\* The caps of a key are finitely many, and the cap of its limits is one.
LEMMA CapsAre ==
    ASSUME TypeOK, Verified, NEW k \in Keys
    PROVE  /\ limits[k].max \in Caps(k)
           /\ Max(Caps(k)) \in Nat /\ \A m \in Caps(k) : m \in Nat /\ m <= Max(Caps(k))
           /\ \A c \in Calls : KeyOf[c] = k /\ pc[c] # "idle" => lim[c].max \in Caps(k)
  <1>1. limits[k] \in LimitSets /\ limits[k].max \in Nat
    BY SettingsAssumption DEF Verified, Limits
  <1>2. limits[k].max \in Caps(k)
    BY <1>1 DEF Caps
  <1>3. Numbers(Caps(k)) /\ IsFiniteSet(Caps(k)) /\ \A m \in Caps(k) : m \in Nat
    BY <1>1, CapsFinite, SettingsAssumption DEF Caps, Limits
  <1>4. Max(Caps(k)) \in Caps(k) /\ \A m \in Caps(k) : m <= Max(Caps(k))
    BY <1>2, <1>3, MaxIs
  <1>5. \A c \in Calls : KeyOf[c] = k /\ pc[c] # "idle" => lim[c].max \in Caps(k)
    BY <1>1 DEF Verified, Caps
  <1>6. QED BY <1>2, <1>3, <1>4, <1>5

\* Every step keeps Capped.
LEMMA CappedKept ==
    TypeOK /\ Verified /\ Slotted /\ Capped /\ [Next]_vars => Capped'
  <1> SUFFICES ASSUME TypeOK, Verified, Slotted, Capped, [Next]_vars PROVE Capped'
    OBVIOUS
  <1>0. \A k \in Keys : inFlight[k] \in Nat
    BY DEF TypeOK
  <1>1. ASSUME UNCHANGED <<limits, steady>>, \A k \in Keys : inFlight'[k] \in Nat,
               \A k \in Keys : 0 \notin Caps(k) => inFlight'[k] <= Max(Caps(k))
        PROVE  Capped'
    <2>1. \A k : Caps(k)' = Caps(k)
      BY <1>1 DEF Caps
    <2>2. QED BY <1>1, <2>1 DEF Capped
  <1>2. CASE UNCHANGED <<limits, steady, inFlight>>
    BY <1>0, <1>1, <1>2 DEF Capped
  <1>3. ASSUME NEW c \in Calls, Verify(c) PROVE Capped'
    BY <1>2, <1>3 DEF Verify, storeVars, timeVars, scopeVars
  <1>4. ASSUME NEW c \in Calls, Step(c) \/ Hangup(c) PROVE Capped'
    <2>1. UNCHANGED <<limits, steady>> /\ pc[c] # "idle" /\ KeyOf[c] \in Keys
      BY <1>4, CallStep, SubjectIs DEF timeVars
    <2>2. CASE Keeps(c)
      BY <1>2, <2>1, <2>2 DEF Keeps
    <2>3. CASE Takes(c)
      <3>1. \A k \in Keys : inFlight'[k] = IF k = KeyOf[c] THEN inFlight[k] + 1 ELSE inFlight[k]
        BY <2>1, <2>3 DEF Takes, TypeOK
      <3>2. ASSUME NEW k \in Keys, 0 \notin Caps(k) PROVE inFlight'[k] <= Max(Caps(k))
        <4>1. CASE k = KeyOf[c]
          <5>1. /\ lim[c].max \in Caps(k) /\ lim[c].max \in Nat /\ lim[c].max # 0
                /\ lim[c].max <= Max(Caps(k)) /\ Max(Caps(k)) \in Nat
            BY <2>1, <3>2, <4>1, CapsAre
          <5>2. inFlight[k] < lim[c].max
            BY <2>3, <4>1, <5>1 DEF Takes
          <5>3. QED BY <1>0, <3>1, <4>1, <5>1, <5>2
        <4>2. CASE k # KeyOf[c]
          BY <3>1, <3>2, <4>2 DEF Capped
        <4>3. QED BY <4>1, <4>2
      <3>3. QED BY <1>0, <1>1, <2>1, <3>1, <3>2
    <2>4. CASE GivesBack(c)
      <3>1. \A k \in Keys : inFlight'[k] \in Nat /\ inFlight'[k] <= inFlight[k]
        BY <2>4, ReleaseIs DEF GivesBack
      <3>2. ASSUME NEW k \in Keys, 0 \notin Caps(k) PROVE inFlight'[k] <= Max(Caps(k))
        <4>1. inFlight[k] <= Max(Caps(k)) /\ Max(Caps(k)) \in Nat
          BY <3>2, CapsAre DEF Capped
        <4>2. QED BY <1>0, <3>1, <4>1
      <3>3. QED BY <1>1, <2>1, <3>1, <3>2
    <2>5. QED BY <1>4, <2>2, <2>3, <2>4, SlotStep
  <1>5. CASE Tick \/ NewDay \/ UNCHANGED vars \/ \E s \in Subjects : SetBudget(s)
    BY <1>2, <1>5 DEF Tick, NewDay, SetBudget, storeVars, timeVars, scopeVars, vars
  <1>6. ASSUME NEW j \in Keys, SetLimits(j) PROVE Capped'
    <2>1. /\ inFlight' = inFlight /\ steady' = [steady EXCEPT ![j] = clock] /\ clock # Never
          /\ \A k \in Keys : k # j => limits'[k] = limits[k]
      BY <1>6 DEF SetLimits, scopeVars, TypeOK, Never
    <2>2. ASSUME NEW k \in Keys, 0 \notin Caps(k)' PROVE inFlight[k] <= Max(Caps(k)')
      <3>1. CASE k # j
        <4>1. Caps(k)' = Caps(k)
          BY <2>1, <3>1 DEF Caps, TypeOK
        <4>2. QED BY <2>2, <4>1 DEF Capped
      <3>2. CASE k = j
        <4>1. Caps(k)' = {l.max : l \in LimitSets}
          BY <2>1, <3>2 DEF Caps, TypeOK
        <4>2. Caps(k) \subseteq Caps(k)' /\ limits[k].max \in Caps(k)
          <5>1. limits[k].max \in Caps(k) /\ limits[k] \in LimitSets
            BY CapsAre DEF Verified
          <5>2. Caps(k) \subseteq {l.max : l \in LimitSets}
            BY <5>1 DEF Caps
          <5>3. QED BY <4>1, <5>1, <5>2
        <4>3. Max(Caps(k)) \in Nat /\ Max(Caps(k)) \in Caps(k)
          <5>1. Numbers(Caps(k)) /\ IsFiniteSet(Caps(k))
            BY CapsFinite, SettingsAssumption DEF Caps, TypeOK, Limits
          <5>2. QED BY <4>2, <5>1, MaxIs, CapsAre
        <4>4. Numbers(Caps(k)') /\ IsFiniteSet(Caps(k)')
          BY <4>1, CapsFinite
        <4>5. /\ Max(Caps(k)') \in Caps(k)' /\ Caps(k)' \subseteq Int
              /\ \A m \in Caps(k)' : m <= Max(Caps(k)')
          BY <4>2, <4>4, MaxIs DEF Numbers
        <4>6. inFlight[k] <= Max(Caps(k))
          BY <2>2, <4>2 DEF Capped
        <4>7. Max(Caps(k)) <= Max(Caps(k)') /\ Max(Caps(k)') \in Int
          BY <4>2, <4>3, <4>5
        <4>8. QED BY <1>0, <4>3, <4>6, <4>7
      <3>3. QED BY <3>1, <3>2
    <2>3. QED BY <2>1, <2>2 DEF Capped
  <1>7. QED BY <1>3, <1>4, <1>5, <1>6 DEF Next, Served

-----------------------------------------------------------------------------
(* The budgets.                                                            *)

\* What a finished turn adds leaves no sum smaller: a used-up budget stays so.
LEMMA ExceededKept ==
    ASSUME TypeOK, NEW c \in Calls, Rollup(c),
           NEW s \in Subjects, NEW b \in Budget, NEW d \in 0..MaxDays, Exceeded(s, b, d)
    PROVE  Exceeded(s, b, d)'
  <1> DEFINE S == IF b.period = "total" THEN 0..MaxDays ELSE d..MaxDays
  <1>1. IsFiniteSet(S) /\ S \subseteq 0..MaxDays
    <2>1. d \in Int /\ 0 \in Int /\ MaxDays \in Int /\ 0 <= d
      BY BoundsAssumption
    <2>2. IsFiniteSet(0..MaxDays) /\ IsFiniteSet(d..MaxDays)
      BY <2>1, FS_Interval
    <2>3. d..MaxDays \subseteq 0..MaxDays
      BY <2>1
    <2>4. QED BY <2>2, <2>3
  <1>2. \A x \in 0..MaxDays : /\ spend[s][x] \in Nat /\ spend'[s][x] \in Nat
                              /\ spend[s][x] <= spend'[s][x]
    <2>1. PICK g \in [0..MaxDays -> Nat] : g = spend[s]
      BY DEF TypeOK
    <2>2. \A x \in 0..MaxDays : g[x] \in Nat
      OBVIOUS
    <2>3. CASE spend'[s] = spend[s]
      BY <2>1, <2>2, <2>3
    <2>4. CASE spend'[s] # spend[s]
      <3>1. PICK u : u = SubjectOf(c, pos[c] + 1)
        OBVIOUS
      <3>2. spend' = [spend EXCEPT ![u][started[c]] = @ + cost[c]]
        BY <2>4, <3>1 DEF Rollup
      <3>3. started[c] \in 0..MaxDays /\ cost[c] \in Nat
        BY DEF TypeOK
      <3>4. CASE u = s
        <4>1. spend'[s] = [g EXCEPT ![started[c]] = @ + cost[c]]
          BY <2>1, <3>2, <3>4 DEF TypeOK
        <4>2. \A x \in 0..MaxDays : spend'[s][x] = IF x = started[c] THEN g[x] + cost[c] ELSE g[x]
          BY <3>3, <4>1
        <4>3. QED BY <2>1, <2>2, <3>3, <4>2
      <3>5. CASE u # s
        BY <2>4, <3>2, <3>5 DEF TypeOK
      <3>6. QED BY <3>4, <3>5
    <2>5. QED BY <2>3, <2>4
  <1>3. PICK f : f = spend[s]
    OBVIOUS
  <1>4. PICK g : g = spend'[s]
    OBVIOUS
  <1>5. SumOf(f, S) \in Nat /\ SumOf(g, S) \in Nat /\ SumOf(f, S) <= SumOf(g, S)
    <2>1. \A x \in S : f[x] \in Nat /\ g[x] \in Nat /\ f[x] <= g[x]
      BY <1>1, <1>2, <1>3, <1>4
    <2> HIDE DEF S
    <2>2. QED BY <1>1, <2>1, SumGrows
  <1>6. PeriodSpend(s, b, d) = SumOf(f, S) /\ PeriodSpend(s, b, d)' = SumOf(g, S)
    BY <1>3, <1>4, PeriodSpendIs
  <1>7. PeriodSpend(s, b, d) \in Nat /\ PeriodSpend(s, b, d)' \in Nat
        /\ PeriodSpend(s, b, d) <= PeriodSpend(s, b, d)'
    BY <1>5, <1>6
  <1>8. b # NoBudget /\ PeriodSpend(s, b, d) >= b.limit
    BY DEF Exceeded
  <1>9. b.limit \in Nat
    BY DEF Budget, NoBudget
  <1>10. b # NoBudget /\ PeriodSpend(s, b, d)' >= b.limit
    <2>1. PICK m \in Nat : m = PeriodSpend(s, b, d)
      BY <1>7
    <2>2. PICK n \in Nat : n = PeriodSpend(s, b, d)'
      BY <1>7
    <2>3. m <= n /\ m >= b.limit
      BY <1>7, <1>8, <2>1, <2>2
    <2>4. n >= b.limit
      BY <1>9, <2>3
    <2>5. QED BY <1>8, <2>2, <2>4
  <1>11. QED BY <1>10 DEF Exceeded

\* While nothing is added to what was spent, no budget changes.
LEMMA ExceededSame ==
    ASSUME spend' = spend, NEW s, NEW b, NEW d
    PROVE  Exceeded(s, b, d)' <=> Exceeded(s, b, d)
  <1>1. PeriodSpend(s, b, d)' = PeriodSpend(s, b, d)
    BY PeriodSpendIs
  <1>2. QED BY <1>1 DEF Exceeded

\* Nor does what a call has still to read.
LEMMA AheadSame ==
    ASSUME UNCHANGED <<budget, spend, day, pos>>, NEW d, Ahead(d)
    PROVE  Ahead(d)'
  <1>1. PICK i \in (pos[d] + 1)..SubjectCount(d) :
               Exceeded(SubjectOf(d, i), budget[SubjectOf(d, i)], day)
    BY DEF Ahead
  <1>2. PICK s, b, t : s = SubjectOf(d, i) /\ b = budget[s] /\ t = day
    OBVIOUS
  <1>3. Exceeded(s, b, t)'
    BY <1>1, <1>2, ExceededSame
  <1>4. Exceeded(SubjectOf(d, i), budget[SubjectOf(d, i)], day)'
    BY <1>2, <1>3 DEF SubjectOf
  <1>5. QED BY <1>1, <1>4 DEF Ahead, SubjectCount

\* In a step of a call a used-up budget stays so.
LEMMA ExceededStays ==
    ASSUME TypeOK, NEW c \in Calls, Step(c) \/ Hangup(c),
           NEW s \in Subjects, NEW b \in Budget, NEW d \in 0..MaxDays, Exceeded(s, b, d)
    PROVE  Exceeded(s, b, d)'
  <1>1. CASE Rollup(c)
    BY <1>1, ExceededKept
  <1>2. CASE ~Rollup(c)
    <2>1. spend' = spend
      BY <1>2 DEF Step, Check, CheckTokens, ListBudgets, ReadSpend, Forward, Finish, Streams,
                  Errs, Hangup, HangupStream, storeVars
    <2>2. QED BY <2>1, ExceededSame
  <1>3. QED BY <1>1, <1>2

\* So is one that another call has still to read.
LEMMA AheadStays ==
    ASSUME TypeOK, NEW c \in Calls, Step(c) \/ Hangup(c),
           NEW d \in Calls, Ahead(d), NEW n \in Nat, pos'[d] = n,
           \A i \in (pos[d] + 1)..n : i \in 1..SubjectCount(d) =>
              ~Exceeded(SubjectOf(d, i), budget[SubjectOf(d, i)], day)
    PROVE  Ahead(d)'
  <1>1. PICK i \in (pos[d] + 1)..SubjectCount(d) :
               Exceeded(SubjectOf(d, i), budget[SubjectOf(d, i)], day)
    BY DEF Ahead
  <1>2. pos[d] \in Nat /\ SubjectCount(d) \in Nat
    BY SubjectIs DEF TypeOK
  <1>3. i \in 1..SubjectCount(d) /\ i \in (n + 1)..SubjectCount(d)
    BY <1>1, <1>2
  <1>4. PICK s : s = SubjectOf(d, i)
    OBVIOUS
  <1>5. s \in Subjects
    BY <1>3, <1>4, SubjectIs
  <1>6. PICK b \in Budget : b = budget[s]
    BY <1>5 DEF TypeOK
  <1>7. PICK t \in 0..MaxDays : t = day
    BY DEF TypeOK
  <1>8. Exceeded(s, b, t)
    BY <1>1, <1>4, <1>6, <1>7
  <1>9. Exceeded(s, b, t)'
    BY <1>5, <1>8, ExceededStays
  <1>10. budget' = budget /\ day' = day
    BY CallStep DEF timeVars
  <1>11. Exceeded(SubjectOf(d, i), budget[SubjectOf(d, i)], day)'
    BY <1>4, <1>6, <1>7, <1>9, <1>10 DEF SubjectOf
  <1>12. QED BY <1>3, <1>11 DEF Ahead, SubjectCount

\* A step of a call leaves the budgets of the other calls.
LEMMA DoomedOthers ==
    ASSUME TypeOK, NEW c \in Calls, Step(c) \/ Hangup(c), NEW d \in Calls, d # c, DoomedAt(d)
    PROVE  DoomedAt(d)'
  <1>1. /\ pc'[d] = pc[d] /\ listed'[d] = listed[d] /\ pos'[d] = pos[d]
        /\ today'[d] = today[d] /\ doomed'[d] = doomed[d]
        /\ budget' = budget /\ day' = day
    <2>1. pc'[d] = pc[d] /\ doomed' = doomed /\ budget' = budget /\ day' = day
      BY CallStep DEF TypeOK, timeVars
    <2>2. listed'[d] = listed[d] /\ today'[d] = today[d]
      BY DEF Step, Check, CheckTokens, ListBudgets, ReadSpend, Forward, Finish, Streams,
             Errs, Hangup, HangupStream, Rollup, callVars, TypeOK
    <2>3. pos'[d] = pos[d]
      BY DEF Step, Check, CheckTokens, ListBudgets, ReadSpend, Forward, Finish, Streams,
             Errs, Hangup, HangupStream, Rollup, callVars, TypeOK
    <2>4. QED BY <2>1, <2>2, <2>3
  <1>2. Ahead(d) => Ahead(d)'
    <2>1. PICK n \in Nat : pos[d] = n
      BY DEF TypeOK
    <2>2. QED BY <1>1, <2>1, AheadStays
  <1>3. QED BY <1>1, <1>2 DEF DoomedAt, SubjectOf, SubjectCount

\* And of the call itself.
LEMMA DoomedOwn ==
    ASSUME TypeOK, NEW c \in Calls, Step(c) \/ Hangup(c), DoomedAt(c)
    PROVE  DoomedAt(c)'
  <1>1. PICK p \in Places \ {"idle", "rate"} : pc' = [pc EXCEPT ![c] = p]
    BY CallStep
  <1>2. pc'[c] = p /\ doomed' = doomed /\ budget' = budget /\ day' = day
    BY <1>1, CallStep DEF TypeOK, timeVars
  <1>3. pos[c] \in Nat /\ SubjectCount(c) \in Nat /\ listed[c] \in Seq(Budget)
    BY SubjectIs DEF TypeOK
  <1>4. CASE Check(c) \/ CheckTokens(c)
    <2>1. /\ listed' = listed /\ pos' = pos /\ today' = today
          /\ pc[c] \in {"rate", "tokens"}
          /\ \/ pc[c] = "rate" /\ p = "tokens"
             \/ p = "done"
             \/ p = "list"
             \/ p = "access" /\ c \in Videos
      <3>1. pc \in [Calls -> Places]
        BY DEF TypeOK
      <3>2. CASE Check(c)
        BY <1>2, <3>1, <3>2 DEF Check, CheckRefuses, Goes, callVars
      <3>3. CASE CheckTokens(c)
        BY <1>2, <3>1, <3>3 DEF CheckTokens, Returns, Goes, callVars
      <3>4. QED BY <1>4, <3>2, <3>3
    <2>2. Ahead(c) => Ahead(c)'
      <3>1. PICK n \in Nat : pos[c] = n
        BY <1>3
      <3>2. QED BY <2>1, <3>1, AheadStays
    <2>3. QED BY <1>2, <2>1, <2>2 DEF DoomedAt, SubjectOf
  <1>5. CASE ListBudgets(c)
    <2>1. pos' = pos /\ pc[c] = "list"
      BY <1>5 DEF ListBudgets
    <2>2. Ahead(c) => Ahead(c)'
      <3>1. PICK n \in Nat : pos[c] = n
        BY <1>3
      <3>2. QED BY <2>1, <3>1, AheadStays
    <2>3. CASE Len(listed[c]) < SubjectCount(c)
      <3>1. /\ listed'[c] = Append(listed[c], budget[SubjectOf(c, Len(listed[c]) + 1)])
            /\ p = "list"
        BY <1>2, <1>5, <2>1, <2>3 DEF ListBudgets, TypeOK
      <3>2. /\ Len(listed'[c]) = Len(listed[c]) + 1
            /\ \A i \in 1..Len(listed[c]) : listed'[c][i] = listed[c][i]
            /\ listed'[c][Len(listed[c]) + 1] = budget[SubjectOf(c, Len(listed[c]) + 1)]
        BY <1>3, <3>1
      <3>3. ASSUME doomed[c], NEW i \in 1..Len(listed'[c])
            PROVE  listed'[c][i] = budget[SubjectOf(c, i)]
        <4>1. i \in 1..Len(listed[c]) \/ i = Len(listed[c]) + 1
          BY <1>3, <3>2, <3>3
        <4>2. QED BY <2>1, <3>2, <3>3, <4>1 DEF DoomedAt
      <3>4. QED BY <1>2, <2>1, <2>2, <3>1, <3>3 DEF DoomedAt, SubjectOf
    <2>4. CASE ~(Len(listed[c]) < SubjectCount(c))
      <3>1. listed' = listed /\ p = "read" /\ today'[c] = day
        BY <1>1, <1>2, <1>5, <2>4 DEF ListBudgets, Goes, TypeOK
      <3>2. Len(listed[c]) >= SubjectCount(c)
        BY <1>3, <2>4
      <3>3. QED BY <1>2, <2>1, <2>2, <3>1, <3>2 DEF DoomedAt, SubjectOf, SubjectCount
    <2>5. QED BY <2>3, <2>4
  <1>6. CASE ReadSpend(c)
    <2>1. listed' = listed /\ today' = today /\ pc[c] = "read"
      BY <1>6 DEF ReadSpend
    <2>2. ASSUME doomed[c]
          PROVE  /\ Ahead(c) /\ today[c] = day
                 /\ \A i \in 1..SubjectCount(c) : listed[c][i] = budget[SubjectOf(c, i)]
      <3>1. Len(listed[c]) >= SubjectCount(c) /\ Len(listed[c]) \in Nat
        BY <1>3, <2>1, <2>2 DEF DoomedAt
      <3>2. \A i \in 1..SubjectCount(c) : i \in 1..Len(listed[c])
        BY <1>3, <3>1
      <3>3. QED BY <2>1, <2>2, <3>2 DEF DoomedAt
    <2>3. CASE pos[c] + 1 > SubjectCount(c)
      <3>1. ~Ahead(c)
        BY <1>3, <2>3 DEF Ahead
      <3>2. ~doomed[c] /\ p = "access"
        BY <1>1, <1>2, <1>6, <2>2, <2>3, <3>1 DEF ReadSpend, Goes, TypeOK
      <3>3. QED BY <1>2, <3>2 DEF DoomedAt
    <2>4. CASE ~(pos[c] + 1 > SubjectCount(c))
      <3>1. pos'[c] = pos[c] + 1 /\ pos[c] + 1 \in 1..SubjectCount(c)
        BY <1>3, <1>6, <2>4 DEF ReadSpend, TypeOK
      <3>2. CASE Exceeded(SubjectOf(c, pos[c] + 1), listed[c][pos[c] + 1], today[c])
        <4>1. p = "done"
          BY <1>1, <1>2, <1>6, <2>4, <3>2 DEF ReadSpend, Returns, Goes, TypeOK
        <4>2. QED BY <1>2, <2>1, <4>1 DEF DoomedAt
      <3>3. CASE ~Exceeded(SubjectOf(c, pos[c] + 1), listed[c][pos[c] + 1], today[c])
        <4>1. p = "read"
          BY <1>2, <1>6, <2>1, <2>4, <3>3 DEF ReadSpend
        <4>2. ASSUME doomed[c] PROVE Ahead(c)'
          <5>1. PICK n \in Nat : n = pos[c] + 1
            BY <1>3
          <5>2. ~Exceeded(SubjectOf(c, n), budget[SubjectOf(c, n)], day)
            BY <2>2, <3>1, <3>3, <4>2, <5>1
          <5>3. \A i \in (pos[c] + 1)..n : i = n
            BY <1>3, <5>1
          <5>4. \A i \in (pos[c] + 1)..n : i \in 1..SubjectCount(c) =>
                   ~Exceeded(SubjectOf(c, i), budget[SubjectOf(c, i)], day)
            BY <5>2, <5>3
          <5>5. QED BY <2>2, <3>1, <4>2, <5>1, <5>4, AheadStays
        <4>3. QED BY <1>2, <2>1, <4>1, <4>2 DEF DoomedAt, SubjectOf, SubjectCount
      <3>4. QED BY <3>2, <3>3
    <2>5. QED BY <2>3, <2>4
  <1>7. CASE Hangup(c)
    <2>1. p = "done"
      BY <1>1, <1>2, <1>7 DEF Hangup, Returns, Goes, TypeOK
    <2>2. QED BY <1>2, <2>1 DEF DoomedAt
  <1>8. CASE Forward(c) \/ Finish(c) \/ Streams(c) \/ Errs(c) \/ HangupStream(c) \/ Rollup(c)
    <2>1. pc[c] \in {"access", "running", "streaming", "filing", "closing", "dropped", "detached"}
      BY <1>8 DEF Forward, Finish, Streams, Errs, HangupStream, Rollup
    <2>2. ~doomed[c]
      BY <2>1 DEF DoomedAt
    <2>3. p \in {"running", "streaming", "filing", "closing", "dropped", "detached", "done", pc[c]}
      BY <1>1, <1>2, <1>8
         DEF Forward, Finish, Streams, Errs, HangupStream, Rollup, Returns, Goes, TypeOK
    <2>4. QED BY <1>2, <2>1, <2>2, <2>3 DEF DoomedAt
  <1>9. QED BY <1>4, <1>5, <1>6, <1>7, <1>8 DEF Step

\* Every step keeps Doomed.
LEMMA DoomedKept == TypeOK /\ Doomed /\ [Next]_vars => Doomed'
  <1> SUFFICES ASSUME TypeOK, Doomed, [Next]_vars PROVE Doomed'
    OBVIOUS
  <1>1. ASSUME NEW c \in Calls, Verify(c) PROVE Doomed'
    <2>1. /\ pc[c] = "idle" /\ pc' = [pc EXCEPT ![c] = "rate"]
          /\ doomed' = [doomed EXCEPT ![c] = SpentOut(c) /\ c \notin Videos]
          /\ UNCHANGED <<budget, spend, day, listed, pos, today>>
      BY <1>1 DEF Verify, Goes, storeVars, timeVars
    <2>2. ASSUME NEW d \in Calls, Ahead(d) PROVE Ahead(d)'
      BY <2>1, <2>2, AheadSame
    <2>3. ASSUME NEW d \in Calls, d # c PROVE DoomedAt(d)'
      <3>1. pc'[d] = pc[d] /\ doomed'[d] = doomed[d] /\ DoomedAt(d)
        BY <2>1, <2>3 DEF TypeOK, Doomed
      <3>2. QED BY <2>1, <2>2, <3>1 DEF DoomedAt, SubjectOf, SubjectCount
    <2>4. DoomedAt(c)'
      <3>1. /\ pc'[c] = "rate" /\ (doomed'[c] => SpentOut(c) /\ c \notin Videos)
            /\ listed[c] = <<>> /\ pos[c] = 0
        BY <2>1 DEF TypeOK, Doomed, DoomedAt
      <3>2. SpentOut(c) => Ahead(c)
        BY <3>1 DEF SpentOut, Ahead
      <3>3. doomed'[c] => Ahead(c)'
        BY <2>2, <3>1, <3>2
      <3>4. 1..Len(listed'[c]) = {}
        BY <2>1, <3>1
      <3>5. QED BY <2>1, <3>1, <3>3, <3>4 DEF DoomedAt
    <2>5. QED BY <2>3, <2>4 DEF Doomed
  <1>2. ASSUME NEW c \in Calls, Step(c) \/ Hangup(c) PROVE Doomed'
    BY <1>2, DoomedOthers, DoomedOwn DEF Doomed
  <1>3. CASE NewDay \/ \E s \in Subjects : SetBudget(s)
    <2>1. /\ \A c \in Calls : ~doomed'[c]
          /\ UNCHANGED <<pc, listed, pos>>
      BY <1>3 DEF NewDay, SetBudget, callVars
    <2>2. QED BY <2>1 DEF Doomed, DoomedAt
  <1>4. CASE Tick \/ UNCHANGED vars \/ \E k \in Keys : SetLimits(k)
    <2>1. UNCHANGED <<pc, listed, pos, today, doomed, budget, spend, day>>
      BY <1>4 DEF Tick, SetLimits, storeVars, timeVars, callVars, histVars, vars
    <2>2. ASSUME NEW d \in Calls, Ahead(d) PROVE Ahead(d)'
      BY <2>1, <2>2, AheadSame
    <2>3. QED BY <2>1, <2>2 DEF Doomed, DoomedAt, SubjectOf, SubjectCount
  <1>5. QED BY <1>1, <1>2, <1>3, <1>4 DEF Next, Served

-----------------------------------------------------------------------------
(* The theorems.                                                           *)

\* The initial states.
LEMMA InvInit == Init => AdmissionInv
  <1> SUFFICES ASSUME Init PROVE AdmissionInv
    OBVIOUS
  <1>1. TypeOK
    BY InitTyped
  <1>2. Verified
    BY DEF Init, Verified
  <1>3. Slotted
    <2>1. \A k : Holders(k) = {}
      BY DEF Init, Holders
    <2>2. QED BY <2>1, FS_EmptySet DEF Init, Slotted, SlotsBalance, Handling
  <1>4. Capped
    <2>1. ASSUME NEW k \in Keys PROVE inFlight[k] <= Max(Caps(k))
      <3>1. inFlight[k] = 0 /\ Max(Caps(k)) \in Nat
        BY <1>1, <1>2, CapsAre DEF Init
      <3>2. QED BY <3>1
    <2>2. QED BY <2>1 DEF Capped
  <1>5. Doomed
    BY DEF Init, Doomed, DoomedAt
  <1>6. QED BY <1>1, <1>2, <1>3, <1>4, <1>5 DEF AdmissionInv

\* Every step.
LEMMA InvNext == AdmissionInv /\ [Next]_vars => AdmissionInv'
  BY NextTyped, VerifiedKept, SlottedKept, CappedKept, DoomedKept DEF AdmissionInv

\* The invariant holds of run_call and the Limiter.
THEOREM AdmissionInvHolds == Spec => []AdmissionInv
  BY InvInit, InvNext, PTL DEF Spec

\* The types of the store's rows, the Limiter's scopes and the calls.
THEOREM TypeCorrect == Spec => []TypeOK
  <1>1. AdmissionInv => TypeOK
    BY DEF AdmissionInv
  <1>2. QED BY <1>1, AdmissionInvHolds, PTL

\* in_flight of a Scope is the number of guards that are held, and no guard
\* outlives its handler, whatever refuses, fails or hangs up.
THEOREM SlotsBalanceHolds == Spec => []SlotsBalance
  <1>1. AdmissionInv => SlotsBalance
    BY DEF AdmissionInv, Slotted
  <1>2. QED BY <1>1, AdmissionInvHolds, PTL

\* No key has more handlers past Limiter::check than its cap, or than the largest
\* cap that may have stood.
THEOREM HandlersWithinCapHolds == Spec => []HandlersWithinCap
  <1>1. ASSUME AdmissionInv PROVE HandlersWithinCap
    <2>1. ASSUME NEW k \in Keys, 0 \notin Caps(k)
          PROVE  Cardinality({c \in Calls : KeyOf[c] = k /\ pc[c] \in Handling}) <= Max(Caps(k))
      <3> DEFINE H == {c \in Calls : KeyOf[c] = k /\ pc[c] \in Handling}
      <3>1. TypeOK /\ Verified /\ Slotted /\ Capped
        BY <1>1 DEF AdmissionInv
      <3>2. ASSUME NEW c \in H PROVE held[c]
        <4>1. lim[c].max \in Caps(k)
          BY <3>1, CapsAre DEF Handling
        <4>2. ~Unlimited(lim[c])
          BY <2>1, <4>1 DEF Unlimited
        <4>3. QED BY <3>1, <4>2 DEF Slotted
      <3>3. H \in SUBSET Holders(k)
        BY <3>2 DEF Holders
      <3>4. /\ Cardinality(H) <= Cardinality(Holders(k)) /\ Cardinality(H) \in Nat
        <4> HIDE DEF H
        <4>1. QED BY <3>3, HoldersFinite, FS_Subset, FS_CardinalityType
      <3>5. Cardinality(Holders(k)) <= Max(Caps(k)) /\ Max(Caps(k)) \in Nat
        BY <2>1, <3>1, CapsAre DEF Slotted, SlotsBalance, Capped
      <3> HIDE DEF H
      <3>6. Cardinality(H) <= Max(Caps(k))
        BY <3>4, <3>5, HoldersFinite
      <3>7. QED BY <3>6 DEF H
    <2>2. QED BY <2>1 DEF HandlersWithinCap, Caps, Handling
  <1>2. QED BY <1>1, AdmissionInvHolds, PTL

\* A turn that was verified when one of its budgets was used up is refused by
\* enforce_budgets, whatever is spent meanwhile.
THEOREM SpentOutIsRefusedHolds == Spec => []SpentOutIsRefused
  <1>1. AdmissionInv => SpentOutIsRefused
    BY DEF AdmissionInv, Doomed, DoomedAt, SpentOutIsRefused
  <1>2. QED BY <1>1, AdmissionInvHolds, PTL

-----------------------------------------------------------------------------
(* Buckets.                                                                *)

\* A bucket that is looked at: what its fields are afterwards, and what it holds.
LEMMA LookedAt ==
    ASSUME NEW q \in Seq(Bucket), Len(q) <= 1, NEW n \in Nat, NEW t \in Nat,
           NEW r, r = Refill([Existing(q, n, t) EXCEPT !.cap = n], t)
    PROVE  /\ r \in Bucket /\ r.cap = n /\ r.last = t
           /\ r.rate = IF q = <<>> THEN n ELSE q[1].rate
           /\ r.tokens <= n * Window
           /\ q = <<>> => r.tokens = n * Window
           /\ q # <<>> /\ q[1].tokens >= 0 => r.tokens >= 0
           /\ q # <<>> /\ q[1].last <= t =>
                 r.tokens <= q[1].tokens + (t - q[1].last) * q[1].rate
  <1>1. PICK e \in Bucket : e = [Existing(q, n, t) EXCEPT !.cap = n]
    BY BucketTyped
  <1>2. r \in Bucket /\ r.cap = e.cap /\ r.rate = e.rate /\ r.last = t
        /\ r.tokens = Topped(e, Elapsed(e, t))
    BY <1>1, RefillIs
  <1>3. PICK m \in Nat : m = Elapsed(e, t)
    BY ElapsedIs
  <1>4. PICK a \in Nat : a = m * e.rate
    BY ToppedIs
  <1>5. PICK w \in Nat : w = n * Window
    BY BoundsAssumption
  <1>6. Existing(q, n, t) \in Bucket
    BY BucketTyped
  <1>7. /\ e.cap = n /\ e.tokens = Existing(q, n, t).tokens /\ e.tokens \in Int
        /\ e.rate = Existing(q, n, t).rate /\ e.last = Existing(q, n, t).last
    BY <1>1, <1>6 DEF Bucket
  <1>8. r.tokens = IF w <= e.tokens + a THEN w ELSE e.tokens + a
    BY <1>2, <1>3, <1>4, <1>5, <1>7, ToppedIs
  <1>9. r.tokens <= w /\ r.tokens <= e.tokens + a /\ (e.tokens >= 0 => r.tokens >= 0)
    BY <1>7, <1>8
  <1>10. CASE q = <<>>
    <2>1. e.tokens = w /\ e.rate = n
      BY <1>5, <1>7, <1>10 DEF Existing, NewBucket
    <2>2. r.tokens = w
      BY <1>8, <2>1
    <2>3. QED BY <1>2, <1>5, <1>7, <1>10, <2>1, <2>2
  <1>11. CASE q # <<>>
    <2>1. e.tokens = q[1].tokens /\ e.rate = q[1].rate /\ e.last = q[1].last
      BY <1>7, <1>11 DEF Existing
    <2>2. e.last <= t => a <= (t - e.last) * e.rate
      <3>1. e.last \in Int /\ e.rate \in Nat
        BY DEF Bucket
      <3>2. e.last <= t => m <= t - e.last
        BY <1>3, ElapsedIs
      <3>3. ASSUME e.last <= t PROVE a <= (t - e.last) * e.rate
        <4>1. PICK d \in Int : d = t - e.last
          BY <3>1
        <4>2. m <= d
          BY <3>2, <3>3, <4>1
        <4>3. PICK u \in Nat : u = e.rate
          BY <3>1
        <4>4. m * u <= d * u
          BY <4>2, ProductGrows
        <4>5. QED BY <1>4, <4>1, <4>3, <4>4
      <3>4. QED BY <3>3
    <2>3. PICK p \in Int : p = (t - e.last) * e.rate
      BY DEF Bucket
    <2>4. e.last <= t => r.tokens <= e.tokens + p
      <3>1. r.tokens \in Int
        BY <1>2 DEF Bucket
      <3>2. PICK x \in Int, y \in Int : x = r.tokens /\ y = e.tokens
        BY <1>7, <3>1
      <3>3. x <= y + a /\ (e.last <= t => a <= p)
        BY <1>9, <2>2, <2>3, <3>2
      <3>4. QED BY <3>2, <3>3
    <2>5. QED BY <1>2, <1>5, <1>7, <1>9, <1>11, <2>1, <2>3, <2>4
  <1>12. QED BY <1>10, <1>11

\* The types of a key's buckets and limits.
LEMMA KeyTyped ==
    ASSUME TypeOK, NEW k \in Keys
    PROVE  /\ rpm[k] \in Seq(Bucket) /\ Len(rpm[k]) <= 1 /\ limits[k].rpm \in Nat
           /\ tpm[k] \in Seq(Bucket) /\ Len(tpm[k]) <= 1 /\ limits[k].tpm \in Nat
           /\ clock \in Nat /\ upset[k] \in Nat \cup {Never} /\ upset[k] \in Int
           /\ rpm[k] # <<>> => /\ rpm[k][1] \in Bucket /\ rpm[k][1].last \in Int
                               /\ rpm[k][1].tokens \in Int /\ rpm[k][1].rate \in Nat
           /\ tpm[k] # <<>> => /\ tpm[k][1] \in Bucket /\ tpm[k][1].last \in Int
  <1>1. /\ rpm[k] \in Seq(Bucket) /\ Len(rpm[k]) <= 1 /\ limits[k].rpm \in Nat
        /\ tpm[k] \in Seq(Bucket) /\ Len(tpm[k]) <= 1 /\ limits[k].tpm \in Nat
        /\ clock \in Nat /\ upset[k] \in Nat \cup {Never}
    BY DEF TypeOK, Limits
  <1>2. \A q \in Seq(Bucket) : q # <<>> => q[1] \in Bucket
    OBVIOUS
  <1>3. \A b \in Bucket : b.last \in Int /\ b.tokens \in Int /\ b.rate \in Nat
    BY DEF Bucket
  <1>4. QED BY <1>1, <1>2, <1>3 DEF Never

\* The types of a call.
LEMMA CallTyped ==
    ASSUME TypeOK, NEW c \in Calls
    PROVE  /\ KeyOf[c] \in Keys /\ at[c] \in Nat /\ pc[c] \in Places
           /\ lim[c].rpm \in Nat /\ lim[c].tpm \in Nat
           /\ admitted[c] \in Int /\ (admitted[c] # Never => admitted[c] \in Nat)
  BY SubjectIs DEF TypeOK, Limits, Never

\* What a check does with the bucket of its key: it leaves it, or it looks at it
\* and takes a token or refuses.
Looks(c, r) ==
    /\ lim[c].rpm > 0 /\ Upsets(KeyOf[c], at[c])
    /\ \/ /\ r.tokens >= Window
          /\ rpm' = [rpm EXCEPT ![KeyOf[c]] = <<[r EXCEPT !.tokens = @ - Window]>>]
          /\ admitted' = [admitted EXCEPT ![c] = at[c]]
       \/ /\ r.tokens < Window
          /\ rpm' = [rpm EXCEPT ![KeyOf[c]] = <<r>>]
          /\ admitted' = admitted
Looked(c) == Refill([Existing(rpm[KeyOf[c]], lim[c].rpm, at[c]) EXCEPT !.cap = lim[c].rpm], at[c])

LEMMA CheckLooks ==
    ASSUME TypeOK, NEW c \in Calls, Check(c)
    PROVE  /\ pc[c] = "rate" /\ UNCHANGED <<limits, clock, tpm, lim, at, metered>>
           /\ pc'[c] # "rate" /\ \A d \in Calls : d # c => pc'[d] = pc[d]
           /\ \/ /\ UNCHANGED <<rpm, upset>>
                 /\ \/ admitted' = admitted
                    \/ lim[c].rpm = 0 /\ admitted' = [admitted EXCEPT ![c] = at[c]]
              \/ Looks(c, Looked(c))
  <1>1. pc \in [Calls -> Places]
    BY DEF TypeOK
  <1>2. /\ pc[c] = "rate" /\ UNCHANGED <<limits, clock, tpm, lim, at, metered>>
        /\ pc'[c] # "rate" /\ \A d \in Calls : d # c => pc'[d] = pc[d]
    BY <1>1 DEF Check, CheckRefuses, Goes, storeVars, timeVars, callVars
  <1>3. \/ /\ UNCHANGED <<rpm, upset>>
           /\ \/ admitted' = admitted
              \/ lim[c].rpm = 0 /\ admitted' = [admitted EXCEPT ![c] = at[c]]
        \/ Looks(c, Looked(c))
    <2> DEFINE r == Refill([Existing(rpm[KeyOf[c]], lim[c].rpm, at[c]) EXCEPT !.cap = lim[c].rpm], at[c])
    <2>1. r = Looked(c)
      BY DEF Looked
    <2> HIDE DEF r
    <2>2. QED BY <2>1 DEF Check, CheckRefuses, Looks, r
  <1>4. QED BY <1>2, <1>3

\* The bucket that a check leaves behind.
LEMMA LooksLeave ==
    ASSUME TypeOK, NEW c \in Calls, NEW r \in Bucket, Looks(c, r)
    PROVE  \E b \in Bucket :
              /\ rpm' = [rpm EXCEPT ![KeyOf[c]] = <<b>>]
              /\ b.cap = r.cap /\ b.rate = r.rate /\ b.last = r.last
              /\ \/ /\ r.tokens >= Window /\ b.tokens = r.tokens - Window
                    /\ admitted' = [admitted EXCEPT ![c] = at[c]]
                 \/ /\ r.tokens < Window /\ b.tokens = r.tokens
                    /\ admitted' = admitted
  <1>1. CASE r.tokens < Window /\ rpm' = [rpm EXCEPT ![KeyOf[c]] = <<r>>] /\ admitted' = admitted
    BY <1>1
  <1>2. CASE /\ r.tokens >= Window
             /\ rpm' = [rpm EXCEPT ![KeyOf[c]] = <<[r EXCEPT !.tokens = @ - Window]>>]
             /\ admitted' = [admitted EXCEPT ![c] = at[c]]
    <2>1. PICK x \in Int : x = r.tokens - Window
      BY BoundsAssumption DEF Bucket
    <2>2. PICK b : b = [r EXCEPT !.tokens = x]
      OBVIOUS
    <2>3. b \in Bucket /\ b.cap = r.cap /\ b.rate = r.rate /\ b.last = r.last /\ b.tokens = x
      BY <2>1, <2>2 DEF Bucket
    <2>4. rpm' = [rpm EXCEPT ![KeyOf[c]] = <<b>>]
      BY <1>2, <2>1, <2>2
    <2>5. QED BY <1>2, <2>1, <2>3, <2>4
  <1>3. QED BY <1>1, <1>2 DEF Looks

\* Which steps touch a bucket, or what is known of it.
LEMMA OtherSteps ==
    ASSUME TypeOK, [Next]_vars
    PROVE  \/ \E c \in Calls : Check(c) \/ CheckTokens(c) \/ Finish(c)
           \/ Tick
           \/ \E k \in Keys : SetLimits(k)
           \/ UNCHANGED <<limits, clock, rpm, tpm, admitted, metered, upset>>
  <1>1. ASSUME NEW c \in Calls, Verify(c)
        PROVE  UNCHANGED <<limits, clock, rpm, tpm, admitted, metered, upset>>
    BY <1>1 DEF Verify, storeVars, timeVars, scopeVars
  <1>2. ASSUME NEW c \in Calls,
               \/ ListBudgets(c) \/ ReadSpend(c) \/ Forward(c) \/ Streams(c)
               \/ Errs(c) \/ Hangup(c) \/ HangupStream(c) \/ Rollup(c)
        PROVE  UNCHANGED <<limits, clock, rpm, tpm, admitted, metered, upset>>
    BY <1>2 DEF ListBudgets, ReadSpend, Forward, Streams, Errs, Hangup, HangupStream, Rollup,
                storeVars, timeVars, scopeVars, histVars
  <1>3. CASE NewDay \/ UNCHANGED vars \/ \E s \in Subjects : SetBudget(s)
    BY <1>3 DEF NewDay, SetBudget, storeVars, timeVars, scopeVars, histVars, vars
  <1>4. QED BY <1>1, <1>2, <1>3 DEF Next, Step, Served

\* A bucket of tokens that is looked at, or charged, is one that is past.
PastBucket(q) == q # <<>> => q[1].last <= clock /\ q[1].tokens <= q[1].cap * Window

LEMMA TokensPast ==
    ASSUME TypeOK, Past, NEW c \in Calls, CheckTokens(c) \/ Finish(c)
    PROVE  /\ UNCHANGED <<limits, clock, rpm, admitted, upset, at, lim>>
           /\ \A k \in Keys : PastBucket(tpm'[k])
  <1>1. UNCHANGED <<limits, clock, rpm, admitted, upset, at, lim>>
    BY DEF CheckTokens, Finish, storeVars, timeVars, callVars, histVars
  <1>2. \A k \in Keys : PastBucket(tpm[k])
    BY DEF Past, PastBucket
  <1>3. KeyOf[c] \in Keys /\ tpm \in [Keys -> Seq(Bucket)] /\ at[c] \in Nat /\ clock \in Nat
        /\ lim[c].tpm \in Nat /\ at[c] <= clock /\ tpm[KeyOf[c]] \in Seq(Bucket)
    BY CallTyped DEF TypeOK, Past
  <1>4. ASSUME NEW e \in Bucket, NEW t \in Nat, t <= clock, NEW m \in Nat, NEW b \in Bucket,
               b.cap = e.cap, b.last = t, b.tokens = Refill(e, t).tokens - m,
               tpm' = [tpm EXCEPT ![KeyOf[c]] = <<b>>]
        PROVE  \A k \in Keys : PastBucket(tpm'[k])
    <2>1. PICK w \in Nat, x \in Int : w = b.cap * Window /\ x = Refill(e, t).tokens /\ x <= w
      <3>1. PICK a \in Nat : a = Elapsed(e, t)
        BY ElapsedIs
      <3>2. PICK w \in Nat, v \in Int : w = e.cap * Window /\ v = e.tokens + a * e.rate
        BY ToppedIs
      <3>3. Refill(e, t).tokens = IF w <= v THEN w ELSE v
        BY <3>1, <3>2, ToppedIs, RefillIs
      <3>4. Refill(e, t).tokens \in Int /\ Refill(e, t).tokens <= w
        BY <3>2, <3>3
      <3>5. QED BY <1>4, <3>2, <3>4
    <2>2. b.tokens <= w
      BY <1>4, <2>1
    <2>3. PastBucket(<<b>>)
      BY <1>4, <2>1, <2>2 DEF PastBucket
    <2>4. QED BY <1>2, <1>3, <1>4, <2>3
  <1>5. CASE tpm' = tpm
    BY <1>1, <1>2, <1>5
  <1>6. CASE CheckTokens(c) /\ tpm' # tpm
    <2>1. PICK e \in Bucket : e = Existing(tpm[KeyOf[c]], lim[c].tpm, at[c])
      BY <1>3, BucketTyped
    <2>2. PICK b \in Bucket : b = Refill(e, at[c])
      BY <1>3, BucketTyped
    <2>3. tpm' = [tpm EXCEPT ![KeyOf[c]] = <<b>>]
      BY <1>6, <2>1, <2>2 DEF CheckTokens
    <2>4. b.cap = e.cap /\ b.last = at[c] /\ b.tokens = Refill(e, at[c]).tokens - 0
      <3>1. b.tokens \in Int
        BY DEF Bucket
      <3>2. QED BY <1>3, <2>2, <3>1, RefillIs
    <2>5. QED BY <1>1, <1>3, <1>4, <2>3, <2>4
  <1>7. CASE Finish(c) /\ tpm' # tpm
    <2>1. PICK n \in Nat : ChargeTokens(c, n)
      BY <1>7, BoundsAssumption DEF Finish, TypeOK
    <2>2. PICK e \in Bucket : e = [Existing(tpm[KeyOf[c]], lim[c].tpm, clock) EXCEPT !.cap = lim[c].tpm]
      BY <1>3, BucketTyped
    <2>3. PICK r \in Bucket : r = Refill(e, clock)
      BY <1>3, BucketTyped
    <2>4. PICK m \in Nat : m = n * Window
      BY BoundsAssumption
    <2>5. PICK x \in Int : x = r.tokens - m
      BY DEF Bucket
    <2>6. PICK b : b = [r EXCEPT !.tokens = x]
      OBVIOUS
    <2>7. tpm' = [tpm EXCEPT ![KeyOf[c]] = <<b>>]
      BY <1>7, <2>1, <2>2, <2>3, <2>4, <2>5, <2>6 DEF ChargeTokens
    <2>8. b \in Bucket /\ b.cap = r.cap /\ b.last = r.last /\ b.tokens = r.tokens - m
      BY <2>5, <2>6 DEF Bucket
    <2>9. r.cap = e.cap /\ r.last = clock
      BY <1>3, <2>3, RefillIs
    <2>10. b.cap = e.cap /\ b.last = clock /\ b.tokens = Refill(e, clock).tokens - m
      BY <2>3, <2>8, <2>9
    <2>11. clock <= clock /\ clock \in Nat /\ b \in Bucket
      BY <1>3, <2>8
    <2>12. QED BY <1>1, <1>4, <2>7, <2>10, <2>11
  <1>8. QED BY <1>1, <1>5, <1>6, <1>7

\* Every step keeps Past.
LEMMA PastKept ==
    ASSUME TypeOK, Past, [Next]_vars
    PROVE  Past'
  <1>1. /\ pc \in [Calls -> Places] /\ clock \in Nat /\ at \in [Calls -> Nat]
        /\ cost \in [Calls -> Nat] /\ admitted \in [Calls -> Nat \cup {Never}]
    BY DEF TypeOK
  <1> DEFINE CallPast(c) ==
        /\ at[c] <= clock /\ admitted[c] <= clock
        /\ admitted[c] # Never => pc[c] \notin {"idle", "rate"}
        /\ c \in metered => pc[c] \notin {"idle", "rate", "tokens"}
        /\ pc[c] \in {"filing", "closing", "dropped"} => cost[c] \in Tokens
      KeyPast(k) ==
        /\ upset[k] <= clock
        /\ rpm[k] # <<>> => /\ rpm[k][1].last <= clock /\ rpm[k][1].tokens >= 0
                            /\ rpm[k][1].tokens <= rpm[k][1].cap * Window
        /\ tpm[k] # <<>> => /\ tpm[k][1].last <= clock
                            /\ tpm[k][1].tokens <= tpm[k][1].cap * Window
  <1>2. (\A c \in Calls : CallPast(c)) /\ (\A k \in Keys : KeyPast(k))
    BY DEF Past
  <1>3. \A c \in Calls : CallPast(c)'
    <2>1. ASSUME NEW c \in Calls, Verify(c), NEW d \in Calls PROVE CallPast(d)'
      <3>1. /\ pc[c] = "idle" /\ pc' = [pc EXCEPT ![c] = "rate"]
            /\ at' = [at EXCEPT ![c] = clock]
            /\ UNCHANGED <<clock, admitted, metered, cost>>
        BY <2>1 DEF Verify, Goes, timeVars
      <3>2. QED BY <1>1, <1>2, <3>1
    <2>2. ASSUME NEW c \in Calls, Step(c) \/ Hangup(c), NEW d \in Calls PROVE CallPast(d)'
      <3>1. PICK p \in Places \ {"idle", "rate"} : pc' = [pc EXCEPT ![c] = p]
        BY <2>2, CallStep
      <3>2. pc[c] # "idle" /\ UNCHANGED <<clock, at>> /\ pc'[c] = p
        BY <1>1, <2>2, <3>1, CallStep DEF timeVars
      <3>3. CASE Check(c)
        <4>1. pc[c] = "rate" /\ metered' = metered /\ cost' = cost /\ p \in {"tokens", "done"}
          BY <1>1, <3>2, <3>3 DEF Check, CheckRefuses, Goes, callVars
        <4>2. admitted' = admitted \/ admitted' = [admitted EXCEPT ![c] = at[c]]
          BY <3>3 DEF Check, CheckRefuses
        <4>3. QED BY <1>1, <1>2, <3>1, <3>2, <4>1, <4>2
      <3>4. CASE CheckTokens(c)
        <4>1. pc[c] = "tokens" /\ admitted' = admitted /\ cost' = cost
          BY <3>4 DEF CheckTokens, callVars
        <4>2. metered' = metered \/ metered' = metered \cup {c}
          BY <3>4 DEF CheckTokens
        <4>3. p \in {"list", "access", "done"}
          BY <1>1, <3>2, <3>4 DEF CheckTokens, Returns, Goes
        <4>4. QED BY <1>1, <1>2, <3>1, <3>2, <4>1, <4>2, <4>3
      <3>5. CASE Finish(c)
        <4>1. /\ pc[c] \in {"running", "streaming", "dropped"}
              /\ UNCHANGED <<admitted, metered>> /\ p \in {"filing", "closing", "detached"}
          BY <1>1, <3>2, <3>5 DEF Finish, Goes, histVars
        <4>2. PICK n \in Tokens : cost' = [cost EXCEPT ![c] = n]
          BY <1>2, <3>5 DEF Finish
        <4>3. QED BY <1>1, <1>2, <3>1, <3>2, <4>1, <4>2
      <3>6. CASE HangupStream(c)
        <4>1. /\ pc[c] \in {"streaming", "closing"} /\ p = "dropped"
              /\ UNCHANGED <<admitted, metered>>
          BY <1>1, <3>2, <3>6 DEF HangupStream, Goes, histVars
        <4>2. PICK n \in Tokens : cost' = [cost EXCEPT ![c] = n]
          BY <1>2, <3>6 DEF HangupStream
        <4>3. QED BY <1>1, <1>2, <3>1, <3>2, <4>1, <4>2
      <3>7. CASE ListBudgets(c) \/ ReadSpend(c) \/ Forward(c) \/ Streams(c) \/ Errs(c) \/ Hangup(c)
        <4>1. /\ pc[c] \notin {"idle", "rate", "tokens"} /\ UNCHANGED <<admitted, metered, cost>>
              /\ p \notin {"tokens", "filing", "closing", "dropped"} \/ p = pc[c]
          BY <1>1, <3>2, <3>7 DEF ListBudgets, ReadSpend, Forward, Streams, Errs, Hangup,
                Returns, Goes, callVars, histVars
        <4>2. QED BY <1>1, <1>2, <3>1, <3>2, <4>1
      <3>8. CASE Rollup(c)
        <4>1. /\ pc[c] \in {"filing", "closing", "detached"} /\ UNCHANGED <<admitted, metered, cost>>
              /\ p = "done" \/ p = pc[c]
          BY <1>1, <3>2, <3>8 DEF Rollup, Returns, Goes, histVars
        <4>2. QED BY <1>1, <1>2, <3>1, <3>2, <4>1
      <3>9. QED BY <2>2, <3>3, <3>4, <3>5, <3>6, <3>7, <3>8 DEF Step
    <2>3. ASSUME Tick, NEW d \in Calls PROVE CallPast(d)'
      <3>1. clock' = clock + 1 /\ UNCHANGED <<pc, at, cost, admitted, metered>>
        BY <2>3 DEF Tick, callVars, histVars
      <3>2. admitted[d] \in Int /\ at[d] \in Int
        BY CallTyped
      <3>3. QED BY <1>1, <1>2, <3>1, <3>2
    <2>4. ASSUME NewDay \/ UNCHANGED vars \/ (\E s \in Subjects : SetBudget(s))
                   \/ (\E k \in Keys : SetLimits(k)),
                 NEW d \in Calls
          PROVE  CallPast(d)'
      <3>1. UNCHANGED <<clock, pc, at, cost, admitted, metered>>
        BY <2>4 DEF NewDay, SetBudget, SetLimits, timeVars, callVars, histVars, vars
      <3>2. QED BY <1>2, <3>1
    <2>5. QED BY <2>1, <2>2, <2>3, <2>4 DEF Next, Served
  <1>4. \A k \in Keys : KeyPast(k)'
    <2>1. CASE UNCHANGED <<limits, clock, rpm, tpm, admitted, metered, upset>>
      BY <1>2, <2>1
    <2>2. ASSUME NEW c \in Calls, Check(c), NEW j \in Keys PROVE KeyPast(j)'
      <3>1. UNCHANGED <<clock, tpm>>
        BY <2>2, CheckLooks
      <3>2. CASE UNCHANGED <<rpm, upset>>
        BY <1>2, <3>1, <3>2
      <3>3. CASE Looks(c, Looked(c))
        <4>1. PICK k \in Keys : k = KeyOf[c]
          BY CallTyped
        <4>2. PICK r \in Bucket : r = Looked(c)
          BY CallTyped, KeyTyped, LookedAt DEF Looked
        <4>3. PICK b \in Bucket :
                 /\ rpm' = [rpm EXCEPT ![k] = <<b>>] /\ b.cap = r.cap /\ b.last = r.last
                 /\ \/ r.tokens >= Window /\ b.tokens = r.tokens - Window
                    \/ b.tokens = r.tokens
          BY <3>3, <4>1, <4>2, LooksLeave
        <4>4. r.cap = lim[c].rpm /\ r.last = at[c] /\ r.tokens <= lim[c].rpm * Window /\ r.tokens >= 0
          <5>1. lim[c].rpm * Window >= 0 /\ lim[c].rpm * Window \in Int
            BY CallTyped, BoundsAssumption
          <5>2. /\ r.cap = lim[c].rpm /\ r.last = at[c] /\ r.tokens <= lim[c].rpm * Window
                /\ rpm[k] = <<>> => r.tokens = lim[c].rpm * Window
                /\ rpm[k] # <<>> /\ rpm[k][1].tokens >= 0 => r.tokens >= 0
            BY <4>1, <4>2, CallTyped, KeyTyped, LookedAt DEF Looked
          <5>3. QED BY <1>2, <4>1, <5>1, <5>2
        <4>5. b.last <= clock /\ b.tokens >= 0 /\ b.tokens <= b.cap * Window
          <5>1. PICK x \in Int, w \in Int : x = r.tokens /\ w = lim[c].rpm * Window
            BY CallTyped, BoundsAssumption DEF Bucket
          <5>2. x <= w /\ x >= 0 /\ b.tokens \in Int
            BY <4>4, <5>1 DEF Bucket
          <5>3. b.tokens >= 0 /\ b.tokens <= w
            BY <4>3, <5>1, <5>2, BoundsAssumption
          <5>4. QED BY <1>2, <4>3, <4>4, <5>1, <5>3
        <4>6. upset' = upset \/ upset' = [upset EXCEPT ![k] = clock]
          BY <3>3, <4>1 DEF Looks, Upsets
        <4>7. upset'[j] <= clock
          <5>1. clock <= clock /\ upset[j] <= clock /\ upset \in [Keys -> Nat \cup {Never}]
            BY <1>1, <1>2 DEF TypeOK
          <5>2. upset'[j] = upset[j] \/ upset'[j] = clock
            BY <4>6, <5>1
          <5>3. QED BY <5>1, <5>2
        <4>8. rpm'[j] = rpm[j] \/ rpm'[j] = <<b>>
          BY <4>3 DEF TypeOK
        <4>9. QED BY <1>2, <3>1, <4>5, <4>7, <4>8
      <3>4. QED BY <2>2, <3>2, <3>3, CheckLooks
    <2>3. ASSUME NEW c \in Calls, CheckTokens(c) \/ Finish(c) PROVE \A k \in Keys : KeyPast(k)'
      <3>1. UNCHANGED <<clock, rpm, upset>> /\ \A k \in Keys : PastBucket(tpm'[k])
        BY <2>3, TokensPast
      <3>2. QED BY <1>2, <3>1 DEF PastBucket
    <2>4. ASSUME Tick, NEW k \in Keys PROVE KeyPast(k)'
      <3>1. clock' = clock + 1 /\ UNCHANGED <<rpm, tpm, upset>>
        BY <2>4 DEF Tick, scopeVars, histVars
      <3>2. QED BY <1>1, <1>2, <3>1, KeyTyped
    <2>5. ASSUME NEW j \in Keys, SetLimits(j), NEW k \in Keys PROVE KeyPast(k)'
      <3>1. UNCHANGED <<clock, rpm, tpm>> /\ upset' = [upset EXCEPT ![j] = clock]
        BY <2>5 DEF SetLimits, scopeVars
      <3>2. upset'[k] <= clock
        BY <1>1, <1>2, <3>1 DEF TypeOK
      <3>3. QED BY <1>2, <3>1, <3>2
    <2>6. QED BY <2>1, <2>2, <2>3, <2>4, <2>5, OtherSteps
  <1>5. QED BY <1>3, <1>4 DEF Past

\* Every step keeps Known.
LEMMA KnownKept ==
    ASSUME TypeOK, Past, Known, [Next]_vars
    PROVE  Known'
  <1>1. pc \in [Calls -> Places] /\ lim \in [Calls -> Limits] /\ at \in [Calls -> Nat]
    BY DEF TypeOK
  <1>2. \A c \in Calls : KeyOf[c] \in Keys /\ at[c] <= clock
    BY SubjectIs DEF Past
  <1>3. ASSUME NEW c \in Calls, Verify(c) PROVE Known'
    <2>1. /\ pc' = [pc EXCEPT ![c] = "rate"] /\ lim' = [lim EXCEPT ![c] = limits[KeyOf[c]]]
          /\ at' = [at EXCEPT ![c] = clock] /\ UNCHANGED <<limits, upset>>
      BY <1>3 DEF Verify, Goes, storeVars
    <2>2. QED BY <1>1, <2>1 DEF Known
  <1>4. ASSUME NEW c \in Calls, Step(c) \/ Hangup(c) PROVE Known'
    <2>1. PICK p \in Places \ {"idle", "rate"} : pc' = [pc EXCEPT ![c] = p]
      BY <1>4, CallStep
    <2>2. UNCHANGED <<limits, lim, at, clock>>
      BY <1>4, CallStep DEF timeVars
    <2>3. \A k \in Keys : upset'[k] = upset[k] \/ upset'[k] = clock
      <3>1. CASE Check(c)
        <4>1. upset' = upset \/ upset' = [upset EXCEPT ![KeyOf[c]] = clock]
          BY <3>1, CheckLooks DEF Looks, Upsets
        <4>2. QED BY <4>1 DEF TypeOK
      <3>2. CASE ~Check(c)
        BY <1>4, <3>2 DEF Step, CheckTokens, ListBudgets, ReadSpend, Forward, Finish, Streams,
              Errs, Hangup, HangupStream, Rollup, histVars
      <3>3. QED BY <3>1, <3>2
    <2>4. \A d \in Calls : pc'[d] = "rate" => pc[d] = "rate"
      BY <1>1, <2>1
    <2>5. ASSUME NEW d \in Calls, pc[d] = "rate", lim[d] # limits[KeyOf[d]]
          PROVE  at[d] <= upset'[KeyOf[d]]
      BY <1>2, <2>3, <2>5 DEF Known
    <2>6. QED BY <2>2, <2>4, <2>5 DEF Known
  <1>5. CASE Tick \/ NewDay \/ UNCHANGED vars \/ \E s \in Subjects : SetBudget(s)
    <2>1. UNCHANGED <<pc, lim, limits, at, upset>>
      BY <1>5 DEF Tick, NewDay, SetBudget, storeVars, callVars, histVars, vars
    <2>2. QED BY <2>1 DEF Known
  <1>6. ASSUME NEW k \in Keys, SetLimits(k) PROVE Known'
    <2>1. PICK l \in LimitSets : limits' = [limits EXCEPT ![k] = l]
      BY <1>6 DEF SetLimits
    <2>2. /\ UNCHANGED <<pc, lim, at>> /\ upset' = [upset EXCEPT ![k] = clock]
          /\ upset \in [Keys -> Nat \cup {Never}] /\ limits \in [Keys -> Limits]
      BY <1>6 DEF SetLimits, callVars, TypeOK
    <2>3. ASSUME NEW d \in Calls, pc[d] = "rate", lim[d] # limits'[KeyOf[d]]
          PROVE  at[d] <= upset'[KeyOf[d]]
      <3>1. CASE KeyOf[d] = k
        BY <1>2, <2>2, <3>1
      <3>2. CASE KeyOf[d] # k
        BY <1>2, <2>1, <2>2, <2>3, <3>2 DEF Known
      <3>3. QED BY <3>1, <3>2
    <2>4. QED BY <2>2, <2>3 DEF Known
  <1>7. QED BY <1>3, <1>4, <1>5, <1>6 DEF Next, Served

\* The calls that passed are finitely many.
LEMMA SinceFinite ==
    \A k, t : IsFiniteSet(Since(k, t)) /\ Cardinality(Since(k, t)) \in Nat
  <1>1. ASSUME NEW k, NEW t PROVE IsFiniteSet(Since(k, t)) /\ Cardinality(Since(k, t)) \in Nat
    <2>1. Since(k, t) \in SUBSET Calls
      BY DEF Since
    <2>2. QED BY <2>1, CallsAssumption, FS_Subset, FS_CardinalityType
  <1>2. QED BY <1>1

\* What passed since a time after the last upset, and what a call that knows the
\* limits finds in the bucket, are paid by a full bucket and the refill up to then.
LEMMA PaidWhenLooked ==
    ASSUME TypeOK, Past, Paid, NEW c \in Calls, NEW k \in Keys, k = KeyOf[c],
           lim[c] = limits[k], limits[k].rpm > 0,
           rpm[k] # <<>> => rpm[k][1].last <= at[c],
           NEW r, r = Looked(c),
           NEW t \in Nat, upset[k] < t, t <= at[c]
    PROVE  Cardinality(Since(k, t)) * Window + r.tokens
              <= limits[k].rpm * Window + (at[c] - t) * r.rate
  <1>1. PICK n \in Nat : n = limits[k].rpm
    BY KeyTyped
  <1>2. at[c] \in Nat
    BY CallTyped
  <1>3. /\ r \in Bucket /\ r.rate = IF rpm[k] = <<>> THEN n ELSE rpm[k][1].rate
        /\ r.tokens <= n * Window
        /\ rpm[k] # <<>> /\ rpm[k][1].last <= at[c] =>
              r.tokens <= rpm[k][1].tokens + (at[c] - rpm[k][1].last) * rpm[k][1].rate
    <2>1. r = Refill([Existing(rpm[k], n, at[c]) EXCEPT !.cap = n], at[c])
      BY <1>1 DEF Looked
    <2>2. rpm[k] \in Seq(Bucket) /\ Len(rpm[k]) <= 1
      BY KeyTyped
    <2>3. QED BY <1>1, <1>2, <2>1, <2>2, LookedAt
  <1>4. PICK w \in Nat, x \in Int : w = n * Window /\ x = r.tokens /\ x <= w
    BY <1>1, <1>3, BoundsAssumption DEF Bucket
  <1>5. PICK m \in Nat : m = Cardinality(Since(k, t)) * Window
    BY SinceFinite, BoundsAssumption
  <1>6. PICK u \in Nat : u = r.rate
    BY <1>3 DEF Bucket
  <1>7. PICK y \in Nat : y = (at[c] - t) * u
    <2>1. at[c] - t \in Nat
      BY <1>2
    <2>2. QED BY <2>1
  <1>8. CASE rpm[k] = <<>> \/ ~(t <= rpm[k][1].last)
    <2>1. ASSUME NEW d \in Since(k, t) PROVE FALSE
      <3>1. d \in Calls /\ KeyOf[d] = k /\ admitted[d] # Never /\ admitted[d] >= t
        BY DEF Since
      <3>2. \/ admitted[d] <= upset[k]
            \/ rpm[k] # <<>> /\ admitted[d] <= rpm[k][1].last
        BY <3>1 DEF Paid, MovedAt
      <3>3. admitted[d] \in Int /\ upset[k] \in Int /\ (rpm[k] # <<>> => rpm[k][1].last \in Int)
        BY <3>1, CallTyped, KeyTyped
      <3>4. QED BY <1>8, <3>1, <3>2, <3>3
    <2>2. Since(k, t) = {}
      BY <2>1
    <2>3. m = 0
      BY <1>5, <2>2, FS_EmptySet, BoundsAssumption
    <2>4. m + x <= w + y
      BY <1>4, <2>3
    <2>5. QED BY <1>1, <1>4, <1>5, <1>6, <1>7, <2>4
  <1>9. CASE rpm[k] # <<>> /\ t <= rpm[k][1].last
    <2>1. PICK last \in Int, v \in Int :
             last = rpm[k][1].last /\ v = rpm[k][1].tokens /\ rpm[k][1].rate = u
      BY <1>3, <1>6, <1>9, KeyTyped
    <2>2. PICK p \in Int, q \in Int : p = (last - t) * u /\ q = (at[c] - last) * u
      BY <1>2, <2>1
    <2>3. m + v <= w + p
      BY <1>1, <1>4, <1>5, <1>9, <2>1, <2>2 DEF Paid, PaidAt
    <2>4. x <= v + q
      BY <1>3, <1>4, <1>9, <2>1, <2>2
    <2>5. p + q = y
      <3>1. PICK a \in Int, b \in Int : a = last - t /\ b = at[c] - last
        BY <1>2, <2>1
      <3>2. a * u + b * u = (a + b) * u
        OBVIOUS
      <3>3. a + b = at[c] - t
        BY <1>2, <2>1, <3>1
      <3>4. QED BY <1>7, <2>2, <3>1, <3>2, <3>3
    <2>6. m + x <= w + y
      BY <2>3, <2>4, <2>5
    <2>7. QED BY <1>1, <1>4, <1>5, <1>6, <1>7, <2>6
  <1>10. QED BY <1>8, <1>9

\* A step that leaves a key's bucket and its calls leaves what they paid.
LEMMA PaidSame ==
    ASSUME NEW k \in Keys, Paid, limits'[k] = limits[k], rpm'[k] = rpm[k], upset'[k] = upset[k],
           \A d \in Calls : KeyOf[d] = k => admitted'[d] = admitted[d]
    PROVE  MovedAt(k)' /\ PaidAt(k)'
  <1>1. \A t : Since(k, t)' = Since(k, t)
    BY DEF Since
  <1>2. MovedAt(k)'
    BY DEF Paid, MovedAt
  <1>3. PaidAt(k)'
    BY <1>1 DEF Paid, PaidAt
  <1>4. QED BY <1>2, <1>3


\* A check that makes no bucket move keeps what its key's calls paid.
LEMMA UnmovedPaid ==
    ASSUME TypeOK, Past, Known, Paid, NEW c \in Calls, Check(c), UNCHANGED <<rpm, upset, limits>>,
           \/ admitted' = admitted
           \/ lim[c].rpm = 0 /\ admitted' = [admitted EXCEPT ![c] = at[c]],
           NEW k \in Keys, k = KeyOf[c]
    PROVE  MovedAt(k)' /\ PaidAt(k)'
  <1>1. CASE admitted' = admitted
    BY <1>1, PaidSame
  <1>2. CASE limits[k].rpm = 0
    BY <1>2 DEF MovedAt, PaidAt
  <1>3. CASE /\ lim[c].rpm = 0 /\ admitted' = [admitted EXCEPT ![c] = at[c]]
             /\ limits[k].rpm # 0
    <2>1. pc[c] = "rate" /\ admitted \in [Calls -> Nat \cup {Never}]
      BY CheckLooks DEF TypeOK
    <2>2. admitted[c] = Never /\ at[c] <= upset[k] /\ at[c] \in Nat /\ upset[k] \in Int
      <3>1. lim[c] # limits[KeyOf[c]]
        BY <1>3
      <3>2. QED BY <2>1, <3>1, CallTyped, KeyTyped DEF Past, Known
    <2>3. MovedAt(k)'
      <3>1. ASSUME NEW d \in Calls, KeyOf[d] = k, admitted'[d] # Never
            PROVE  \/ admitted'[d] <= upset[k]
                   \/ rpm[k] # <<>> /\ admitted'[d] <= rpm[k][1].last
        <4>1. CASE d = c
          BY <1>3, <2>1, <2>2, <4>1
        <4>2. CASE d # c
          <5>1. admitted'[d] = admitted[d]
            BY <1>3, <2>1, <4>2
          <5>2. QED BY <1>3, <3>1, <5>1 DEF Paid, MovedAt
        <4>3. QED BY <4>1, <4>2
      <3>2. QED BY <3>1 DEF MovedAt
    <2>4. ASSUME NEW t \in Nat, upset[k] < t PROVE Since(k, t)' = Since(k, t)
      <3>1. admitted'[c] = at[c] /\ ~(at[c] >= t)
        BY <1>3, <2>1, <2>2, <2>4
      <3>2. \A d \in Calls : d # c => admitted'[d] = admitted[d]
        BY <1>3, <2>1
      <3>3. QED BY <2>2, <3>1, <3>2 DEF Since
    <2>5. PaidAt(k)'
      BY <2>4 DEF Paid, PaidAt
    <2>6. QED BY <2>3, <2>5
  <1>4. QED BY <1>1, <1>2, <1>3

\* A check that looks at its key's bucket keeps what the calls paid.
LEMMA LookedPaid ==
    ASSUME TypeOK, Past, Known, Paid, NEW c \in Calls, Check(c), UNCHANGED <<limits, clock>>,
           Looks(c, Looked(c)), NEW k \in Keys, k = KeyOf[c]
    PROVE  MovedAt(k)' /\ PaidAt(k)'
  <1>1. /\ at[c] \in Nat /\ clock \in Nat /\ upset[k] \in Int /\ at[c] <= clock
        /\ \A d \in Calls : admitted[d] \in Int /\ admitted[d] <= clock
        /\ admitted \in [Calls -> Nat \cup {Never}] /\ rpm \in [Keys -> Seq(Bucket)]
        /\ upset \in [Keys -> Nat \cup {Never}]
        /\ rpm[k] # <<>> => rpm[k][1].last \in Int
    BY CallTyped, KeyTyped DEF Past, TypeOK
  <1>2. admitted[c] = Never
    BY CheckLooks DEF Past
  <1>3. PICK r \in Bucket : r = Looked(c) /\ r.last = at[c]
    BY CallTyped, KeyTyped, LookedAt DEF Looked
  <1>4. PICK b \in Bucket :
           /\ rpm' = [rpm EXCEPT ![k] = <<b>>]
           /\ b.cap = r.cap /\ b.rate = r.rate /\ b.last = at[c]
           /\ \/ /\ r.tokens >= Window /\ b.tokens = r.tokens - Window
                 /\ admitted' = [admitted EXCEPT ![c] = at[c]]
              \/ /\ r.tokens < Window /\ b.tokens = r.tokens
                 /\ admitted' = admitted
    BY <1>3, LooksLeave
  <1>5. rpm'[k] = <<b>> /\ rpm'[k] # <<>> /\ rpm'[k][1] = b
    BY <1>1, <1>4
  <1>6. \A d \in Calls : \/ admitted'[d] = admitted[d]
                         \/ d = c /\ admitted'[d] = at[c]
    BY <1>1, <1>4
  <1>7. CASE rpm[k] # <<>> /\ at[c] < rpm[k][1].last
    <2>1. upset'[k] = clock
      BY <1>1, <1>7 DEF Looks, Upsets
    <2>2. \A d \in Calls : admitted'[d] <= clock
      BY <1>1, <1>6
    <2>3. MovedAt(k)'
      BY <2>1, <2>2 DEF MovedAt
    <2>4. PaidAt(k)'
      <3>1. \A t \in Nat : ~(clock < t /\ t <= b.last)
        BY <1>1, <1>4
      <3>2. QED BY <1>5, <2>1, <3>1 DEF PaidAt
    <2>5. QED BY <2>3, <2>4
  <1>8. CASE ~(rpm[k] # <<>> /\ at[c] < rpm[k][1].last)
    <2>1. upset' = upset
      BY <1>8 DEF Looks, Upsets
    <2>2. MovedAt(k)'
      <3>1. ASSUME NEW d \in Calls, KeyOf[d] = k, admitted'[d] # Never
            PROVE  limits[k].rpm = 0 \/ admitted'[d] <= upset[k] \/ admitted'[d] <= b.last
        <4>1. CASE d = c /\ admitted'[d] = at[c]
          BY <1>1, <1>4, <4>1
        <4>2. CASE admitted'[d] = admitted[d]
          <5>1. \/ limits[k].rpm = 0
                \/ admitted[d] <= upset[k]
                \/ rpm[k] # <<>> /\ admitted[d] <= rpm[k][1].last
            BY <3>1, <4>2 DEF Paid, MovedAt
          <5>2. QED BY <1>1, <1>4, <1>8, <4>2, <5>1
        <4>3. QED BY <1>6, <4>1, <4>2
      <3>2. QED BY <1>5, <2>1, <3>1 DEF MovedAt
    <2>3. ASSUME limits[k].rpm > 0, NEW t \in Nat, upset[k] < t, t <= at[c]
          PROVE  Cardinality(Since(k, t)') * Window + b.tokens
                    <= limits[k].rpm * Window + (at[c] - t) * b.rate
      <3>1. lim[c] = limits[k]
        <4>1. pc[c] = "rate"
          BY CheckLooks
        <4>2. ~(at[c] <= upset[k])
          BY <1>1, <2>3
        <4>3. QED BY <4>1, <4>2 DEF Known
      <3>2. Cardinality(Since(k, t)) * Window + r.tokens
               <= limits[k].rpm * Window + (at[c] - t) * r.rate
        <4>1. rpm[k] # <<>> => rpm[k][1].last <= at[c]
          BY <1>1, <1>8
        <4>2. QED BY <1>3, <2>3, <3>1, <4>1, PaidWhenLooked
      <3>3. PICK z \in Int : z = limits[k].rpm * Window + (at[c] - t) * b.rate
        <4>1. PICK w \in Int : w = limits[k].rpm * Window
          BY KeyTyped, BoundsAssumption
        <4>2. PICK u \in Int, v \in Int : u = at[c] - t /\ v = b.rate
          BY <1>1 DEF Bucket
        <4>3. u * v \in Int
          OBVIOUS
        <4>4. QED BY <4>1, <4>2, <4>3
      <3>4. PICK m \in Nat, x \in Int : m = Cardinality(Since(k, t)) /\ x = r.tokens
        BY SinceFinite DEF Bucket
      <3>5. m * Window + x <= z
        BY <1>4, <3>2, <3>3, <3>4
      <3>6. CASE /\ b.tokens = r.tokens - Window
                 /\ admitted' = [admitted EXCEPT ![c] = at[c]]
        <4>1. Since(k, t)' = Since(k, t) \cup {c} /\ c \notin Since(k, t)
          <5>1. admitted'[c] = at[c] /\ at[c] # Never /\ at[c] >= t
            BY <1>1, <2>3, <3>6 DEF Never
          <5>2. \A d \in Calls : d # c => admitted'[d] = admitted[d]
            BY <1>1, <3>6
          <5>3. QED BY <1>2, <5>1, <5>2 DEF Since
        <4>2. Cardinality(Since(k, t)') = m + 1
          BY <3>4, <4>1, SinceFinite, FS_AddElement
        <4>3. (m + 1) * Window + (x - Window) = m * Window + x
          BY BoundsAssumption
        <4>4. QED BY <3>3, <3>4, <3>5, <3>6, <4>2, <4>3
      <3>7. CASE b.tokens = r.tokens /\ admitted' = admitted
        <4>1. Since(k, t)' = Since(k, t)
          BY <3>7 DEF Since
        <4>2. QED BY <3>3, <3>4, <3>5, <3>7, <4>1
      <3>8. QED BY <1>4, <3>6, <3>7
    <2>4. PaidAt(k)'
      BY <1>4, <1>5, <2>1, <2>3 DEF PaidAt
    <2>5. QED BY <2>2, <2>4
  <1>9. QED BY <1>7, <1>8

\* Every step keeps Paid.
LEMMA PaidKept ==
    ASSUME TypeOK, Past, Known, Paid, [Next]_vars
    PROVE  Paid'
  <1>1. CASE UNCHANGED <<limits, rpm, admitted, upset>>
    <2>1. \A k \in Keys : MovedAt(k)' /\ PaidAt(k)'
      BY <1>1, PaidSame
    <2>2. QED BY <2>1 DEF Paid
  <1>2. ASSUME NEW c \in Calls, CheckTokens(c) \/ Finish(c) PROVE Paid'
    BY <1>1, <1>2, TokensPast
  <1>3. CASE Tick
    BY <1>1, <1>3 DEF Tick, storeVars, scopeVars, histVars
  <1>4. ASSUME NEW j \in Keys, SetLimits(j) PROVE Paid'
    <2>1. /\ UNCHANGED <<rpm, admitted>> /\ upset' = [upset EXCEPT ![j] = clock]
          /\ \A k \in Keys : k # j => limits'[k] = limits[k]
      BY <1>4 DEF SetLimits, scopeVars, TypeOK
    <2>2. ASSUME NEW k \in Keys PROVE MovedAt(k)' /\ PaidAt(k)'
      <3>1. CASE k # j
        <4>1. upset'[k] = upset[k]
          BY <2>1, <3>1 DEF TypeOK
        <4>2. QED BY <2>1, <3>1, <4>1, PaidSame
      <3>2. CASE k = j
        <4>1. upset'[k] = clock
          BY <2>1, <3>2 DEF TypeOK
        <4>2. MovedAt(k)'
          BY <2>1, <4>1 DEF MovedAt, Past
        <4>3. \A t \in Nat : ~(rpm[k] # <<>> /\ clock < t /\ t <= rpm[k][1].last)
          BY KeyTyped DEF Past
        <4>4. PaidAt(k)'
          BY <2>1, <4>1, <4>3 DEF PaidAt
        <4>5. QED BY <4>2, <4>4
      <3>3. QED BY <3>1, <3>2
    <2>3. QED BY <2>2 DEF Paid
  <1>5. ASSUME NEW c \in Calls, Check(c) PROVE Paid'
    <2>1. PICK k \in Keys : k = KeyOf[c]
      BY CallTyped
    <2>2. UNCHANGED <<limits, clock>>
      BY <1>5, CheckLooks
    <2>3. MovedAt(k)' /\ PaidAt(k)'
      BY <1>5, <2>1, <2>2, CheckLooks, UnmovedPaid, LookedPaid
    <2>4. ASSUME NEW j \in Keys, j # k PROVE MovedAt(j)' /\ PaidAt(j)'
      <3>1. rpm'[j] = rpm[j] /\ upset'[j] = upset[j]
        <4>1. CASE UNCHANGED <<rpm, upset>>
          BY <4>1
        <4>2. CASE Looks(c, Looked(c))
          BY <2>1, <2>4, <4>2 DEF Looks, Upsets, TypeOK
        <4>3. QED BY <1>5, <4>1, <4>2, CheckLooks
      <3>2. \A d \in Calls : d # c => admitted'[d] = admitted[d]
        BY <1>5, CheckLooks DEF Looks, TypeOK
      <3>3. \A d \in Calls : KeyOf[d] = j => admitted'[d] = admitted[d]
        BY <2>1, <2>4, <3>2
      <3>4. QED BY <2>2, <3>1, <3>3, PaidSame
    <2>5. QED BY <2>3, <2>4 DEF Paid
  <1>6. QED BY <1>1, <1>2, <1>3, <1>4, <1>5, OtherSteps

\* The initial states.
LEMMA BucketInit == Init => BucketInv
  <1> SUFFICES ASSUME Init PROVE BucketInv
    OBVIOUS
  <1>1. AdmissionInv
    BY InvInit
  <1>2. Past
    BY DEF Init, Past, Never
  <1>3. Known
    BY DEF Init, Known
  <1>4. Paid
    BY DEF Init, Paid, MovedAt, PaidAt
  <1>5. QED BY <1>1, <1>2, <1>3, <1>4 DEF BucketInv

\* What a key's bucket holds and has let pass is accounted for at every moment,
\* whoever looks at it late and whatever limits it is given.
THEOREM BucketInvHolds == Spec => []BucketInv
  <1>1. BucketInv /\ [Next]_vars => BucketInv'
    BY InvNext, PastKept, KnownKept, PaidKept DEF BucketInv, AdmissionInv
  <1>2. QED BY <1>1, BucketInit, PTL DEF Spec

\* Of the calls of a key, Limiter::check lets no more pass in a window than a full
\* bucket and the refill of the window, for every window and every limit, as long
\* as that limit stood over it and no call moved the bucket back.
THEOREM WindowBoundHolds == Spec => []WindowBound
  <1>1. ASSUME BucketInv PROVE WindowBound
    <2>1. TypeOK /\ Past /\ Paid
      BY <1>1 DEF BucketInv, AdmissionInv
    <2>2. ASSUME NEW k \in Keys, limits[k].rpm > 0, Undisturbed(k),
                 rpm[k] # <<>> => rpm[k][1].rate <= limits[k].rpm
          PROVE  Cardinality(LatelyAdmitted(k)) * Window <= limits[k].rpm * (2 * Window - 1)
      <3>1. PICK n \in Nat : n = limits[k].rpm
        BY <2>1, KeyTyped
      <3>2. /\ clock \in Nat /\ Window \in Nat \ {0} /\ upset[k] \in Int
            /\ upset[k] = Never \/ clock - upset[k] >= Window
            /\ \A d \in Calls : admitted[d] \in Int /\ (admitted[d] # Never => admitted[d] \in Nat)
        BY <2>1, <2>2, KeyTyped, CallTyped, BoundsAssumption DEF Undisturbed
      <3>3. PICK t \in Nat : /\ clock - t <= Window - 1 /\ upset[k] < t
                             /\ \A x \in Nat : clock - x < Window => x >= t
        <4>1. CASE clock - Window + 1 >= 0
          <5>1. PICK u \in Nat : u = clock - Window + 1
            BY <3>2, <4>1
          <5>2. clock - u <= Window - 1 /\ upset[k] < u
            BY <3>2, <5>1 DEF Never
          <5>3. \A x \in Nat : clock - x < Window => x >= u
            BY <3>2, <5>1
          <5>4. QED BY <5>2, <5>3
        <4>2. CASE ~(clock - Window + 1 >= 0)
          <5>1. clock - 0 <= Window - 1 /\ (\A x \in Nat : x >= 0) /\ upset[k] < 0
            BY <3>2, <4>2 DEF Never
          <5>2. QED BY <5>1
        <4>3. QED BY <4>1, <4>2
      <3>4. LatelyAdmitted(k) \in SUBSET Since(k, t)
        BY <3>2, <3>3 DEF LatelyAdmitted, Since
      <3>5. PICK a \in Nat : a = Cardinality(LatelyAdmitted(k))
        BY <3>4, SinceFinite, FS_Subset, FS_CardinalityType
      <3>6. PICK b \in Nat : b = Cardinality(Since(k, t)) /\ a <= b
        BY <3>4, <3>5, SinceFinite, FS_Subset
      <3>7. a * Window <= b * Window
        BY <3>2, <3>6, ProductGrows
      <3>8. n * Window + (Window - 1) * n = n * (2 * Window - 1)
        BY <3>2
      <3>9. PICK p \in Nat, q \in Nat, w \in Nat, z \in Nat :
               p = a * Window /\ q = b * Window /\ w = n * Window /\ z = (Window - 1) * n
        <4>1. Window - 1 \in Nat
          BY <3>2
        <4>2. QED BY <3>2, <4>1
      <3>10. q <= w + z
        <4>1. CASE rpm[k] = <<>> \/ ~(t <= rpm[k][1].last)
          <5>1. ASSUME NEW d \in Since(k, t) PROVE FALSE
            <6>1. d \in Calls /\ KeyOf[d] = k /\ admitted[d] # Never /\ admitted[d] >= t
              BY DEF Since
            <6>2. \/ admitted[d] <= upset[k]
                  \/ rpm[k] # <<>> /\ admitted[d] <= rpm[k][1].last
              BY <2>1, <2>2, <6>1 DEF Paid, MovedAt
            <6>3. admitted[d] \in Int /\ (rpm[k] # <<>> => rpm[k][1].last \in Int)
              BY <2>1, <3>2, <6>1, KeyTyped
            <6>4. QED BY <3>2, <3>3, <4>1, <6>1, <6>2, <6>3
          <5>2. Since(k, t) = {}
            BY <5>1
          <5>3. q = 0
            BY <3>2, <3>6, <3>9, <5>2, FS_EmptySet
          <5>4. QED BY <3>9, <5>3
        <4>2. CASE rpm[k] # <<>> /\ t <= rpm[k][1].last
          <5>1. PICK last \in Int, v \in Int, rate \in Nat :
                   last = rpm[k][1].last /\ v = rpm[k][1].tokens /\ rate = rpm[k][1].rate
            BY <2>1, <4>2, KeyTyped
          <5>2. v >= 0 /\ last <= clock /\ t <= last /\ rate <= n
            BY <2>1, <2>2, <3>1, <4>2, <5>1 DEF Past
          <5>3. PICK e \in Nat : e = last - t /\ e <= Window - 1
            BY <3>2, <3>3, <5>1, <5>2
          <5>4. PICK y \in Nat : y = e * rate
            OBVIOUS
          <5>5. q + v <= w + y
            BY <2>1, <2>2, <3>1, <3>3, <3>6, <3>9, <4>2, <5>1, <5>2, <5>3, <5>4 DEF Paid, PaidAt
          <5>6. y <= z
            <6>1. e * rate <= (Window - 1) * rate
              BY <3>2, <5>3, ProductGrows
            <6>2. PICK i \in Nat : i = Window - 1
              BY <3>2
            <6>3. rate * i <= n * i
              BY <5>2, ProductGrows
            <6>4. rate * i = i * rate /\ n * i = i * n
              OBVIOUS
            <6>5. QED BY <3>9, <5>4, <6>1, <6>2, <6>3, <6>4
          <5>7. QED BY <5>2, <5>5, <5>6
        <4>3. QED BY <4>1, <4>2
      <3>11. p <= w + z
        BY <3>7, <3>9, <3>10
      <3>12. QED BY <3>1, <3>5, <3>8, <3>9, <3>11
    <2>3. QED BY <2>2 DEF WindowBound
  <1>2. QED BY <1>1, BucketInvHolds, PTL

-----------------------------------------------------------------------------
(* The refinement of the buckets.                                          *)

\* A bucket that was made for a limit holds what is typed as one.
LEMMA MadeTyped ==
    ASSUME NEW q \in Seq(Bucket), Len(q) <= 1, NEW n \in Nat, Made(q, n)
    PROVE  q # <<>> => q[1] \in Bucket /\ n > 0 /\ q[1].cap = n /\ q[1].rate = n
  BY DEF Made

\* What a bucket of n tokens holds at a time.
LevelAt(q, n, t) == IF q = <<>> THEN n * Window ELSE Topped(q[1], t - q[1].last)

\* One tick later it holds one tick's refill more, or is full.
LEMMA LevelTick ==
    ASSUME NEW q \in Seq(Bucket), Len(q) <= 1, NEW n \in Nat, Made(q, n), NEW t \in Nat,
           q # <<>> => q[1].last <= t
    PROVE  LevelAt(q, n, t + 1) = Min({n * Window, LevelAt(q, n, t) + n})
  <1>1. PICK w \in Nat : w = n * Window
    BY BoundsAssumption
  <1>2. CASE q = <<>>
    <2>1. Min({w, w + n}) = w
      <3>1. PICK z \in Int : z = w + n /\ w <= z
        OBVIOUS
      <3>2. w \in Int
        OBVIOUS
      <3>3. QED BY <3>1, <3>2, MaxMinOfTwo
    <2>2. QED BY <1>1, <1>2, <2>1 DEF LevelAt
  <1>3. CASE q # <<>>
    <2>1. PICK b \in Bucket : b = q[1] /\ b.cap = n /\ b.rate = n
      BY <1>3, MadeTyped
    <2>2. PICK m \in Nat : m = t - b.last /\ m + 1 = (t + 1) - b.last
      BY <1>3, <2>1 DEF Bucket
    <2>3. PICK v \in Int, x \in Nat : v = b.tokens /\ x = m * n
      BY DEF Bucket
    <2>4. PICK m1 \in Nat : m1 = m + 1 /\ m1 * n = x + n
      <3>1. (m + 1) * n = m * n + n
        OBVIOUS
      <3>2. QED BY <2>3, <3>1
    <2>5. Topped(b, m) = (IF w <= v + x THEN w ELSE v + x)
      BY <1>1, <2>1, <2>3, ToppedIs
    <2>6. Topped(b, m1) = (IF w <= v + (x + n) THEN w ELSE v + (x + n))
      <3>1. PICK z \in Nat : z = m1 * n /\ z = x + n
        BY <2>4
      <3>2. Topped(b, m1) = IF w <= v + z THEN w ELSE v + z
        <4>1. b.cap * Window = w /\ b.tokens = v /\ m1 * b.rate = z
          BY <1>1, <2>1, <2>3, <3>1
        <4>2. QED BY <4>1, ToppedIs
      <3>3. QED BY <3>1, <3>2
    <2>7. PICK y \in Int : y = Topped(b, m)
      BY ToppedIs
    <2>8. Min({w, y + n}) = IF w <= y + n THEN w ELSE y + n
      <3>1. PICK z \in Int : z = y + n
        OBVIOUS
      <3>2. w \in Int
        OBVIOUS
      <3>3. QED BY <3>1, <3>2, MaxMinOfTwo
    <2>9. Topped(b, m1) = Min({w, y + n})
      BY <2>5, <2>6, <2>7, <2>8
    <2>10. QED BY <1>1, <1>3, <2>1, <2>2, <2>4, <2>7, <2>9 DEF LevelAt
  <1>4. QED BY <1>2, <1>3

\* A bucket with what it holds at a time is a whole number of parts.
LEMMA LevelTyped ==
    ASSUME NEW q \in Seq(Bucket), Len(q) <= 1, NEW n \in Nat, NEW t \in Nat,
           q # <<>> => q[1].last <= t
    PROVE  LevelAt(q, n, t) \in Int
  <1>1. CASE q = <<>>
    BY <1>1, BoundsAssumption DEF LevelAt
  <1>2. CASE q # <<>>
    <2>1. PICK b \in Bucket : b = q[1]
      BY <1>2
    <2>2. PICK d \in Nat : d = t - b.last
      BY <1>2, <2>1 DEF Bucket
    <2>3. QED BY <1>2, <2>1, <2>2, ToppedIs DEF LevelAt
  <1>3. QED BY <1>1, <1>2

\* A look at a bucket costs it less than a millisecond's refill.
LEMMA LookLoses ==
    ASSUME NEW q \in Seq(Bucket), Len(q) <= 1, NEW n \in Nat, Made(q, n), NEW t \in Nat,
           q # <<>> => q[1].last <= t
    PROVE  /\ LevelAt(q, n, t) - Refill(Existing(q, n, t), t).tokens \in 0..((Grain - 1) * n)
           /\ Refill(Existing(q, n, t), t).tokens \in Int
  <1>1. PICK g \in Nat : g = Grain - 1
    BY BoundsAssumption
  <1>2. PICK w \in Nat : w = n * Window
    BY BoundsAssumption
  <1>3. PICK e \in Bucket : e = Existing(q, n, t)
    BY BucketTyped
  <1> DEFINE r == Refill(e, t)
  <1>4. PICK m \in Nat : m = Elapsed(e, t)
    BY ElapsedIs
  <1>5. r.tokens = Topped(e, m)
    BY <1>3, <1>4, RefillIs
  <1>6. g * n \in Nat
    OBVIOUS
  <1>7. CASE q = <<>>
    <2>1. e.tokens = w /\ e.cap = n /\ e.rate = n
      BY <1>2, <1>3, <1>7 DEF Existing, NewBucket
    <2>2. PICK p \in Nat : p = m * n
      OBVIOUS
    <2>3. Topped(e, m) = w
      <3>1. Topped(e, m) = IF w <= w + p THEN w ELSE w + p
        BY <1>2, <2>1, <2>2, ToppedIs
      <3>2. QED BY <3>1
    <2>4. w - w = 0 /\ 0 \in 0..(g * n)
      BY <1>6
    <2>5. LevelAt(q, n, t) = w
      BY <1>2, <1>7 DEF LevelAt
    <2> HIDE DEF r
    <2>6. r.tokens = w
      BY <1>5, <2>3
    <2>7. LevelAt(q, n, t) - r.tokens \in 0..((Grain - 1) * n) /\ r.tokens \in Int
      BY <1>1, <2>4, <2>5, <2>6
    <2>8. QED BY <1>3, <2>7 DEF r
  <1>8. CASE q # <<>>
    <2>1. e = q[1] /\ e.rate = n /\ e.last <= t
      BY <1>3, <1>8, MadeTyped DEF Existing
    <2>2. PICK d \in Nat : d = t - e.last
      BY <2>1 DEF Bucket
    <2>3. m <= d /\ d <= m + g
      BY <1>1, <1>4, <2>1, <2>2, ElapsedIs
    <2>4. Topped(e, m) <= Topped(e, d) /\ Topped(e, d) <= Topped(e, m) + g * n
      BY <2>1, <2>3, ToppedGrows
    <2>5. PICK x \in Int, y \in Int : x = Topped(e, m) /\ y = Topped(e, d)
      BY ToppedIs
    <2>6. PICK u \in Nat : u = g * n
      BY <1>6
    <2>7. y - x \in 0..u
      BY <2>4, <2>5, <2>6
    <2>8. LevelAt(q, n, t) = y
      BY <1>8, <2>1, <2>2, <2>5 DEF LevelAt
    <2> HIDE DEF r
    <2>9. r.tokens = x
      BY <1>5, <2>5
    <2>10. LevelAt(q, n, t) - r.tokens \in 0..((Grain - 1) * n) /\ r.tokens \in Int
      BY <1>1, <2>6, <2>7, <2>8, <2>9
    <2>11. QED BY <1>3, <2>10 DEF r
  <1>9. QED BY <1>7, <1>8

\* Of a bucket that was looked at just now: what it holds is what is in it.
LEMMA LevelNow ==
    ASSUME NEW b \in Bucket, NEW n \in Nat, NEW t \in Nat, b.last = t, b.tokens <= b.cap * Window
    PROVE  LevelAt(<<b>>, n, t) = b.tokens
  <1>1. PICK v \in Int, w \in Nat : v = b.tokens /\ w = b.cap * Window
    BY ToppedIs
  <1>2. t - b.last = 0 /\ 0 * b.rate = 0
    BY DEF Bucket
  <1>3. Topped(b, 0) = v
    BY <1>1, <1>2, ToppedIs
  <1>4. QED BY <1>1, <1>2, <1>3 DEF LevelAt

\* A bucket made for a limit has that limit's capacity already.
LEMMA MadeExisting ==
    ASSUME NEW q \in Seq(Bucket), Len(q) <= 1, NEW n \in Nat, Made(q, n), NEW t \in Nat
    PROVE  [Existing(q, n, t) EXCEPT !.cap = n] = Existing(q, n, t)
  <1>1. PICK e \in Bucket : e = Existing(q, n, t)
    BY BucketTyped
  <1>2. e.cap = n
    <2>1. CASE q = <<>>
      BY <1>1, <2>1 DEF Existing, NewBucket
    <2>2. CASE q # <<>>
      BY <1>1, <2>2, MadeTyped DEF Existing
    <2>3. QED BY <2>1, <2>2
  <1>3. [e EXCEPT !.cap = n] = e
    BY <1>2 DEF Bucket
  <1>4. QED BY <1>1, <1>3

\* What a key's buckets hold, at the present time.
LEMMA LevelOfIs ==
    ASSUME NEW q, NEW n
    PROVE  LevelOf(q, n) = LevelAt(q, n, clock)
  BY DEF LevelOf, LevelAt

\* A step of a key that leaves its bucket of requests, the time and its calls.
LEMMA RateLeft ==
    ASSUME NEW k \in Keys, limits'[k] = limits[k], rpm'[k] = rpm[k], clock' = clock,
           {c \in CallsOf(k) : admitted'[c] # Never /\ limits[k].rpm > 0}
             = {c \in CallsOf(k) : admitted[c] # Never /\ limits[k].rpm > 0}
    PROVE  RateBucket(k)!Step
  <1>1. CallsOf(k)' = CallsOf(k)
    BY DEF CallsOf
  <1>2. LevelOf(rpm[k], limits[k].rpm)' = LevelOf(rpm[k], limits[k].rpm)
    BY DEF LevelOf, Topped
  <1>3. UNCHANGED RateBucket(k)!bucketVars
    BY <1>1, <1>2 DEF RateBucket!bucketVars
  <1>4. QED BY <1>3 DEF RateBucket!Step

\* Every timely step of a key is a step of its bucket of requests, or leaves it.
LEMMA RateBucketStep ==
    ASSUME TypeOK, Past, [Next]_vars, NEW k \in Keys, Timely(k), Made(rpm[k], limits[k].rpm)
    PROVE  RateBucket(k)!Step
  <1>1. /\ limits'[k] = limits[k] /\ CallsOf(k)' = CallsOf(k)
        /\ pc \in [Calls -> Places] /\ admitted \in [Calls -> Nat \cup {Never}]
        /\ rpm \in [Keys -> Seq(Bucket)] /\ clock \in Nat
    BY DEF Timely, CallsOf, TypeOK
  <1>2. PICK n \in Nat, q \in Seq(Bucket) : n = limits[k].rpm /\ q = rpm[k] /\ Len(q) <= 1
    BY KeyTyped
  <1>3. Made(q, n) /\ (q # <<>> => q[1].last <= clock)
    BY <1>2 DEF Past
  <1>4. CASE UNCHANGED <<clock, rpm, admitted>>
    BY <1>1, <1>4, RateLeft
  <1>5. ASSUME NEW c \in Calls, CheckTokens(c) \/ Finish(c) PROVE RateBucket(k)!Step
    BY <1>4, <1>5, TokensPast
  <1>6. ASSUME NEW j \in Keys, SetLimits(j) PROVE RateBucket(k)!Step
    BY <1>4, <1>6 DEF SetLimits, scopeVars
  <1>7. CASE Tick
    <2>1. clock' = clock + 1 /\ UNCHANGED <<rpm, admitted>>
      BY <1>7 DEF Tick, scopeVars, histVars
    <2>2. LevelAt(q, n, clock + 1) = Min({n * Window, LevelAt(q, n, clock) + n})
      BY <1>1, <1>2, <1>3, LevelTick
    <2>3. LevelOf(rpm[k], limits[k].rpm)' = LevelAt(q, n, clock + 1)
      BY <1>1, <1>2, <2>1 DEF LevelOf, LevelAt, Topped
    <2>4. LevelOf(rpm[k], limits[k].rpm) = LevelAt(q, n, clock)
      BY <1>2, LevelOfIs
    <2>5. \A S : RateBucket(k)!Min(S) = Min(S)
      BY Zenon DEF Min, RateBucket!Min
    <2>6. LevelOf(rpm[k], limits[k].rpm)'
            = RateBucket(k)!Min({limits[k].rpm * Window, LevelOf(rpm[k], limits[k].rpm) + limits[k].rpm})
      BY <1>2, <2>2, <2>3, <2>4, <2>5, Zenon
    <2>7. UNCHANGED {c \in CallsOf(k) : admitted[c] # Never /\ limits[k].rpm > 0}
      BY <1>1, <2>1
    <2>8. limits[k].rpm' = limits[k].rpm
      BY <1>1
    <2>9. RateBucket(k)!Tick
      BY <2>6, <2>7, <2>8, Zenon DEF RateBucket!Tick
    <2>10. QED BY <2>9 DEF RateBucket!Step, RateBucket!Next
  <1>8. ASSUME NEW c \in Calls, Check(c), KeyOf[c] # k PROVE RateBucket(k)!Step
    <2>1. clock' = clock
      BY <1>8, CheckLooks
    <2>2. rpm'[k] = rpm[k]
      BY <1>1, <1>8, CheckLooks DEF Looks
    <2>3. \A d \in CallsOf(k) : admitted'[d] = admitted[d]
      BY <1>1, <1>8, CheckLooks DEF Looks, CallsOf
    <2>4. QED BY <1>1, <2>1, <2>2, <2>3, RateLeft
  <1>9. ASSUME NEW c \in Calls, Check(c), KeyOf[c] = k PROVE RateBucket(k)!Step
    <2>1. /\ c \in CallsOf(k) /\ UNCHANGED <<limits, clock>> /\ lim[c] = limits[k]
          /\ at[c] = clock /\ admitted[c] = Never
      BY <1>9, CheckLooks DEF Timely, CallsOf, Past
    <2>2. CASE /\ UNCHANGED <<rpm, upset>>
               /\ \/ admitted' = admitted
                  \/ lim[c].rpm = 0 /\ admitted' = [admitted EXCEPT ![c] = at[c]]
      <3>1. {d \in CallsOf(k) : admitted'[d] # Never /\ limits[k].rpm > 0}
              = {d \in CallsOf(k) : admitted[d] # Never /\ limits[k].rpm > 0}
        <4>1. CASE admitted' = admitted
          BY <4>1
        <4>2. CASE limits[k].rpm = 0
          BY <4>2
        <4>3. QED BY <2>1, <2>2, <4>1, <4>2
      <3>2. QED BY <1>1, <2>1, <2>2, <3>1, RateLeft
    <2>3. CASE Looks(c, Looked(c))
      <3>1. Looked(c) = Refill(Existing(q, n, clock), clock)
        <4>1. Looked(c) = Refill([Existing(q, n, clock) EXCEPT !.cap = n], clock)
          BY <1>2, <1>9, <2>1 DEF Looked
        <4>2. QED BY <1>1, <1>2, <1>3, <4>1, MadeExisting
      <3>2. PICK r \in Bucket : r = Looked(c) /\ r.last = clock /\ r.cap = n /\ r.tokens <= n * Window
        <4>1. Looked(c) = Refill([Existing(q, n, clock) EXCEPT !.cap = n], clock)
          BY <1>2, <1>9, <2>1 DEF Looked
        <4>2. QED BY <1>1, <1>2, <4>1, LookedAt
      <3>3. PICK lost \in 0..((Grain - 1) * n) : r.tokens = LevelAt(q, n, clock) - lost
        <4>1. r = Refill(Existing(q, n, clock), clock)
          BY <3>1, <3>2
        <4>2. clock \in Nat /\ Len(q) <= 1 /\ Made(q, n) /\ (q # <<>> => q[1].last <= clock)
          BY <1>1, <1>2, <1>3
        <4>3. LevelAt(q, n, clock) - r.tokens \in 0..((Grain - 1) * n) /\ r.tokens \in Int
          BY <4>1, <4>2, LookLoses
        <4>4. PICK v \in Int : v = LevelAt(q, n, clock)
          BY <4>2, LevelTyped
        <4>5. PICK x \in Int : x = r.tokens
          BY <4>3
        <4>6. x = v - (v - x)
          OBVIOUS
        <4>7. QED BY <4>3, <4>4, <4>5, <4>6
      <3>4. PICK b \in Bucket :
               /\ rpm' = [rpm EXCEPT ![k] = <<b>>]
               /\ b.cap = n /\ b.last = clock
               /\ \/ /\ r.tokens >= Window /\ b.tokens = r.tokens - Window
                     /\ admitted' = [admitted EXCEPT ![c] = clock]
                  \/ /\ r.tokens < Window /\ b.tokens = r.tokens
                     /\ admitted' = admitted
        <4>1. Looks(c, r)
          BY <2>3, <3>2
        <4>2. PICK b \in Bucket :
                 /\ rpm' = [rpm EXCEPT ![KeyOf[c]] = <<b>>]
                 /\ b.cap = r.cap /\ b.last = r.last
                 /\ \/ /\ r.tokens >= Window /\ b.tokens = r.tokens - Window
                       /\ admitted' = [admitted EXCEPT ![c] = at[c]]
                    \/ /\ r.tokens < Window /\ b.tokens = r.tokens
                       /\ admitted' = admitted
          BY <4>1, LooksLeave
        <4>3. QED BY <1>9, <2>1, <3>2, <4>2
      <3>5. PICK v \in Int, x \in Int, w \in Nat : v = LevelAt(q, n, clock) /\ x = r.tokens
               /\ w = n * Window /\ x <= w
        <4>1. r.tokens \in Int /\ n * Window \in Nat
          BY BoundsAssumption DEF Bucket
        <4>2. LevelAt(q, n, clock) \in Int
          BY <1>1, <1>2, <1>3, LevelTyped
        <4>3. QED BY <3>2, <4>1, <4>2
      <3>6. LevelOf(rpm[k], limits[k].rpm) = v
        BY <1>2, <3>5, LevelOfIs
      <3>7. LevelOf(rpm[k], limits[k].rpm)' = b.tokens
        <4>1. b.tokens <= b.cap * Window
          BY <3>4, <3>5, BoundsAssumption
        <4>2. LevelAt(<<b>>, n, clock) = b.tokens
          BY <1>1, <3>4, <4>1, LevelNow
        <4>3. rpm'[k] = <<b>>
          BY <1>1, <3>4
        <4>4. QED BY <1>1, <1>2, <2>1, <4>2, <4>3 DEF LevelOf, LevelAt, Topped
      <3>8. x = v - lost /\ lost \in RateBucket(k)!Losses
        BY <1>2, <3>3, <3>5 DEF RateBucket!Losses
      <3>9. CASE /\ r.tokens >= Window /\ b.tokens = r.tokens - Window
                 /\ admitted' = [admitted EXCEPT ![c] = clock]
        <4>1. {d \in CallsOf(k) : admitted[d] # Never /\ limits[k].rpm > 0}'
                = {d \in CallsOf(k) : admitted[d] # Never /\ limits[k].rpm > 0} \cup {c}
          <5>1. limits[k].rpm > 0 /\ clock # Never
            BY <1>1, <2>1, <2>3 DEF Looks, Never
          <5>2. admitted'[c] = clock /\ \A d \in CallsOf(k) : d # c => admitted'[d] = admitted[d]
            BY <1>1, <3>9
          <5>3. QED BY <1>1, <2>1, <5>1, <5>2
        <4>2. c \notin {d \in CallsOf(k) : admitted[d] # Never /\ limits[k].rpm > 0}
          BY <2>1
        <4>3. LevelOf(rpm[k], limits[k].rpm)' = LevelOf(rpm[k], limits[k].rpm) - lost - 1 * Window
              /\ LevelOf(rpm[k], limits[k].rpm) - lost >= Window
          <5>1. lost \in Int /\ 1 * Window = Window /\ Window \in Int
            BY <3>3, BoundsAssumption
          <5>2. QED BY <3>5, <3>6, <3>7, <3>8, <3>9, <5>1
        <4>4. limits[k].rpm' = limits[k].rpm
          BY <1>1
        <4>5. RateBucket(k)!Pass(c)
          BY <3>8, <4>1, <4>2, <4>3, <4>4, Zenon DEF RateBucket!Pass
        <4>6. QED BY <2>1, <4>5 DEF RateBucket!Step, RateBucket!Next
      <3>10. CASE r.tokens < Window /\ b.tokens = r.tokens /\ admitted' = admitted
        <4>1. UNCHANGED {d \in CallsOf(k) : admitted[d] # Never /\ limits[k].rpm > 0}
          BY <1>1, <3>10
        <4>2. LevelOf(rpm[k], limits[k].rpm)' = LevelOf(rpm[k], limits[k].rpm) - lost
              /\ LevelOf(rpm[k], limits[k].rpm) - lost < Window
          BY <3>5, <3>6, <3>7, <3>8, <3>10
        <4>3. limits[k].rpm' = limits[k].rpm
          BY <1>1
        <4>4. RateBucket(k)!Refuse
          BY <3>8, <4>1, <4>2, <4>3, Zenon DEF RateBucket!Refuse
        <4>5. QED BY <4>4 DEF RateBucket!Step, RateBucket!Next
      <3>11. QED BY <3>4, <3>9, <3>10
    <2>4. QED BY <1>9, <2>2, <2>3, CheckLooks
  <1>10. QED BY <1>4, <1>5, <1>6, <1>7, <1>8, <1>9, OtherSteps

\* A step of a key that leaves its bucket of tokens, the time and its calls.
LEMMA TokensLeft ==
    ASSUME NEW k \in Keys, limits'[k] = limits[k], tpm'[k] = tpm[k], clock' = clock,
           {c \in CallsOf(k) : c \in metered' /\ limits[k].tpm > 0}
             = {c \in CallsOf(k) : c \in metered /\ limits[k].tpm > 0}
    PROVE  TokensBucket(k)!Step
  <1>1. CallsOf(k)' = CallsOf(k)
    BY DEF CallsOf
  <1>2. LevelOf(tpm[k], limits[k].tpm)' = LevelOf(tpm[k], limits[k].tpm)
    BY DEF LevelOf, Topped
  <1>3. UNCHANGED TokensBucket(k)!bucketVars
    BY <1>1, <1>2 DEF TokensBucket!bucketVars
  <1>4. QED BY <1>3 DEF TokensBucket!Step

\* A bucket of which m parts were taken.
Charged(r, m, b) == b.cap = r.cap /\ b.last = r.last /\ b.tokens = r.tokens - m

\* A look at a key's bucket of tokens, and what a charge then takes of it.
LEMMA TokensLook ==
    ASSUME TypeOK, Past, NEW k \in Keys, Made(tpm[k], limits[k].tpm), UNCHANGED clock,
           limits'[k] = limits[k], NEW m \in Nat,
           NEW r \in Bucket, r = Refill(Existing(tpm[k], limits[k].tpm, clock), clock),
           NEW b \in Bucket, Charged(r, m, b), tpm' = [tpm EXCEPT ![k] = <<b>>]
    PROVE  /\ LevelOf(tpm[k], limits[k].tpm) \in Int /\ r.tokens \in Int
           /\ LevelOf(tpm[k], limits[k].tpm) - r.tokens \in TokensBucket(k)!Losses
           /\ LevelOf(tpm[k], limits[k].tpm)' = b.tokens
  <1>0. b.cap = r.cap /\ b.last = r.last /\ b.tokens = r.tokens - m
    BY DEF Charged
  <1>1. clock \in Nat /\ tpm \in [Keys -> Seq(Bucket)]
    BY DEF TypeOK
  <1>2. PICK q \in Seq(Bucket), n \in Nat :
           q = tpm[k] /\ Len(q) <= 1 /\ (q # <<>> => q[1].last <= clock) /\ n = limits[k].tpm
    BY KeyTyped DEF Past
  <1>3. Made(q, n) /\ r = Refill(Existing(q, n, clock), clock)
    BY <1>2
  <1>4. LevelAt(q, n, clock) - r.tokens \in 0..((Grain - 1) * n)
    BY <1>1, <1>2, <1>3, LookLoses
  <1>5. r.last = clock /\ r.cap = n /\ r.tokens <= n * Window
    <2>1. r = Refill([Existing(q, n, clock) EXCEPT !.cap = n], clock)
      BY <1>1, <1>2, <1>3, MadeExisting
    <2>2. QED BY <1>1, <1>2, <2>1, LookedAt
  <1>6. PICK v \in Int, x \in Int, w \in Nat : v = LevelAt(q, n, clock) /\ x = r.tokens
           /\ w = n * Window /\ x <= w
    <2>1. r.tokens \in Int
      BY DEF Bucket
    <2>2. n * Window \in Nat
      BY BoundsAssumption
    <2>3. LevelAt(q, n, clock) \in Int
      BY <1>1, <1>2, <1>3, LevelTyped
    <2>4. QED BY <1>5, <2>1, <2>2, <2>3
  <1>7. LevelOf(tpm[k], limits[k].tpm) = v
    BY <1>2, <1>6, LevelOfIs
  <1>8. LevelOf(tpm[k], limits[k].tpm)' = b.tokens
    <2>1. b.tokens <= b.cap * Window
      BY <1>0, <1>5, <1>6
    <2>2. LevelAt(<<b>>, n, clock) = b.tokens
      BY <1>0, <1>1, <1>5, <2>1, LevelNow
    <2>3. tpm'[k] = <<b>>
      BY <1>1
    <2>4. QED BY <1>1, <1>2, <2>2, <2>3 DEF LevelOf, LevelAt, Topped
  <1>9. v - x \in TokensBucket(k)!Losses
    BY <1>2, <1>4, <1>6 DEF TokensBucket!Losses
  <1>10. QED BY <1>6, <1>7, <1>8, <1>9

\* Every timely step of a key is a step of its bucket of tokens, or leaves it.
LEMMA TokensBucketStep ==
    ASSUME TypeOK, Past, [Next]_vars, NEW k \in Keys, Timely(k), Made(tpm[k], limits[k].tpm)
    PROVE  TokensBucket(k)!Step
  <1>1. /\ limits'[k] = limits[k] /\ CallsOf(k)' = CallsOf(k)
        /\ pc \in [Calls -> Places]
        /\ tpm \in [Keys -> Seq(Bucket)] /\ clock \in Nat
    BY DEF Timely, CallsOf, TypeOK
  <1>2. PICK n \in Nat, q \in Seq(Bucket) : n = limits[k].tpm /\ q = tpm[k] /\ Len(q) <= 1
    BY KeyTyped
  <1>3. Made(q, n) /\ (q # <<>> => q[1].last <= clock)
    BY <1>2 DEF Past
  <1>4. CASE UNCHANGED <<clock, tpm, metered>>
    BY <1>1, <1>4, TokensLeft
  <1>5. ASSUME NEW c \in Calls, Check(c) PROVE TokensBucket(k)!Step
    BY <1>4, <1>5, CheckLooks
  <1>6. ASSUME NEW j \in Keys, SetLimits(j) PROVE TokensBucket(k)!Step
    BY <1>4, <1>6 DEF SetLimits, scopeVars
  <1>7. CASE Tick
    <2>1. clock' = clock + 1 /\ UNCHANGED <<tpm, metered>>
      BY <1>7 DEF Tick, scopeVars, histVars
    <2>2. LevelAt(q, n, clock + 1) = Min({n * Window, LevelAt(q, n, clock) + n})
      BY <1>1, <1>2, <1>3, LevelTick
    <2>3. LevelOf(tpm[k], limits[k].tpm)' = LevelAt(q, n, clock + 1)
      BY <1>1, <1>2, <2>1 DEF LevelOf, LevelAt, Topped
    <2>4. LevelOf(tpm[k], limits[k].tpm) = LevelAt(q, n, clock)
      BY <1>2, LevelOfIs
    <2>5. \A S : TokensBucket(k)!Min(S) = Min(S)
      BY Zenon DEF Min, TokensBucket!Min
    <2>6. LevelOf(tpm[k], limits[k].tpm)'
            = TokensBucket(k)!Min({limits[k].tpm * Window, LevelOf(tpm[k], limits[k].tpm) + limits[k].tpm})
      BY <1>2, <2>2, <2>3, <2>4, <2>5, Zenon
    <2>7. UNCHANGED {c \in CallsOf(k) : c \in metered /\ limits[k].tpm > 0}
      BY <1>1, <2>1
    <2>8. limits[k].tpm' = limits[k].tpm
      BY <1>1
    <2>9. TokensBucket(k)!Tick
      BY <2>6, <2>7, <2>8, Zenon DEF TokensBucket!Tick
    <2>10. QED BY <2>9 DEF TokensBucket!Step, TokensBucket!Next
  <1>8. ASSUME NEW c \in Calls, CheckTokens(c) \/ Finish(c), KeyOf[c] # k PROVE TokensBucket(k)!Step
    <2>1. clock' = clock
      BY <1>8, TokensPast
    <2>2. tpm'[k] = tpm[k]
      BY <1>1, <1>8 DEF CheckTokens, Finish, ChargeTokens
    <2>3. metered' = metered \/ metered' = metered \cup {c}
      BY <1>8 DEF CheckTokens, Finish, histVars
    <2>4. {d \in CallsOf(k) : d \in metered' /\ limits[k].tpm > 0}
            = {d \in CallsOf(k) : d \in metered /\ limits[k].tpm > 0}
      BY <1>8, <2>3 DEF CallsOf
    <2>5. QED BY <1>1, <2>1, <2>2, <2>4, TokensLeft
  <1>9. ASSUME NEW c \in Calls, CheckTokens(c), KeyOf[c] = k PROVE TokensBucket(k)!Step
    <2>1. /\ c \in CallsOf(k) /\ clock' = clock /\ lim[c] = limits[k]
          /\ at[c] = clock /\ c \notin metered /\ pc[c] = "tokens"
      <3>1. pc[c] = "tokens" /\ lim' = lim
        BY <1>9 DEF CheckTokens, callVars
      <3>2. pc'[c] # pc[c]
        BY <1>1, <1>9, <3>1 DEF CheckTokens, Returns, Goes
      <3>3. QED BY <1>9, <3>1, <3>2, TokensPast DEF Timely, CallsOf, Past
    <2>2. CASE n = 0
      <3>1. tpm' = tpm
        BY <1>2, <1>9, <2>1, <2>2 DEF CheckTokens
      <3>2. {d \in CallsOf(k) : d \in metered' /\ limits[k].tpm > 0}
              = {d \in CallsOf(k) : d \in metered /\ limits[k].tpm > 0}
        BY <1>2, <2>2
      <3>3. QED BY <1>1, <2>1, <3>1, <3>2, TokensLeft
    <2>3. CASE n # 0
      <3>1. PICK r \in Bucket : r = Refill(Existing(tpm[k], n, clock), clock)
        BY <1>1, <1>2, BucketTyped
      <3>2. /\ tpm' = [tpm EXCEPT ![k] = <<r>>]
            /\ \/ r.tokens < Window /\ metered' = metered
               \/ ~(r.tokens < Window) /\ metered' = metered \cup {c}
        BY <1>2, <1>9, <2>1, <2>3, <3>1 DEF CheckTokens
      <3>3. /\ r.tokens = r.tokens - 0 /\ r.tokens \in Int /\ 0 \in Nat
            /\ r.cap = r.cap /\ r.last = r.last
        BY DEF Bucket
      <3>4. PICK lost \in TokensBucket(k)!Losses :
               /\ LevelOf(tpm[k], limits[k].tpm) - lost = r.tokens
               /\ LevelOf(tpm[k], limits[k].tpm)' = LevelOf(tpm[k], limits[k].tpm) - lost
               /\ LevelOf(tpm[k], limits[k].tpm) - lost - 0 = LevelOf(tpm[k], limits[k].tpm) - lost
        <4>1. tpm' = [tpm EXCEPT ![k] = <<r>>]
          BY <3>2
        <4>2. UNCHANGED clock /\ limits'[k] = limits[k] /\ n = limits[k].tpm
          BY <1>1, <1>2, <2>1
        <4>3. /\ LevelOf(tpm[k], limits[k].tpm) \in Int /\ r.tokens \in Int
              /\ LevelOf(tpm[k], limits[k].tpm) - r.tokens \in TokensBucket(k)!Losses
              /\ LevelOf(tpm[k], limits[k].tpm)' = r.tokens
          <5>1. Charged(r, 0, r) /\ 0 \in Nat
            BY <3>3 DEF Charged
          <5>2. r = Refill(Existing(tpm[k], limits[k].tpm, clock), clock)
            BY <3>1, <4>2
          <5>3. QED BY <4>1, <4>2, <5>1, <5>2, TokensLook
        <4>4. PICK v \in Int, x \in Int : v = LevelOf(tpm[k], limits[k].tpm) /\ x = r.tokens
          BY <4>3
        <4>5. v - (v - x) = x /\ x - 0 = x
          OBVIOUS
        <4>6. QED BY <4>3, <4>4, <4>5
      <3>5. limits[k].tpm' = limits[k].tpm
        BY <1>1
      <3>6. CASE r.tokens < Window /\ metered' = metered
        <4>1. UNCHANGED {d \in CallsOf(k) : d \in metered /\ limits[k].tpm > 0}
          BY <1>1, <3>6
        <4>2. LevelOf(tpm[k], limits[k].tpm)' = LevelOf(tpm[k], limits[k].tpm) - lost
              /\ LevelOf(tpm[k], limits[k].tpm) - lost < Window
          BY <3>4, <3>6
        <4>3. TokensBucket(k)!Refuse
          BY <3>4, <3>5, <4>1, <4>2, Zenon DEF TokensBucket!Refuse
        <4>4. QED BY <4>3 DEF TokensBucket!Step, TokensBucket!Next
      <3>7. CASE ~(r.tokens < Window) /\ metered' = metered \cup {c}
        <4>1. {d \in CallsOf(k) : d \in metered /\ limits[k].tpm > 0}'
                = {d \in CallsOf(k) : d \in metered /\ limits[k].tpm > 0} \cup {c}
          BY <1>1, <1>2, <2>1, <2>3, <3>7
        <4>2. c \notin {d \in CallsOf(k) : d \in metered /\ limits[k].tpm > 0}
          BY <2>1
        <4>3. r.tokens >= Window
          BY <3>3, <3>7, BoundsAssumption
        <4>4. 0 * Window = 0
          BY BoundsAssumption
        <4>5. LevelOf(tpm[k], limits[k].tpm)' = LevelOf(tpm[k], limits[k].tpm) - lost - 0 * Window
              /\ LevelOf(tpm[k], limits[k].tpm) - lost >= Window
          BY <3>4, <4>3, <4>4
        <4>6. TokensBucket(k)!Pass(c)
          BY <3>4, <3>5, <4>1, <4>2, <4>5, Zenon DEF TokensBucket!Pass
        <4>7. QED BY <2>1, <4>6 DEF TokensBucket!Step, TokensBucket!Next
      <3>8. QED BY <3>2, <3>6, <3>7
    <2>4. QED BY <2>2, <2>3
  <1>10. ASSUME NEW c \in Calls, Finish(c), KeyOf[c] = k PROVE TokensBucket(k)!Step
    <2>1. /\ clock' = clock /\ lim[c] = limits[k] /\ metered' = metered
          /\ pc[c] \in {"running", "streaming", "dropped"}
      <3>1. pc[c] \in {"running", "streaming", "dropped"} /\ lim' = lim /\ metered' = metered
        BY <1>10, TokensPast DEF Finish, histVars
      <3>2. pc'[c] # pc[c]
        BY <1>1, <1>10, <3>1 DEF Finish, Goes
      <3>3. QED BY <1>10, <3>1, <3>2, TokensPast DEF Timely
    <2>2. PICK u \in Tokens : ChargeTokens(c, u)
      BY <1>10, <2>1 DEF Finish, Past
    <2>3. UNCHANGED {d \in CallsOf(k) : d \in metered /\ limits[k].tpm > 0}
      BY <1>1, <2>1
    <2>4. CASE tpm' = tpm
      <3>1. {d \in CallsOf(k) : d \in metered' /\ limits[k].tpm > 0}
              = {d \in CallsOf(k) : d \in metered /\ limits[k].tpm > 0}
        BY <2>1
      <3>2. QED BY <1>1, <2>1, <2>4, <3>1, TokensLeft
    <2>5. CASE tpm' # tpm
      <3>1. PICK e \in Bucket : e = Existing(tpm[k], n, clock)
        BY <1>1, <1>2, BucketTyped
      <3>2. PICK r \in Bucket : r = Refill(e, clock)
        BY <1>1, BucketTyped
      <3>3. [Existing(tpm[k], n, clock) EXCEPT !.cap = n] = e
        BY <1>1, <1>2, <1>3, <3>1, MadeExisting
      <3>4. u \in Nat /\ u * Window \in Nat
        BY BoundsAssumption
      <3>5. PICK x \in Int : x = r.tokens - u * Window
        BY <3>4 DEF Bucket
      <3>6. PICK b \in Bucket : /\ b = [r EXCEPT !.tokens = x]
                                /\ b.cap = r.cap /\ b.last = r.last /\ b.tokens = r.tokens - u * Window
        <4>1. PICK b : b = [r EXCEPT !.tokens = x]
          OBVIOUS
        <4>2. b \in Bucket /\ b.cap = r.cap /\ b.last = r.last /\ b.tokens = x
          BY <4>1 DEF Bucket
        <4>3. QED BY <3>5, <4>1, <4>2
      <3>7. tpm' = [tpm EXCEPT ![k] = <<b>>]
        BY <1>2, <1>10, <2>1, <2>2, <2>5, <3>2, <3>3, <3>5, <3>6 DEF ChargeTokens
      <3>8. r = Refill(Existing(tpm[k], n, clock), clock)
        BY <3>1, <3>2
      <3>9. PICK lost \in TokensBucket(k)!Losses :
               LevelOf(tpm[k], limits[k].tpm)' = LevelOf(tpm[k], limits[k].tpm) - lost - u * Window
        <4>1. PICK m \in Nat : m = u * Window
          BY <3>4
        <4>2. UNCHANGED clock /\ limits'[k] = limits[k] /\ n = limits[k].tpm
          BY <1>1, <1>2, <2>1
        <4>3. b.cap = r.cap /\ b.last = r.last /\ b.tokens = r.tokens - m
          BY <3>6, <4>1
        <4>4. /\ LevelOf(tpm[k], limits[k].tpm) \in Int /\ r.tokens \in Int
              /\ LevelOf(tpm[k], limits[k].tpm) - r.tokens \in TokensBucket(k)!Losses
              /\ LevelOf(tpm[k], limits[k].tpm)' = r.tokens - m
          <5>1. Charged(r, m, b)
            BY <4>3 DEF Charged
          <5>2. r = Refill(Existing(tpm[k], limits[k].tpm, clock), clock)
            BY <3>8, <4>2
          <5>3. LevelOf(tpm[k], limits[k].tpm)' = b.tokens
            BY <3>7, <4>2, <5>1, <5>2, TokensLook
          <5>4. /\ LevelOf(tpm[k], limits[k].tpm) \in Int /\ r.tokens \in Int
                /\ LevelOf(tpm[k], limits[k].tpm) - r.tokens \in TokensBucket(k)!Losses
            BY <3>7, <4>2, <5>1, <5>2, TokensLook
          <5>5. QED BY <4>3, <5>3, <5>4
        <4>5. PICK v \in Int, y \in Int : v = LevelOf(tpm[k], limits[k].tpm) /\ y = r.tokens
          BY <4>4
        <4>6. v - (v - y) - m = y - m
          OBVIOUS
        <4>7. QED BY <4>1, <4>4, <4>5, <4>6
      <3>10. limits[k].tpm' = limits[k].tpm
        BY <1>1
      <3>11. TokensBucket(k)!Charge(u)
        BY <2>3, <3>9, <3>10, Zenon DEF TokensBucket!Charge
      <3>12. QED BY <3>11 DEF TokensBucket!Step, TokensBucket!Next
    <2>6. QED BY <2>4, <2>5
  <1>11. QED BY <1>4, <1>5, <1>6, <1>7, <1>8, <1>9, <1>10, OtherSteps

\* The Limiter's buckets, refilled when they are looked at, implement buckets that
\* are refilled at every tick, the one of requests and the one of tokens of each
\* key, but for what a look costs, at every timely step.
THEOREM BucketsHold == Spec => ImplementsBuckets
  <1>1. ASSUME Init PROVE \A k \in Keys : RateBucket(k)!Init /\ TokensBucket(k)!Init
    <2>1. ASSUME NEW k \in Keys PROVE RateBucket(k)!Init /\ TokensBucket(k)!Init
      <3>1. limits[k].rpm \in Nat /\ limits[k].tpm \in Nat /\ rpm[k] = <<>> /\ tpm[k] = <<>>
        BY <1>1, SettingsAssumption DEF Init, Limits
      <3>2. /\ {c \in CallsOf(k) : admitted[c] # Never /\ limits[k].rpm > 0} = {}
            /\ {c \in CallsOf(k) : c \in metered /\ limits[k].tpm > 0} = {}
        BY <1>1 DEF Init, CallsOf
      <3>3. /\ LevelOf(rpm[k], limits[k].rpm) = limits[k].rpm * Window
            /\ LevelOf(tpm[k], limits[k].tpm) = limits[k].tpm * Window
        BY <3>1 DEF LevelOf
      <3>4. QED BY <3>1, <3>2, <3>3 DEF RateBucket!Init, TokensBucket!Init
    <2>2. QED BY <2>1
  <1>2. ASSUME BucketInv, [Next]_vars
        PROVE  \A k \in Keys : Timely(k) =>
                  /\ Made(rpm[k], limits[k].rpm) => RateBucket(k)!Step
                  /\ Made(tpm[k], limits[k].tpm) => TokensBucket(k)!Step
    BY <1>2, RateBucketStep, TokensBucketStep DEF BucketInv, AdmissionInv
  <1>3. QED BY <1>1, <1>2, BucketInvHolds, PTL DEF Spec, ImplementsBuckets

=============================================================================
