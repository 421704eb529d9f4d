--------------------------- MODULE RoutingProofs ---------------------------
(***************************************************************************)
(* Proofs about Routing, for every table, chain of fallbacks, set of       *)
(* policies and number of requests, and about Embeddings, the turn that    *)
(* walks through the candidates it is routed to: every vector of an answer *)
(* is of the input at its place, for any inputs, task types, chains of     *)
(* upstreams and number of inputs.                                         *)
(*                                                                         *)
(* RoutingInv is inductive. Beside the types it says: a request holds the  *)
(* merge of the grants it read until it is routed (Granting), which        *)
(* GrantDecides needs because the merge is made in one step and used in    *)
(* others; what it has collected is what survives in the models of the     *)
(* chain it has come to, each deployment once (Collecting); the loads lag  *)
(* the choices by the requests between reading them and adding to one      *)
(* (Owing), without which nothing bounds how far least busy can drift      *)
(* (Level); and of a model no request was kept from, the deployments       *)
(* before the pointer of round robin came first once more than those       *)
(* behind it (Rotating).                                                   *)
(*                                                                         *)
(* The provers have no induction: an order is shown to list a set by       *)
(* counting what comes before an element, and the first of several places  *)
(* is the least element of a finite set.                                   *)
(***************************************************************************)
EXTENDS Routing, Embeddings, FiniteSetTheorems, TLAPS

-----------------------------------------------------------------------------
(* Sequences of the elements of a set.                                     *)

\* A relation that orders a set: irreflexive, transitive and total.
Orders(before, S) ==
    /\ \A x \in S : <<x, x>> \notin before
    /\ \A x, y, z \in S : <<x, y>> \in before /\ <<y, z>> \in before => <<x, z>> \in before
    /\ \A x, y \in S : x = y \/ <<x, y>> \in before \/ <<y, x>> \in before

\* A sequence that lists a set, each element once.
Lists(s, S) ==
    /\ s \in [1 .. Cardinality(S) -> S]
    /\ \A k, l \in 1 .. Cardinality(S) : s[k] = s[l] => k = l
    /\ \A x \in S : \E k \in 1 .. Cardinality(S) : s[k] = x

\* The elements before x.
Below(x, S, before) == {y \in S : <<y, x>> \in before}

\* There are fewer before an earlier element than before a later one.
LEMMA BelowGrows ==
    ASSUME NEW S, IsFiniteSet(S), NEW before, Orders(before, S),
           NEW x \in S, NEW y \in S, <<x, y>> \in before
    PROVE  Cardinality(Below(x, S, before)) < Cardinality(Below(y, S, before))
  <1>1. Below(x, S, before) \subseteq Below(y, S, before)
    BY DEF Below, Orders
  <1>2. x \in Below(y, S, before) /\ x \notin Below(x, S, before)
    BY DEF Below, Orders
  <1>3. IsFiniteSet(Below(y, S, before)) /\ IsFiniteSet(Below(x, S, before))
    <2>1. Below(y, S, before) \in SUBSET S /\ Below(x, S, before) \in SUBSET S
      BY DEF Below
    <2> QED
      BY <2>1, FS_Subset
  <1>4. /\ Cardinality(Below(x, S, before)) <= Cardinality(Below(y, S, before))
        /\ Cardinality(Below(x, S, before)) # Cardinality(Below(y, S, before))
    BY <1>1, <1>2, <1>3, FS_Subset
  <1>5. /\ Cardinality(Below(x, S, before)) \in Nat
        /\ Cardinality(Below(y, S, before)) \in Nat
    BY <1>3, FS_CardinalityType
  <1> QED
    BY <1>4, <1>5

\* Two elements have different numbers of elements before them.
LEMMA BelowTellsApart ==
    ASSUME NEW S, IsFiniteSet(S), NEW before, Orders(before, S),
           NEW x \in S, NEW y \in S,
           Cardinality(Below(x, S, before)) = Cardinality(Below(y, S, before))
    PROVE  x = y
  <1>1. \A z \in S : Cardinality(Below(z, S, before)) \in Nat
    <2> TAKE z \in S
    <2>1. Below(z, S, before) \in SUBSET S
      BY DEF Below
    <2> QED
      BY <2>1, FS_Subset, FS_CardinalityType
  <1>2. CASE <<x, y>> \in before
    BY <1>1, <1>2, BelowGrows
  <1>3. CASE <<y, x>> \in before
    BY <1>1, <1>3, BelowGrows
  <1> QED
    BY <1>2, <1>3 DEF Orders

\* Some element has k - 1 elements before it, for every k up to their number.
LEMMA BelowIsAny ==
    ASSUME NEW S, IsFiniteSet(S), NEW before, Orders(before, S),
           NEW k \in 1 .. Cardinality(S)
    PROVE  \E x \in S : Cardinality(Below(x, S, before)) = k - 1
  <1> DEFINE n == Cardinality(S)
             f == [x \in S |-> Cardinality(Below(x, S, before)) + 1]
  <1>1. n \in Nat
    BY FS_CardinalityType
  <1>2. ASSUME NEW x \in S PROVE f[x] \in 1 .. n
    <2>1. Below(x, S, before) \in SUBSET (S \ {x})
      BY DEF Below, Orders
    <2>2. IsFiniteSet(S \ {x}) /\ Cardinality(S \ {x}) = n - 1
      BY FS_RemoveElement
    <2>3. /\ IsFiniteSet(Below(x, S, before))
          /\ Cardinality(Below(x, S, before)) <= Cardinality(S \ {x})
      BY <2>1, <2>2, FS_Subset
    <2>4. Cardinality(Below(x, S, before)) \in Nat
      BY <2>3, FS_CardinalityType
    <2> QED
      BY <1>1, <2>2, <2>3, <2>4
  <1>3. ASSUME NEW x \in S, NEW y \in S, f[x] = f[y] PROVE x = y
    <2>1. \A z \in S : Cardinality(Below(z, S, before)) \in Nat
      <3> TAKE z \in S
      <3>1. Below(z, S, before) \in SUBSET S
        BY DEF Below
      <3> QED
        BY <3>1, FS_Subset, FS_CardinalityType
    <2>2. Cardinality(Below(x, S, before)) = Cardinality(Below(y, S, before))
      BY <1>3, <2>1
    <2> QED
      BY <2>2, BelowTellsApart
  <1>4. f \in [S -> 1 .. n]
    BY <1>2
  <1>5. f \in Injection(S, 1 .. n)
    BY <1>3, <1>4 DEF Injection, IsInjective
  <1>6. IsFiniteSet(1 .. n) /\ Cardinality(1 .. n) = n
    BY <1>1, FS_Interval
  <1>7. f \in Surjection(S, 1 .. n)
    <2> HIDE DEF f
    <2> QED
      BY <1>5, <1>6, FS_Injection
  <1>8. PICK x \in S : f[x] = k
    <2> HIDE DEF f
    <2> QED
      BY <1>7 DEF Surjection
  <1>9. Below(x, S, before) \in SUBSET S
    BY DEF Below
  <1>10. Cardinality(Below(x, S, before)) \in Nat
    BY <1>9, FS_Subset, FS_CardinalityType
  <1> QED
    BY <1>8, <1>10

\* Nothing comes before the first element of an ordered set.
LEMMA LeastOf ==
    ASSUME NEW S, IsFiniteSet(S), S # {}, NEW before, Orders(before, S)
    PROVE  \E x \in S : \A y \in S : <<y, x>> \notin before
  <1>1. 1 \in 1 .. Cardinality(S)
    <2>1. Cardinality(S) \in Nat /\ Cardinality(S) # 0
      BY FS_CardinalityType, FS_EmptySet
    <2> QED
      BY <2>1
  <1>2. PICK x \in S : Cardinality(Below(x, S, before)) = 1 - 1
    BY <1>1, BelowIsAny
  <1>3. Below(x, S, before) = {}
    <2>1. Below(x, S, before) \in SUBSET S
      BY DEF Below
    <2>2. IsFiniteSet(Below(x, S, before))
      BY <2>1, FS_Subset
    <2> QED
      BY <1>2, <2>2, FS_EmptySet
  <1> QED
    BY <1>3 DEF Below

\* Ranked lists an ordered finite set.
LEMMA RankedLists ==
    ASSUME NEW S, IsFiniteSet(S), NEW before, Orders(before, S)
    PROVE  Lists(Ranked(S, before), S)
  <1> DEFINE n == Cardinality(S)
             s == Ranked(S, before)
  <1>0. n \in Nat
    BY FS_CardinalityType
  <1>1. s = [k \in 1 .. n |-> CHOOSE x \in S : Cardinality(Below(x, S, before)) = k - 1]
    BY DEF Ranked, Below
  <1>2. ASSUME NEW k \in 1 .. n
        PROVE  s[k] \in S /\ Cardinality(Below(s[k], S, before)) = k - 1
    <2>1. s[k] = CHOOSE x \in S : Cardinality(Below(x, S, before)) = k - 1
      BY <1>1
    <2>2. \E x \in S : Cardinality(Below(x, S, before)) = k - 1
      BY BelowIsAny
    <2> HIDE DEF s
    <2> QED
      BY <2>1, <2>2
  <1>3. s \in [1 .. n -> S]
    BY <1>1, <1>2
  <1>4. ASSUME NEW x \in S PROVE \E k \in 1 .. n : s[k] = x
    <2>1. Below(x, S, before) \in SUBSET (S \ {x})
      BY DEF Below, Orders
    <2>2. IsFiniteSet(S \ {x}) /\ Cardinality(S \ {x}) = n - 1
      BY FS_RemoveElement
    <2>3. /\ IsFiniteSet(Below(x, S, before))
          /\ Cardinality(Below(x, S, before)) <= n - 1
      BY <2>1, <2>2, FS_Subset
    <2>4. PICK k \in 1 .. n : Cardinality(Below(x, S, before)) = k - 1
      <3>1. Cardinality(Below(x, S, before)) \in Nat
        BY <2>3, FS_CardinalityType
      <3>2. Cardinality(Below(x, S, before)) + 1 \in 1 .. n
        BY <1>0, <2>3, <3>1
      <3> QED
        BY <3>1, <3>2
    <2>5. s[k] = x
      BY <1>2, <2>4, BelowTellsApart
    <2> QED
      BY <2>5
  <1>5. ASSUME NEW k \in 1 .. n, NEW l \in 1 .. n, s[k] = s[l] PROVE k = l
    <2>1. k - 1 = l - 1
      BY <1>2, <1>5
    <2> QED
      BY <1>0, <2>1
  <1> QED
    BY <1>3, <1>4, <1>5 DEF Lists


\* The numbers of a finite set in their order.
LEMMA AscendingLists ==
    ASSUME NEW S \in SUBSET Nat, IsFiniteSet(S)
    PROVE  Lists(Ascending(S), S)
  <1> DEFINE before == {x \in S \X S : x[1] < x[2]}
  <1>1. \A x, y \in S : <<x, y>> \in before <=> x < y
    OBVIOUS
  <1>2. \A x \in S : x \in Nat
    OBVIOUS
  <1>3. Orders(before, S)
    <2> HIDE DEF before
    <2> QED
      BY <1>1, <1>2 DEF Orders
  <1>4. Lists(Ranked(S, before), S)
    <2> HIDE DEF before
    <2> QED
      BY <1>3, RankedLists
  <1> QED
    BY <1>4 DEF Ascending

\* A list has the length of its set, and its elements are the set's.
LEMMA ListIs ==
    ASSUME NEW S, IsFiniteSet(S), NEW s, Lists(s, S)
    PROVE  /\ Len(s) = Cardinality(S) /\ DOMAIN s = 1 .. Cardinality(S)
           /\ ToSet(s) = S
           /\ s \in Seq(S)
  <1>1. Cardinality(S) \in Nat
    BY FS_CardinalityType
  <1>2. s \in Seq(S) /\ Len(s) = Cardinality(S) /\ DOMAIN s = 1 .. Cardinality(S)
    BY <1>1 DEF Lists
  <1> QED
    BY <1>2 DEF Lists, ToSet

\* Least busy: the positions in the order of their loads.
LEMMA SortedLists ==
    ASSUME NEW S \in SUBSET Nat, IsFiniteSet(S), NEW s, Lists(s, S),
           NEW loads, \A i \in S : loads[i] \in Nat
    PROVE  Lists(Sorted(s, loads), S)
  <1> DEFINE before == {x \in S \X S : LessBusy(loads, x[1], x[2])}
  <1>1. \A x, y \in S : <<x, y>> \in before <=> LessBusy(loads, x, y)
    OBVIOUS
  <1>2. \A x \in S : x \in Nat /\ loads[x] \in Nat
    OBVIOUS
  <1>3. Orders(before, S)
    <2> HIDE DEF before
    <2> QED
      BY <1>1, <1>2 DEF Orders, LessBusy
  <1>4. Lists(Ranked(S, before), S)
    <2> HIDE DEF before
    <2> QED
      BY <1>3, RankedLists
  <1>5. ToSet(s) = S
    BY ListIs
  <1> QED
    BY <1>4, <1>5 DEF Sorted

\* A sequence of distinct elements as long as the set lists it.
LEMMA ArrangementLists ==
    ASSUME NEW S, IsFiniteSet(S), NEW s \in SetToSeqs(S)
    PROVE  Lists(s, S)
  <1> DEFINE n == Cardinality(S)
  <1>1. n \in Nat
    BY FS_CardinalityType
  <1>2. s \in [1 .. n -> S] /\ \A i, j \in 1 .. n : i # j => s[i] # s[j]
    BY DEF SetToSeqs
  <1>3. IsFiniteSet(1 .. n) /\ Cardinality(1 .. n) = n
    BY <1>1, FS_Interval
  <1>4. s \in Injection(1 .. n, S)
    BY <1>2 DEF Injection, IsInjective
  <1>5. s \in Surjection(1 .. n, S)
    BY <1>3, <1>4, FS_Injection
  <1> QED
    BY <1>2, <1>5 DEF Lists, Surjection

\* Two numbers that leave the same rest, less than the divisor apart.
LEMMA SameRest ==
    ASSUME NEW n \in Nat, n > 0, NEW a \in Nat, NEW b \in Nat, a <= b, b - a < n,
           a % n = b % n
    PROVE  a = b
  <1>1. PICK q \in Nat, r \in 0 .. (n - 1) : a = q * n + r /\ r = a % n
    <2>1. a = n * (a \div n) + (a % n) /\ a \div n \in Nat /\ a % n \in 0 .. (n - 1)
      OBVIOUS
    <2>2. n * (a \div n) = (a \div n) * n
      BY <2>1
    <2> QED
      BY <2>1, <2>2
  <1>2. PICK u \in Nat : b = u * n + r
    <2>1. b = n * (b \div n) + (b % n) /\ b \div n \in Nat /\ b % n \in 0 .. (n - 1)
      OBVIOUS
    <2>2. n * (b \div n) = (b \div n) * n
      BY <2>1
    <2> QED
      BY <1>1, <2>1, <2>2
  <1>3. PICK x \in Nat, y \in Nat : x = q * n /\ y = u * n
    OBVIOUS
  <1>4. CASE u > q
    <2>1. PICK d \in Nat : u = q + d /\ d >= 1
      BY <1>4
    <2>2. u * n = q * n + d * n /\ d * n >= n
      BY <2>1
    <2>3. y >= x + n
      BY <1>3, <2>2
    <2> QED
      BY <1>1, <1>2, <1>3, <2>3
  <1>5. CASE u < q
    <2>1. PICK d \in Nat : q = u + d /\ d >= 1
      BY <1>5
    <2>2. q * n = u * n + d * n /\ d * n >= n
      BY <2>1
    <2>3. x >= y + n
      BY <1>3, <2>2
    <2> QED
      BY <1>1, <1>2, <1>3, <2>3
  <1>6. CASE u = q
    BY <1>1, <1>2, <1>6
  <1> QED
    BY <1>4, <1>5, <1>6

\* Round robin: the positions from another start.
LEMMA RotateLists ==
    ASSUME NEW S, IsFiniteSet(S), S # {}, NEW s, Lists(s, S), NEW k \in Nat
    PROVE  Lists(Rotate(s, k), S)
  <1> DEFINE n == Cardinality(S)
             t == Rotate(s, k)
  <1>1. n \in Nat /\ n > 0
    BY FS_CardinalityType, FS_EmptySet
  <1>2. Len(s) = n
    BY ListIs
  <1>3. t = [i \in 1 .. n |-> s[((i - 1 + k) % n) + 1]]
    BY <1>2 DEF Rotate
  <1>4. ASSUME NEW i \in 1 .. n PROVE ((i - 1 + k) % n) + 1 \in 1 .. n
    <2>1. i - 1 + k \in Nat
      BY <1>1
    <2>2. (i - 1 + k) % n \in 0 .. (n - 1)
      BY <1>1, <2>1
    <2> QED
      BY <1>1, <2>2
  <1>5. t \in [1 .. n -> S]
    <2>1. \A x \in 1 .. n : s[x] \in S
      BY DEF Lists
    <2>2. ASSUME NEW i \in 1 .. n PROVE s[((i - 1 + k) % n) + 1] \in S
      BY <1>4, <2>1, <2>2
    <2> QED
      BY <1>3, <2>2
  <1>6. ASSUME NEW i \in 1 .. n, NEW j \in 1 .. n, t[i] = t[j] PROVE i = j
    <2>1. s[((i - 1 + k) % n) + 1] = s[((j - 1 + k) % n) + 1]
      BY <1>3, <1>6
    <2>2. ((i - 1 + k) % n) + 1 = ((j - 1 + k) % n) + 1
      BY <1>4, <2>1 DEF Lists
    <2>3. PICK a \in Nat, b \in Nat : a = i - 1 + k /\ b = j - 1 + k
      BY <1>1
    <2>4. a % n \in Int /\ b % n \in Int
      BY <1>1
    <2>5. a % n = b % n
      BY <2>2, <2>3, <2>4
    <2>6. CASE a <= b
      <3>1. b - a < n
        BY <1>1, <2>3
      <3>2. a = b
        BY <1>1, <2>5, <2>6, <3>1, SameRest
      <3> QED
        BY <1>1, <2>3, <3>2
    <2>7. CASE b <= a
      <3>1. a - b < n
        BY <1>1, <2>3
      <3>2. a = b
        BY <1>1, <2>5, <2>7, <3>1, SameRest
      <3> QED
        BY <1>1, <2>3, <3>2
    <2> QED
      BY <2>6, <2>7
  <1>7. t \in SetToSeqs(S)
    BY <1>5, <1>6 DEF SetToSeqs
  <1> QED
    BY <1>7, ArrangementLists

\* The smallest of finitely many numbers.
LEMMA SmallestIn ==
    ASSUME NEW T \in SUBSET Nat, IsFiniteSet(T), T # {}
    PROVE  \E x \in T : \A y \in T : x <= y
  <1> DEFINE before == {x \in T \X T : x[1] < x[2]}
  <1>1. \A x, y \in T : <<x, y>> \in before <=> x < y
    OBVIOUS
  <1>2. \A x \in T : x \in Nat
    OBVIOUS
  <1> HIDE DEF before
  <1>3. Orders(before, T)
    BY <1>1, <1>2 DEF Orders
  <1>4. PICK x \in T : \A y \in T : <<y, x>> \notin before
    BY <1>3, LeastOf
  <1>5. ASSUME NEW y \in T PROVE x <= y
    <2>1. ~(y < x)
      BY <1>1, <1>4
    <2>2. x \in Nat /\ y \in Nat
      BY <1>2
    <2> QED
      BY <2>1, <2>2
  <1> QED
    BY <1>5

\* Least busy puts one with the least load first.
LEMMA SortedFirst ==
    ASSUME NEW S \in SUBSET Nat, IsFiniteSet(S), S # {}, NEW s, Lists(s, S),
           NEW loads, \A i \in S : loads[i] \in Nat
    PROVE  /\ Sorted(s, loads)[1] \in S
           /\ \A j \in S : loads[Sorted(s, loads)[1]] <= loads[j]
  <1> DEFINE before == {x \in S \X S : LessBusy(loads, x[1], x[2])}
             f == Sorted(s, loads)[1]
  <1>1. \A x, y \in S : <<x, y>> \in before <=> LessBusy(loads, x, y)
    OBVIOUS
  <1>2. \A x \in S : x \in Nat /\ loads[x] \in Nat
    OBVIOUS
  <1>3. 1 \in 1 .. Cardinality(S)
    <2>1. Cardinality(S) \in Nat /\ Cardinality(S) # 0
      BY FS_CardinalityType, FS_EmptySet
    <2> QED
      BY <2>1
  <1>4. f \in S
    <2>1. Lists(Sorted(s, loads), S)
      BY SortedLists
    <2> QED
      BY <1>3, <2>1 DEF Lists
  <1>5. Cardinality(Below(f, S, before)) = 1 - 1
    <2>1. ToSet(s) = S
      BY ListIs
    <2>2. f = CHOOSE x \in S : Cardinality(Below(x, S, before)) = 1 - 1
      BY <1>3, <2>1 DEF Sorted, Ranked, Below
    <2>3. Orders(before, S)
      <3> HIDE DEF before
      <3> QED
        BY <1>1, <1>2 DEF Orders, LessBusy
    <2> HIDE DEF before, f
    <2>4. \E x \in S : Cardinality(Below(x, S, before)) = 1 - 1
      BY <1>3, <2>3, BelowIsAny
    <2> QED
      BY <2>2, <2>4
  <1> HIDE DEF before, f
  <1>6. Below(f, S, before) = {}
    <2>1. Below(f, S, before) \in SUBSET S
      BY DEF Below
    <2>2. IsFiniteSet(Below(f, S, before))
      BY <2>1, FS_Subset
    <2> QED
      BY <1>5, <2>2, FS_EmptySet
  <1>7. ASSUME NEW j \in S PROVE loads[f] <= loads[j]
    <2>1. ~LessBusy(loads, j, f)
      BY <1>1, <1>4, <1>6 DEF Below
    <2>2. loads[j] \in Nat /\ loads[f] \in Nat
      BY <1>2, <1>4
    <2> QED
      BY <2>1, <2>2 DEF LessBusy
  <1> QED
    BY <1>4, <1>7 DEF f

\* The numbers up to k are k.
LEMMA UpTo == ASSUME NEW k \in Nat PROVE IsFiniteSet(1 .. k) /\ Cardinality(1 .. k) = k
  BY FS_Interval

-----------------------------------------------------------------------------
(* What is collected.                                                      *)

\* The positions of a name's deployments that the router's filters let through.
Surviving(t, n, access) == {i \in DOMAIN t[n] : Survives(access, t[n][i])}

\* A row of the table is a sequence.
LEMMA RowIs ==
    ASSUME NEW t \in Tables, NEW n \in Names
    PROVE  /\ Len(t[n]) \in Nat
           /\ DOMAIN t[n] = 1 .. Len(t[n])
           /\ IsFiniteSet(DOMAIN t[n])
           /\ DOMAIN t[n] \in SUBSET Nat
  <1>1. t[n] \in Seq(ToSet(t[n]))
    BY RoutingAssumption
  <1>2. Len(t[n]) \in Nat /\ DOMAIN t[n] = 1 .. Len(t[n])
    BY <1>1
  <1>3. PICK k \in Nat : k = Len(t[n])
    BY <1>2
  <1>4. IsFiniteSet(1 .. k)
    BY UpTo
  <1>5. 1 .. k \in SUBSET Nat
    OBVIOUS
  <1> QED
    BY <1>2, <1>3, <1>4, <1>5

\* The survivors of a name are listed.
LEMMA SurvivorsList ==
    ASSUME NEW t \in Tables, NEW n \in Names, NEW access
    PROVE  /\ Surviving(t, n, access) \in SUBSET Nat /\ IsFiniteSet(Surviving(t, n, access))
           /\ Surviving(t, n, access) \in SUBSET DOMAIN t[n]
           /\ Lists(Survivors(t, n, access), Surviving(t, n, access))
           /\ Survivors(t, n, access) # <<>> <=> Surviving(t, n, access) # {}
  <1>1. Surviving(t, n, access) \in SUBSET DOMAIN t[n]
    BY DEF Surviving
  <1>2. /\ Surviving(t, n, access) \in SUBSET Nat /\ IsFiniteSet(Surviving(t, n, access))
    BY <1>1, RowIs, FS_Subset
  <1>3. Survivors(t, n, access) = Ascending(Surviving(t, n, access))
    BY DEF Survivors, Surviving
  <1>4. Lists(Survivors(t, n, access), Surviving(t, n, access))
    BY <1>2, <1>3, AscendingLists
  <1>5. Survivors(t, n, access) # <<>> <=> Surviving(t, n, access) # {}
    <2>1. /\ Len(Survivors(t, n, access)) = Cardinality(Surviving(t, n, access))
          /\ Survivors(t, n, access) \in Seq(Surviving(t, n, access))
      BY <1>2, <1>4, ListIs
    <2>2. Survivors(t, n, access) = <<>> <=> Len(Survivors(t, n, access)) = 0
      BY <2>1
    <2>3. Surviving(t, n, access) = {} <=> Cardinality(Surviving(t, n, access)) = 0
      BY <1>2, FS_EmptySet
    <2> QED
      BY <2>1, <2>2, <2>3
  <1> QED
    BY <1>1, <1>2, <1>4, <1>5

\* A name every deployment of which survives: the survivors are all of them.
LEMMA WholeSurvives ==
    ASSUME NEW t \in Tables, NEW m \in Names, NEW access,
           Len(Survivors(t, m, access)) = Len(t[m])
    PROVE  /\ Surviving(t, m, access) = DOMAIN t[m]
           /\ Survivors(t, m, access) = Ascending(DOMAIN t[m])
  <1>1. /\ IsFiniteSet(Surviving(t, m, access))
        /\ Surviving(t, m, access) \in SUBSET DOMAIN t[m]
    BY SurvivorsList
  <1>2. Len(Survivors(t, m, access)) = Cardinality(Surviving(t, m, access))
    BY <1>1, SurvivorsList, ListIs
  <1>3. PICK k \in Nat : Len(t[m]) = k /\ DOMAIN t[m] = 1 .. k
    BY RowIs
  <1>4. IsFiniteSet(1 .. k) /\ Cardinality(1 .. k) = k
    BY UpTo
  <1>5. Surviving(t, m, access) = DOMAIN t[m]
    BY <1>1, <1>2, <1>3, <1>4, FS_Subset
  <1> QED
    BY <1>5 DEF Survivors, Surviving

\* A chain is a sequence of names.
LEMMA ChainIs ==
    ASSUME NEW n \in Names
    PROVE  /\ Chain(n) \in Seq(Names)
           /\ DOMAIN Chain(n) = 1 .. Len(Chain(n)) /\ Len(Chain(n)) \in Nat
           /\ \A p \in DOMAIN Chain(n) : Chain(n)[p] \in Names
  <1>1. <<n>> \in Seq(Names) /\ Fallbacks[n] \in Seq(Names)
    BY RoutingAssumption
  <1>2. Chain(n) \in Seq(Names)
    BY <1>1 DEF Chain
  <1> QED
    BY <1>2

\* What a strategy gives is a list of the survivors.
LEMMA OrderLists ==
    ASSUME TypeOK, NEW m \in Names, NEW t \in Tables, NEW S \in SUBSET (DOMAIN t[m]), S # {},
           NEW s, Lists(s, S), NEW gone \in BOOLEAN, ~gone => t = snap,
           NEW o \in order(s, m, gone)
    PROVE  Lists(o, S)
  <1>1. rr[m] \in Nat /\ Counts(load)
    BY DEF TypeOK
  <1>2. S \in SUBSET Nat /\ IsFiniteSet(S)
    BY RowIs, FS_Subset
  <1>3. ToSet(s) = S
    BY <1>2, ListIs
  <1>4. CASE gone \/ strategy = "simple"
    <2>1. o \in SetToSeqs(S)
      BY <1>3, <1>4 DEF order
    <2> QED
      BY <1>2, <2>1, ArrangementLists
  <1>5. CASE ~gone /\ strategy = "round_robin"
    <2>1. o = Rotate(s, rr[m])
      BY <1>5 DEF order
    <2>2. PICK k \in Nat : k = rr[m]
      BY <1>1
    <2> QED
      BY <1>2, <2>1, <2>2, RotateLists
  <1>6. CASE ~gone /\ strategy = "least_busy"
    <2>1. o = Sorted(s, load[m])
      BY <1>6 DEF order
    <2>2. \A i \in S : load[m][i] \in Nat
      BY <1>1, <1>6 DEF Counts
    <2> QED
      BY <1>2, <2>1, <2>2, SortedLists
  <1>7. strategy \in {"simple", "round_robin", "least_busy"}
    BY RoutingAssumption DEF TypeOK
  <1> QED
    BY <1>4, <1>5, <1>6, <1>7

\* A sequence without repetitions.
Distinct(c) == c \in Seq(ToSet(c)) /\ \A a, b \in DOMAIN c : c[a] = c[b] => a = b

\* The elements at some places, each once if they differ there.
LEMMA AtKeeps ==
    ASSUME NEW c, NEW n \in Nat, DOMAIN c = 1 .. n, NEW places \in SUBSET (1 .. n),
           \A k, l \in places : c[k] = c[l] => k = l
    PROVE  /\ Distinct(At(c, places))
           /\ ToSet(At(c, places)) = {c[k] : k \in places}
           /\ Len(At(c, places)) = Cardinality(places)
  <1> DEFINE s == Ascending(places)
             out == At(c, places)
             N == Cardinality(places)
  <1>1. places \in SUBSET Nat
    OBVIOUS
  <1>2. IsFiniteSet(places) /\ N \in Nat
    <2>1. IsFiniteSet(1 .. n)
      BY UpTo
    <2> QED
      BY <2>1, FS_Subset, FS_CardinalityType
  <1>3. Lists(s, places)
    BY <1>1, <1>2, AscendingLists
  <1>4. out = [k \in 1 .. N |-> c[s[k]]]
    BY DEF At
  <1>5. /\ \A k \in 1 .. N : s[k] \in places
        /\ \A k, l \in 1 .. N : s[k] = s[l] => k = l
        /\ \A i \in places : \E k \in 1 .. N : s[k] = i
    <2> HIDE DEF s
    <2> QED
      BY <1>3 DEF Lists
  <1> HIDE DEF s, N
  <1>6. DOMAIN out = 1 .. N /\ Len(out) = N /\ \A k \in 1 .. N : out[k] = c[s[k]]
    BY <1>2, <1>4
  <1>7. ToSet(out) = {c[k] : k \in places}
    <2> HIDE DEF out
    <2>1. ASSUME NEW d PROVE d \in ToSet(out) <=> \E k \in 1 .. N : d = c[s[k]]
      BY <1>6 DEF ToSet
    <2>2. ASSUME NEW d PROVE d \in ToSet(out) <=> \E k \in places : d = c[k]
      BY <1>5, <2>1
    <2> QED
      BY <2>2
  <1>8. out \in Seq(ToSet(out))
    <2>1. \A k \in 1 .. N : out[k] \in ToSet(out)
      BY <1>6 DEF ToSet
    <2>2. out = [k \in 1 .. N |-> out[k]]
      BY <1>4
    <2> HIDE DEF out
    <2> QED
      BY <1>2, <2>1, <2>2
  <1>9. ASSUME NEW a \in DOMAIN out, NEW b \in DOMAIN out, out[a] = out[b] PROVE a = b
    <2>1. a \in 1 .. N /\ b \in 1 .. N
      BY <1>6
    <2>2. c[s[a]] = c[s[b]] /\ s[a] \in places /\ s[b] \in places
      BY <1>5, <1>6, <1>9, <2>1
    <2>3. s[a] = s[b]
      BY <2>2
    <2> QED
      BY <1>5, <2>1, <2>3
  <1> QED
    BY <1>6, <1>7, <1>8, <1>9 DEF Distinct, N

\* A sequence without repetitions is as long as its set is large.
LEMMA DistinctLength ==
    ASSUME NEW c, Distinct(c)
    PROVE  Len(c) = Cardinality(ToSet(c))
  <1>1. PICK n \in Nat : n = Len(c) /\ DOMAIN c = 1 .. n /\ c \in [1 .. n -> ToSet(c)]
    BY DEF Distinct
  <1>2. \A d \in ToSet(c) : \E k \in 1 .. n : c[k] = d
    BY <1>1 DEF ToSet
  <1>3. c \in Surjection(1 .. n, ToSet(c)) /\ c \in Injection(1 .. n, ToSet(c))
    BY <1>1, <1>2 DEF Surjection, Injection, IsInjective, Distinct
  <1>4. IsFiniteSet(1 .. n) /\ Cardinality(1 .. n) = n
    BY UpTo
  <1> QED
    BY <1>1, <1>3, <1>4, FS_Surjection

\* Two sequences without repetitions that have nothing in common.
LEMMA DistinctConcat ==
    ASSUME NEW c, NEW e, Distinct(c), Distinct(e), ToSet(c) \cap ToSet(e) = {}
    PROVE  Distinct(c \o e) /\ ToSet(c \o e) = ToSet(c) \cup ToSet(e)
  <1> DEFINE S == ToSet(c) \cup ToSet(e)
             u == c \o e
  <1>1. PICK k \in Nat : k = Len(c) /\ DOMAIN c = 1 .. k
    BY DEF Distinct
  <1>2. PICK l \in Nat : l = Len(e) /\ DOMAIN e = 1 .. l
    BY DEF Distinct
  <1>3. c \in Seq(S) /\ e \in Seq(S)
    <2>1. \A a \in 1 .. k : c[a] \in S
      BY <1>1 DEF ToSet
    <2>2. \A a \in 1 .. l : e[a] \in S
      BY <1>2 DEF ToSet
    <2>3. c = [a \in 1 .. k |-> c[a]] /\ e = [a \in 1 .. l |-> e[a]]
      BY <1>1, <1>2 DEF Distinct
    <2> HIDE DEF S
    <2> QED
      BY <2>1, <2>2, <2>3
  <1>4. /\ u \in Seq(S) /\ Len(u) = k + l /\ DOMAIN u = 1 .. (k + l)
        /\ \A a \in 1 .. k : u[a] = c[a]
        /\ \A a \in 1 .. l : u[k + a] = e[a]
    <2> HIDE DEF S
    <2> QED
      BY <1>1, <1>2, <1>3
  <1> HIDE DEF u
  <1>5. ASSUME NEW a \in 1 .. (k + l)
        PROVE  \/ a \in 1 .. k /\ u[a] = c[a] /\ u[a] \in ToSet(c)
               \/ \E b \in 1 .. l : a = k + b /\ u[a] = e[b] /\ u[a] \in ToSet(e)
    <2>1. CASE a <= k
      BY <1>1, <1>4, <2>1 DEF ToSet
    <2>2. CASE a > k
      <3>1. PICK b \in 1 .. l : a = k + b
        <4>1. a - k \in 1 .. l /\ a = k + (a - k)
          BY <2>2
        <4> QED
          BY <4>1
      <3> QED
        BY <1>2, <1>4, <3>1 DEF ToSet
    <2> QED
      BY <2>1, <2>2
  <1>6. ToSet(u) = S
    <2>1. ASSUME NEW d \in ToSet(u) PROVE d \in S
      <3>1. PICK a \in 1 .. (k + l) : d = u[a]
        BY <1>4, <2>1 DEF ToSet
      <3> QED
        BY <1>5, <3>1
    <2>2. ASSUME NEW d \in ToSet(c) PROVE d \in ToSet(u)
      <3>1. PICK a \in 1 .. k : d = c[a]
        BY <1>1 DEF ToSet
      <3>2. a \in 1 .. (k + l) /\ u[a] = d
        BY <1>4, <3>1
      <3> QED
        BY <1>4, <3>2 DEF ToSet
    <2>3. ASSUME NEW d \in ToSet(e) PROVE d \in ToSet(u)
      <3>1. PICK a \in 1 .. l : d = e[a]
        BY <1>2 DEF ToSet
      <3>2. k + a \in 1 .. (k + l) /\ u[k + a] = d
        BY <1>4, <3>1
      <3> QED
        BY <1>4, <3>2 DEF ToSet
    <2> QED
      BY <2>1, <2>2, <2>3
  <1>7. ASSUME NEW a \in 1 .. (k + l), NEW b \in 1 .. (k + l), u[a] = u[b] PROVE a = b
    <2>1. CASE a \in 1 .. k /\ b \in 1 .. k
      <3>1. c[a] = c[b]
        BY <1>4, <1>7, <2>1
      <3> QED
        BY <1>1, <2>1, <3>1 DEF Distinct
    <2>2. CASE a \in 1 .. k /\ b \notin 1 .. k
      BY <1>5, <1>7, <2>2
    <2>3. CASE a \notin 1 .. k /\ b \in 1 .. k
      BY <1>5, <1>7, <2>3
    <2>4. CASE a \notin 1 .. k /\ b \notin 1 .. k
      <3>1. PICK x \in 1 .. l : a = k + x /\ u[a] = e[x]
        BY <1>5, <2>4
      <3>2. PICK y \in 1 .. l : b = k + y /\ u[b] = e[y]
        BY <1>5, <2>4
      <3>3. x = y
        BY <1>2, <1>7, <3>1, <3>2 DEF Distinct
      <3> QED
        BY <3>1, <3>2, <3>3
    <2> QED
      BY <2>1, <2>2, <2>3, <2>4
  <1>8. Distinct(u)
    BY <1>4, <1>6, <1>7 DEF Distinct
  <1> QED
    BY <1>6, <1>8 DEF u

\* collect adds what is new, each once.
LEMMA ExtendKeeps ==
    ASSUME NEW c, Distinct(c), NEW s, NEW n \in Nat, DOMAIN s = 1 .. n
    PROVE  Distinct(Extend(c, s)) /\ ToSet(Extend(c, s)) = ToSet(c) \cup ToSet(s)
  <1> DEFINE places == {k \in DOMAIN s : s[k] \notin ToSet(c)
                                            /\ \A l \in 1 .. (k - 1) : s[l] # s[k]}
             e == At(s, places)
  <1>1. Extend(c, s) = c \o e
    BY DEF Extend
  <1>2. places \in SUBSET (1 .. n)
    OBVIOUS
  <1>3. ASSUME NEW k \in places, NEW l \in places, s[k] = s[l] PROVE k = l
    <2>1. ~(k \in 1 .. (l - 1)) /\ ~(l \in 1 .. (k - 1))
      BY <1>3
    <2>2. k \in 1 .. n /\ l \in 1 .. n
      BY <1>2
    <2> QED
      BY <2>1, <2>2
  <1>4. ASSUME NEW k \in 1 .. n, s[k] \notin ToSet(c) PROVE \E l \in places : s[l] = s[k]
    <2> DEFINE T == {l \in 1 .. n : s[l] = s[k]}
    <2>1. T \in SUBSET (1 .. n) /\ T \in SUBSET Nat /\ T # {}
      OBVIOUS
    <2>2. IsFiniteSet(T)
      <3>1. IsFiniteSet(1 .. n)
        BY UpTo
      <3> HIDE DEF T
      <3> QED
        BY <2>1, <3>1, FS_Subset
    <2>3. PICK l \in T : \A j \in T : l <= j
      <3> HIDE DEF T
      <3> QED
        BY <2>1, <2>2, SmallestIn
    <2>4. ASSUME NEW j \in 1 .. (l - 1) PROVE s[j] # s[l]
      <3>1. j \in 1 .. n /\ ~(l <= j)
        BY <2>3
      <3> QED
        BY <2>3, <3>1
    <2> QED
      BY <1>4, <2>3, <2>4
  <1>5. ASSUME NEW k \in places PROVE k \in 1 .. n /\ s[k] \notin ToSet(c)
    OBVIOUS
  <1> HIDE DEF places
  <1>6. Distinct(e) /\ ToSet(e) = {s[k] : k \in places}
    BY <1>2, <1>3, AtKeeps
  <1> HIDE DEF e
  <1>7. ToSet(c) \cap ToSet(e) = {}
    BY <1>5, <1>6
  <1>8. Distinct(c \o e) /\ ToSet(c \o e) = ToSet(c) \cup ToSet(e)
    BY <1>6, <1>7, DistinctConcat
  <1>9. ToSet(c) \cup ToSet(e) = ToSet(c) \cup ToSet(s)
    BY <1>4, <1>5, <1>6 DEF ToSet
  <1> QED
    BY <1>1, <1>8, <1>9

\* What the gateway's own filter leaves of a list: what the policy permits of
\* it, each once.
LEMMA FilterKeeps ==
    ASSUME NEW c, Distinct(c), NEW access
    PROVE  /\ ToSet(filter_access(c, access)) = {d \in ToSet(c) : Permits(access, d)}
           /\ Len(filter_access(c, access)) = Cardinality(ToSet(filter_access(c, access)))
  <1> DEFINE kept == {i \in DOMAIN c : Permits(access, c[i])}
  <1>1. PICK n \in Nat : DOMAIN c = 1 .. n
    BY DEF Distinct
  <1>2. kept \in SUBSET (1 .. n) /\ \A k, l \in kept : c[k] = c[l] => k = l
    BY <1>1 DEF Distinct
  <1>3. filter_access(c, access) = At(c, kept)
    BY DEF filter_access
  <1>4. {c[k] : k \in kept} = {d \in ToSet(c) : Permits(access, d)}
    BY DEF ToSet
  <1> HIDE DEF kept
  <1>5. Distinct(At(c, kept)) /\ ToSet(At(c, kept)) = {c[k] : k \in kept}
    BY <1>1, <1>2, AtKeeps
  <1>6. Len(At(c, kept)) = Cardinality(ToSet(At(c, kept)))
    BY <1>5, DistinctLength
  <1> QED
    BY <1>3, <1>4, <1>5, <1>6

\* A merged policy permits what both permit, unless their lists are disjoint.
LEMMA MergePermits ==
    ASSUME NEW p, NEW q, ~Disjoint(p, q), NEW d
    PROVE  Permits(merge(p, q), d) <=> Permits(p, d) /\ Permits(q, d)
  <1>1. permits_model(merge(p, q), d.model)
           <=> permits_model(p, d.model) /\ permits_model(q, d.model)
    BY DEF Disjoint, merge, intersect_allow, permits_model, Lets
  <1>2. permits_provider(merge(p, q), d.provider)
           <=> permits_provider(p, d.provider) /\ permits_provider(q, d.provider)
    BY DEF Disjoint, merge, intersect_allow, permits_provider, Lets
  <1> QED
    BY <1>1, <1>2 DEF Permits

\* What a policy permits survives the router's filters.
LEMMA PermittedSurvives ==
    ASSUME NEW access, NEW d, Permits(access, d)
    PROVE  Survives(access, d)
  BY DEF Permits, Survives, permits_model, Lets


-----------------------------------------------------------------------------
(* Steps of a request.                                                     *)

\* A new table counts from zero.
LEMMA ZeroCounts ==
    ASSUME NEW t \in Tables
    PROVE  /\ DOMAIN Zero(t) = Names
           /\ \A m \in Names : Zero(t)[m] \in [DOMAIN t[m] -> Nat]
           /\ \A m \in Names : \A i \in DOMAIN t[m] : Zero(t)[m][i] = 0
  BY RowIs DEF Zero

\* The fields of a request.
LEMMA IdleIs ==
    /\ DOMAIN Idle = {"pc", "want", "key", "team", "access", "failed", "table", "gone",
                      "place", "candidates", "busy"}
    /\ Idle.pc = "idle" /\ Idle.gone = FALSE /\ Idle.place = 0
    /\ Idle.candidates = <<>> /\ Idle.busy = <<>>
  BY DEF Idle

\* A step is r's own, and leaves it what it asked for and read.
Own(r) == DOMAIN req' = Reqs /\ \A s \in Reqs \ {r} : req'[s] = req[s]
Keeps(r) ==
    /\ DOMAIN req'[r] = DOMAIN Idle
    /\ req'[r].want = req[r].want /\ req'[r].key = req[r].key /\ req'[r].team = req[r].team
    /\ req'[r].access = req[r].access /\ req'[r].failed = req[r].failed

\* Reading the grants.
LEMMA ReadGrantsIs ==
    ASSUME TypeOK, NEW r \in Reqs, ReadGrants(r)
    PROVE  /\ Own(r) /\ DOMAIN req'[r] = DOMAIN Idle
           /\ req[r].pc = "idle" /\ req'[r].pc = "route"
           /\ req'[r].want \in Names /\ req'[r].gone = FALSE
           /\ req'[r].place = 0 /\ req'[r].candidates = <<>>
           /\ req'[r].access = effective_access(req'[r].key, req'[r].team, req'[r].failed)
           /\ UNCHANGED <<strategy, stored, snap, rr, load, edits, firsts, whole>>
  <1>1. PICK n \in Names, k \in Policies, t \in Policies, failed \in BOOLEAN :
           req' = [req EXCEPT ![r] = [Idle EXCEPT
                     !.pc = "route", !.want = n, !.key = k, !.team = t, !.failed = failed,
                     !.access = effective_access(k, t, failed)]]
    BY DEF ReadGrants
  <1>2. /\ Own(r)
        /\ req'[r] = [Idle EXCEPT
                     !.pc = "route", !.want = n, !.key = k, !.team = t, !.failed = failed,
                     !.access = effective_access(k, t, failed)]
    BY <1>1 DEF TypeOK, Own
  <1>3. /\ DOMAIN req'[r] = DOMAIN Idle /\ req'[r].pc = "route" /\ req'[r].want = n
        /\ req'[r].place = 0 /\ req'[r].candidates = <<>>
        /\ req'[r].gone = FALSE /\ req'[r].key = k /\ req'[r].team = t
        /\ req'[r].failed = failed /\ req'[r].access = effective_access(k, t, failed)
    BY <1>2, IdleIs
  <1> QED
    BY <1>2, <1>3 DEF ReadGrants

\* Asking discovery.
LEMMA ListModelsIs ==
    ASSUME TypeOK, NEW r \in Reqs, ListModels(r)
    PROVE  /\ DOMAIN shown' = Reqs /\ \A s \in Reqs \ {r} : shown'[s] = shown[s]
           /\ req[r].pc = "idle" /\ req' = req
           /\ \E access : \E answered \in BOOLEAN :
                 shown'[r] = [names |-> listed_models(stored, access, answered),
                              access |-> access, table |-> stored, answered |-> answered]
           /\ begun' \in Nat
           /\ UNCHANGED <<strategy, stored, snap, rr, load, edits, firsts, whole>>
  <1>1. PICK k \in Policies, t \in Policies, failed \in BOOLEAN, answered \in BOOLEAN :
           shown' = [shown EXCEPT ![r] =
              [names |-> listed_models(stored, effective_access(k, t, failed), answered),
               access |-> effective_access(k, t, failed), table |-> stored,
               answered |-> answered]]
    BY DEF ListModels
  <1>2. begun' \in Nat
    BY DEF ListModels, TypeOK
  <1> QED
    BY <1>1, <1>2 DEF ListModels, TypeOK

\* Taking the table.
LEMMA ResolveIs ==
    ASSUME TypeOK, NEW r \in Reqs, Resolve(r)
    PROVE  /\ Own(r) /\ Keeps(r)
           /\ req[r].pc = "route" /\ req'[r].pc = "collect"
           /\ req'[r].table = snap /\ req'[r].gone = req[r].gone
           /\ req'[r].place = req[r].place /\ req'[r].candidates = req[r].candidates
           /\ UNCHANGED <<strategy, stored, snap, rr, load, begun, edits, firsts, whole>>
  <1>1. req' = [req EXCEPT ![r] = [req[r] EXCEPT !.pc = "collect", !.table = snap]]
    BY DEF Resolve, TypeOK
  <1>2. Own(r) /\ req'[r] = [req[r] EXCEPT !.pc = "collect", !.table = snap]
    BY <1>1 DEF TypeOK, Own
  <1>3. DOMAIN req[r] = {"pc", "want", "key", "team", "access", "failed", "table", "gone",
                         "place", "candidates", "busy"}
    BY IdleIs DEF TypeOK
  <1>4. /\ DOMAIN req'[r] = DOMAIN Idle
        /\ req'[r].want = req[r].want /\ req'[r].key = req[r].key
        /\ req'[r].team = req[r].team /\ req'[r].access = req[r].access
        /\ req'[r].failed = req[r].failed
    BY <1>2, <1>3, IdleIs
  <1>5. /\ req'[r].pc = "collect" /\ req'[r].table = snap /\ req'[r].gone = req[r].gone
        /\ req'[r].place = req[r].place /\ req'[r].candidates = req[r].candidates
    BY <1>2, <1>3
  <1> QED
    BY <1>2, <1>4, <1>5 DEF Resolve, Keeps

\* The model of the chain a request comes to.
Coming(r) == Chain(req[r].want)[req[r].place + 1]

\* Nothing of it survives.
Skips(r) ==
    /\ Survivors(req[r].table, Coming(r), req[r].access) = <<>>
    /\ req'[r].pc = "collect" /\ req'[r].candidates = req[r].candidates
    /\ UNCHANGED <<rr, firsts, whole>>

\* It is collected, in the order o.
Takes(r, o) ==
    /\ Survivors(req[r].table, Coming(r), req[r].access) # <<>>
    /\ o \in order(Survivors(req[r].table, Coming(r), req[r].access), Coming(r), req[r].gone)
    /\ req'[r].candidates
          = Extend(req[r].candidates, [k \in DOMAIN o |-> req[r].table[Coming(r)][o[k]]])
    /\ strategy = "least_busy" => req'[r].pc = "count" /\ req'[r].busy = <<Coming(r), o[1]>>
    /\ strategy # "least_busy" => req'[r].pc = "collect"
    /\ firsts' = IF req[r].gone \/ strategy = "simple" THEN firsts
                 ELSE [firsts EXCEPT ![Coming(r)][o[1]] = @ + 1]
    /\ rr' = IF req[r].gone \/ strategy # "round_robin" THEN rr
             ELSE [rr EXCEPT ![Coming(r)] = @ + 1]
    /\ whole' = IF req[r].gone \/ Len(Survivors(req[r].table, Coming(r), req[r].access))
                                     = Len(req[r].table[Coming(r)])
                THEN whole ELSE whole \ {Coming(r)}

\* Collecting a model.
LEMMA CollectIs ==
    ASSUME TypeOK, NEW r \in Reqs, Collect(r)
    PROVE  /\ Own(r) /\ Keeps(r)
           /\ req[r].pc = "collect" /\ req[r].want \in Names /\ Coming(r) \in Names
           /\ req[r].place \in Nat /\ req[r].place + 1 \in DOMAIN Chain(req[r].want)
           /\ req[r].table \in Tables /\ req[r].gone \in BOOLEAN
           /\ ~req[r].gone => req[r].table = snap
           /\ req'[r].table = req[r].table /\ req'[r].gone = req[r].gone
           /\ req'[r].place = req[r].place + 1
           /\ Skips(r) \/ \E o : Takes(r, o)
           /\ UNCHANGED <<strategy, stored, snap, load, shown, begun, edits>>
  <1>1. /\ req[r].pc = "collect" /\ req[r].want \in Names /\ req[r].table \in Tables
        /\ req[r].gone \in BOOLEAN /\ (~req[r].gone => req[r].table = snap)
        /\ req[r].place \in 0 .. Len(Chain(req[r].want))
        /\ req[r].place < Len(Chain(req[r].want))
        /\ UNCHANGED <<strategy, stored, snap, load, shown, begun, edits>>
    BY DEF Collect, TypeOK
  <1>2. /\ req[r].place \in Nat /\ req[r].place + 1 \in DOMAIN Chain(req[r].want)
        /\ Coming(r) \in Names
    BY <1>1, ChainIs DEF Coming
  <1>3. DOMAIN req[r] = {"pc", "want", "key", "team", "access", "failed", "table", "gone",
                         "place", "candidates", "busy"}
    BY IdleIs DEF TypeOK
  <1>4. CASE /\ Survivors(req[r].table, Coming(r), req[r].access) = <<>>
             /\ req' = [req EXCEPT ![r].place = @ + 1]
             /\ UNCHANGED <<rr, firsts, whole>>
    <2>1. Own(r) /\ req'[r] = [req[r] EXCEPT !.place = @ + 1]
      BY <1>4 DEF TypeOK, Own
    <2>2. /\ Keeps(r) /\ req'[r].pc = req[r].pc /\ req'[r].candidates = req[r].candidates
          /\ req'[r].table = req[r].table /\ req'[r].gone = req[r].gone
          /\ req'[r].place = req[r].place + 1
      BY <1>3, <2>1, IdleIs DEF Keeps
    <2> QED
      BY <1>1, <1>2, <1>4, <2>1, <2>2 DEF Skips
  <1>5. ASSUME Survivors(req[r].table, Coming(r), req[r].access) # <<>>,
               NEW o \in order(Survivors(req[r].table, Coming(r), req[r].access), Coming(r),
                               req[r].gone),
               NEW c, c = Extend(req[r].candidates,
                                 [k \in DOMAIN o |-> req[r].table[Coming(r)][o[k]]]),
               NEW p, p = IF strategy = "least_busy" THEN "count" ELSE "collect",
               NEW b, b = IF strategy = "least_busy" THEN <<Coming(r), o[1]>> ELSE <<>>,
               req' = [req EXCEPT ![r] = [req[r] EXCEPT !.place = @ + 1, !.candidates = c,
                                                        !.pc = p, !.busy = b]],
               firsts' = IF req[r].gone \/ strategy = "simple" THEN firsts
                         ELSE [firsts EXCEPT ![Coming(r)][o[1]] = @ + 1],
               rr' = IF req[r].gone \/ strategy # "round_robin" THEN rr
                     ELSE [rr EXCEPT ![Coming(r)] = @ + 1],
               whole' = IF req[r].gone
                           \/ Len(Survivors(req[r].table, Coming(r), req[r].access))
                                 = Len(req[r].table[Coming(r)])
                        THEN whole ELSE whole \ {Coming(r)}
        PROVE  /\ Own(r) /\ Keeps(r) /\ Takes(r, o)
               /\ req'[r].table = req[r].table /\ req'[r].gone = req[r].gone
               /\ req'[r].place = req[r].place + 1
    <2>1. /\ Own(r)
          /\ req'[r] = [req[r] EXCEPT !.place = @ + 1, !.candidates = c, !.pc = p, !.busy = b]
      BY <1>5 DEF TypeOK, Own
    <2>2. /\ Keeps(r) /\ req'[r].pc = p /\ req'[r].candidates = c /\ req'[r].busy = b
          /\ req'[r].table = req[r].table /\ req'[r].gone = req[r].gone
          /\ req'[r].place = req[r].place + 1
      BY <1>3, <2>1, IdleIs DEF Keeps
    <2>3. Takes(r, o)
      BY <1>5, <2>2 DEF Takes
    <2> QED
      BY <2>1, <2>2, <2>3
  <1>6. CASE /\ Survivors(req[r].table, Coming(r), req[r].access) # <<>>
             /\ ~(/\ Survivors(req[r].table, Coming(r), req[r].access) = <<>>
                  /\ req' = [req EXCEPT ![r].place = @ + 1]
                  /\ UNCHANGED <<rr, firsts, whole>>)
    <2>1. PICK o \in order(Survivors(req[r].table, Coming(r), req[r].access), Coming(r),
                           req[r].gone) :
             /\ req' = [req EXCEPT
                    ![r].place = @ + 1,
                    ![r].candidates = Extend(@, [k \in DOMAIN o |->
                                                    req[r].table[Coming(r)][o[k]]]),
                    ![r].pc = IF strategy = "least_busy" THEN "count" ELSE "collect",
                    ![r].busy = IF strategy = "least_busy" THEN <<Coming(r), o[1]>> ELSE <<>>]
             /\ firsts' = IF req[r].gone \/ strategy = "simple" THEN firsts
                          ELSE [firsts EXCEPT ![Coming(r)][o[1]] = @ + 1]
      BY <1>6 DEF Collect, Coming
    <2>2. /\ rr' = IF req[r].gone \/ strategy # "round_robin" THEN rr
                   ELSE [rr EXCEPT ![Coming(r)] = @ + 1]
          /\ whole' = IF req[r].gone
                         \/ Len(Survivors(req[r].table, Coming(r), req[r].access))
                               = Len(req[r].table[Coming(r)])
                      THEN whole ELSE whole \ {Coming(r)}
      BY <1>6 DEF Collect, Coming
    <2>3. PICK c : c = Extend(req[r].candidates,
                              [k \in DOMAIN o |-> req[r].table[Coming(r)][o[k]]])
      OBVIOUS
    <2>4. PICK p : p = IF strategy = "least_busy" THEN "count" ELSE "collect"
      OBVIOUS
    <2>5. PICK b : b = IF strategy = "least_busy" THEN <<Coming(r), o[1]>> ELSE <<>>
      OBVIOUS
    <2>6. req' = [req EXCEPT ![r] = [req[r] EXCEPT !.place = @ + 1, !.candidates = c,
                                                   !.pc = p, !.busy = b]]
      BY <1>3, <2>1, <2>3, <2>4, <2>5 DEF TypeOK
    <2>7. /\ Own(r) /\ Keeps(r) /\ Takes(r, o)
          /\ req'[r].table = req[r].table /\ req'[r].gone = req[r].gone
          /\ req'[r].place = req[r].place + 1
      <3>1. firsts' = IF req[r].gone \/ strategy = "simple" THEN firsts
                      ELSE [firsts EXCEPT ![Coming(r)][o[1]] = @ + 1]
        BY <2>1
      <3> QED
        BY <1>5, <1>6, <2>2, <2>3, <2>4, <2>5, <2>6, <3>1
    <2> QED
      BY <1>1, <1>2, <2>7
  <1> QED
    BY <1>4, <1>6 DEF Collect, Coming

\* Adding to a load.
LEMMA CountBusyIs ==
    ASSUME TypeOK, NEW r \in Reqs, CountBusy(r)
    PROVE  /\ Own(r) /\ Keeps(r)
           /\ req[r].pc = "count" /\ req'[r].pc = "collect"
           /\ req'[r].table = req[r].table /\ req'[r].gone = req[r].gone
           /\ req'[r].place = req[r].place /\ req'[r].candidates = req[r].candidates
           /\ load' = IF req[r].gone THEN load
                      ELSE [load EXCEPT ![req[r].busy[1]][req[r].busy[2]] = @ + 1]
           /\ UNCHANGED <<strategy, stored, snap, rr, shown, begun, edits, firsts, whole>>
  <1>1. req' = [req EXCEPT ![r] = [req[r] EXCEPT !.pc = "collect", !.busy = <<>>]]
    BY DEF CountBusy, TypeOK
  <1>2. Own(r) /\ req'[r] = [req[r] EXCEPT !.pc = "collect", !.busy = <<>>]
    BY <1>1 DEF TypeOK, Own
  <1>3. DOMAIN req[r] = {"pc", "want", "key", "team", "access", "failed", "table", "gone",
                         "place", "candidates", "busy"}
    BY IdleIs DEF TypeOK
  <1>4. /\ DOMAIN req'[r] = DOMAIN Idle
        /\ req'[r].want = req[r].want /\ req'[r].key = req[r].key
        /\ req'[r].team = req[r].team /\ req'[r].access = req[r].access
        /\ req'[r].failed = req[r].failed
    BY <1>2, <1>3, IdleIs
  <1>5. /\ req'[r].pc = "collect" /\ req'[r].table = req[r].table
        /\ req'[r].gone = req[r].gone
        /\ req'[r].place = req[r].place /\ req'[r].candidates = req[r].candidates
    BY <1>2, <1>3
  <1> QED
    BY <1>2, <1>4, <1>5 DEF CountBusy, Keeps

\* Routing the turn.
LEMMA RouteIs ==
    ASSUME TypeOK, NEW r \in Reqs, Route(r)
    PROVE  /\ Own(r) /\ DOMAIN req'[r] = DOMAIN Idle
           /\ req[r].pc = "collect" /\ req'[r].pc \in {"idle", "turn"}
           /\ req[r].place = Len(Chain(req[r].want))
           /\ req'[r].candidates = filter_access(req[r].candidates, req[r].access)
           /\ req'[r].gone = FALSE
           /\ UNCHANGED <<strategy, stored, snap, rr, load, begun, edits, firsts, whole>>
  <1>1. PICK out : out = filter_access(req[r].candidates, req[r].access)
    OBVIOUS
  <1>2. PICK p \in {"idle", "turn"} : p = IF out = <<>> THEN "idle" ELSE "turn"
    OBVIOUS
  <1>3. req' = [req EXCEPT ![r] = [Idle EXCEPT !.pc = p, !.candidates = out]]
    BY <1>1, <1>2 DEF Route
  <1>4. Own(r) /\ req'[r] = [Idle EXCEPT !.pc = p, !.candidates = out]
    BY <1>3 DEF TypeOK, Own
  <1>5. /\ DOMAIN req'[r] = DOMAIN Idle /\ req'[r].pc = p /\ req'[r].candidates = out
        /\ req'[r].gone = FALSE
    BY <1>4, IdleIs
  <1> QED
    BY <1>1, <1>2, <1>4, <1>5 DEF Route

\* Ending the turn.
LEMMA FinishIs ==
    ASSUME TypeOK, NEW r \in Reqs, Finish(r)
    PROVE  /\ Own(r) /\ req'[r] = Idle /\ req[r].pc = "turn"
           /\ UNCHANGED <<strategy, stored, snap, rr, load, begun, edits, firsts, whole>>
  BY DEF Finish, TypeOK, Own

\* Being in a set is true or false.
LEMMA Membership == ASSUME NEW p, NEW S PROVE \E g \in BOOLEAN : g = (p \in S)
  <1>1. CASE p \in S
    <2>1. (p \in S) = TRUE
      BY <1>1
    <2> QED
      BY <2>1
  <1>2. CASE p \notin S
    <2>1. (p \in S) = FALSE
      BY <1>2
    <2> QED
      BY <2>1
  <1> QED
    BY <1>1, <1>2

\* Replacing the table.
LEMMA ReloadIs ==
    ASSUME TypeOK, Reload
    PROVE  /\ DOMAIN req' = Reqs /\ snap' \in Tables /\ whole' = Names
           /\ load' = Zero(snap') /\ firsts' = Zero(snap') /\ rr' = [n \in Names |-> 0]
           /\ \A r \in Reqs :
                 /\ Keeps(r) /\ req'[r].pc = req[r].pc /\ req'[r].table = req[r].table
                 /\ req'[r].place = req[r].place /\ req'[r].candidates = req[r].candidates
                 /\ req'[r].busy = req[r].busy
                 /\ req'[r].gone \in BOOLEAN /\ (req[r].pc \in {"collect", "count"} => req'[r].gone)
           /\ UNCHANGED <<strategy, stored, shown, begun, edits>>
  <1>1. ASSUME NEW r \in Reqs
        PROVE  /\ Keeps(r) /\ req'[r].pc = req[r].pc /\ req'[r].table = req[r].table
               /\ req'[r].place = req[r].place /\ req'[r].candidates = req[r].candidates
               /\ req'[r].busy = req[r].busy
               /\ req'[r].gone \in BOOLEAN /\ (req[r].pc \in {"collect", "count"} => req'[r].gone)
    <2>0. PICK S : S = {"collect", "count"}
      OBVIOUS
    <2>1. PICK g \in BOOLEAN : g = (req[r].pc \in S)
      BY Membership
    <2>2. req'[r] = [req[r] EXCEPT !.gone = g]
      <3>1. req'[r] = [req[r] EXCEPT !.gone = req[r].pc \in S]
        BY <2>0 DEF Reload
      <3> QED
        BY <2>1, <3>1
    <2>3. DOMAIN req[r] = {"pc", "want", "key", "team", "access", "failed", "table", "gone",
                           "place", "candidates", "busy"}
      BY IdleIs DEF TypeOK
    <2>4. /\ Keeps(r) /\ req'[r].pc = req[r].pc /\ req'[r].table = req[r].table
          /\ req'[r].place = req[r].place /\ req'[r].candidates = req[r].candidates
          /\ req'[r].busy = req[r].busy /\ req'[r].gone = g
      BY <2>2, <2>3, IdleIs DEF Keeps
    <2>5. req[r].pc \in {"collect", "count"} => g
      BY <2>0, <2>1
    <2> QED
      BY <2>4, <2>5
  <1> QED
    BY <1>1 DEF Reload, TypeOK


\* What is collected in some order is a sequence of the survivors.
LEMMA TakesLists ==
    ASSUME TypeOK, NEW r \in Reqs, Collect(r), NEW o, Takes(r, o)
    PROVE  /\ Lists(o, Surviving(req[r].table, Coming(r), req[r].access))
           /\ IsFiniteSet(Surviving(req[r].table, Coming(r), req[r].access))
           /\ Surviving(req[r].table, Coming(r), req[r].access) # {}
           /\ o[1] \in Surviving(req[r].table, Coming(r), req[r].access)
           /\ o[1] \in DOMAIN req[r].table[Coming(r)]
  <1>1. PICK m \in Names, t \in Tables : m = Coming(r) /\ t = req[r].table
    BY CollectIs
  <1>2. PICK access, gone : access = req[r].access /\ gone = req[r].gone
    OBVIOUS
  <1>3. PICK S : S = Surviving(t, m, access)
    OBVIOUS
  <1>4. PICK s : s = Survivors(t, m, access)
    OBVIOUS
  <1>5. gone \in BOOLEAN /\ (~gone => t = snap)
    BY <1>1, <1>2, CollectIs
  <1>6. s # <<>> /\ o \in order(s, m, gone)
    BY <1>1, <1>2, <1>4 DEF Takes
  <1>7. /\ S \in SUBSET (DOMAIN t[m]) /\ S # {} /\ IsFiniteSet(S) /\ Lists(s, S)
    BY <1>3, <1>4, <1>6, SurvivorsList
  <1>8. Lists(o, S)
    BY <1>5, <1>6, <1>7, OrderLists
  <1>9. o[1] \in S
    <2>1. Cardinality(S) \in Nat /\ Cardinality(S) # 0
      BY <1>7, FS_CardinalityType, FS_EmptySet
    <2>2. 1 \in 1 .. Cardinality(S)
      BY <2>1
    <2> QED
      BY <1>8, <2>2 DEF Lists
  <1> QED
    BY <1>1, <1>2, <1>3, <1>7, <1>8, <1>9

-----------------------------------------------------------------------------
(* Types.                                                                  *)

\* What TypeOK says of one request.
Typed(r) ==
    /\ DOMAIN req[r] = DOMAIN Idle
    /\ req[r].pc \in {"idle", "route", "collect", "count", "turn"}
    /\ req[r].gone \in BOOLEAN
    /\ req[r].pc \in {"route", "collect", "count"} =>
          req[r].want \in Names /\ req[r].place \in 0 .. Len(Chain(req[r].want))
    /\ req[r].pc \in {"collect", "count"} =>
          req[r].table \in Tables /\ (~req[r].gone => req[r].table = snap)
    /\ req[r].pc = "count" /\ ~req[r].gone =>
          \E m \in Names : \E i \in DOMAIN snap[m] : req[r].busy = <<m, i>>

\* The types of one request hold if the types do.
LEMMA TypedOf == ASSUME TypeOK, NEW r \in Reqs PROVE Typed(r)
  BY DEF TypeOK, Typed

\* A step of one request that keeps the table: the others stay typed.
LEMMA OthersTyped ==
    ASSUME TypeOK, NEW r \in Reqs, Own(r), snap' = snap, Typed(r)'
    PROVE  DOMAIN req' = Reqs /\ \A s \in Reqs : Typed(s)'
  <1>1. ASSUME NEW s \in Reqs, s # r PROVE Typed(s)'
    <2>1. req'[s] = req[s] /\ Typed(s)
      BY <1>1, TypedOf DEF Own
    <2> QED
      BY <2>1 DEF Typed
  <1> QED
    BY <1>1 DEF Own

\* The types are those of the table, the counts and each request.
LEMMA TypeOKFrom ==
    ASSUME strategy' \in Strategies, stored' \in Tables, snap' \in Tables,
           rr' \in [Names -> Nat], Counts(load)', Counts(firsts)', whole' \subseteq Names,
           begun' \in Nat, edits' \in Nat, DOMAIN req' = Reqs, DOMAIN shown' = Reqs,
           \A s \in Reqs : Typed(s)'
    PROVE  TypeOK'
  BY DEF TypeOK, Typed

\* The initial state.
LEMMA InitTyped == Init => TypeOK
  <1> SUFFICES ASSUME Init PROVE TypeOK
    OBVIOUS
  <1>1. snap \in Tables /\ stored \in Tables
    BY DEF Init
  <1>2. Counts(load) /\ Counts(firsts)
    BY <1>1, ZeroCounts DEF Init, Counts
  <1>3. \A r \in Reqs : req[r] = Idle
    BY DEF Init
  <1> QED
    BY <1>1, <1>2, <1>3, IdleIs DEF Init, TypeOK

\* Asking discovery touches no request.
LEMMA ListModelsTyped == ASSUME TypeOK, NEW r \in Reqs, ListModels(r) PROVE TypeOK'
  <1>1. /\ req' = req /\ DOMAIN shown' = Reqs /\ begun' \in Nat
        /\ UNCHANGED <<strategy, stored, snap, rr, load, edits, firsts, whole>>
    BY ListModelsIs
  <1> QED
    BY <1>1 DEF TypeOK, Counts

\* A step that reads the grants, takes the table, routes the turn or ends it.
LEMMA PlainTyped ==
    ASSUME TypeOK, NEW r \in Reqs, ReadGrants(r) \/ Resolve(r) \/ Route(r) \/ Finish(r)
    PROVE  TypeOK'
  <1>1. /\ UNCHANGED <<strategy, stored, snap, rr, load, edits, firsts, whole>>
        /\ begun' \in Nat /\ DOMAIN shown' = Reqs
    <2>1. /\ UNCHANGED <<strategy, stored, snap, rr, load, edits, firsts, whole>>
          /\ DOMAIN shown' = Reqs
      BY DEF ReadGrants, Resolve, Route, Finish, TypeOK
    <2>2. begun \in Nat /\ (begun' = begun \/ begun' = begun + 1)
      BY DEF ReadGrants, Resolve, Route, Finish, TypeOK
    <2> QED
      BY <2>1, <2>2
  <1>2. Own(r)
    BY ReadGrantsIs, ResolveIs, RouteIs, FinishIs
  <1>3. Typed(r)'
    <2>1. CASE ReadGrants(r)
      <3>1. 0 \in 0 .. Len(Chain(req'[r].want))
        BY <2>1, ReadGrantsIs, ChainIs
      <3> QED
        BY <2>1, <3>1, ReadGrantsIs DEF Typed
    <2>2. CASE Resolve(r)
      <3>1. Typed(r) /\ snap \in Tables /\ req[r].pc = "route"
        BY <2>2, TypedOf, ResolveIs DEF TypeOK
      <3> QED
        BY <1>1, <2>2, <3>1, ResolveIs DEF Typed, Keeps
    <2>3. CASE Route(r)
      BY <2>3, RouteIs DEF Typed
    <2>4. CASE Finish(r)
      BY <2>4, FinishIs, IdleIs DEF Typed
    <2> QED
      BY <2>1, <2>2, <2>3, <2>4
  <1>4. DOMAIN req' = Reqs /\ \A s \in Reqs : Typed(s)'
    BY <1>1, <1>2, <1>3, OthersTyped
  <1> QED
    BY <1>1, <1>4 DEF TypeOK, Typed, Counts


\* Collecting a model.
LEMMA CollectTyped == ASSUME TypeOK, NEW r \in Reqs, Collect(r) PROVE TypeOK'
  <1>1. UNCHANGED <<strategy, stored, snap, load, shown, begun, edits>> /\ Own(r) /\ Keeps(r)
    BY CollectIs
  <1>2. PICK m \in Names : m = Coming(r)
    BY CollectIs
  <1>3. req'[r].place \in 0 .. Len(Chain(req'[r].want)) /\ req'[r].want \in Names
    <2>1. PICK n \in Names : n = req[r].want /\ n = req'[r].want
      BY CollectIs DEF Keeps
    <2>2. /\ req[r].place \in Nat /\ req[r].place + 1 \in 1 .. Len(Chain(n))
          /\ Len(Chain(n)) \in Nat
      BY <2>1, CollectIs, ChainIs
    <2>3. req'[r].place = req[r].place + 1
      BY CollectIs
    <2> QED
      BY <2>1, <2>2, <2>3
  <1>4. req'[r].table \in Tables /\ req'[r].gone \in BOOLEAN /\ (~req'[r].gone => req'[r].table = snap)
    BY CollectIs
  <1>5. CASE Skips(r)
    <2>1. Typed(r)'
      BY <1>1, <1>3, <1>4, <1>5 DEF Skips, Typed, Keeps
    <2>2. DOMAIN req' = Reqs /\ \A s \in Reqs : Typed(s)'
      BY <1>1, <2>1, OthersTyped
    <2> QED
      BY <1>1, <1>5, <2>2 DEF TypeOK, Typed, Counts, Skips
  <1>6. ASSUME NEW o, Takes(r, o) PROVE TypeOK'
    <2>1. o[1] \in DOMAIN req[r].table[m]
      BY <1>2, <1>6, TakesLists
    <2>2. Typed(r)'
      <3>1. req'[r].pc = "count" /\ ~req'[r].gone =>
               \E n \in Names : \E i \in DOMAIN snap'[n] : req'[r].busy = <<n, i>>
        BY <1>1, <1>2, <1>6, <2>1, CollectIs DEF Takes
      <3>2. req'[r].pc \in {"collect", "count"}
        BY <1>6 DEF Takes
      <3> QED
        BY <1>1, <1>3, <1>4, <3>1, <3>2 DEF Typed, Keeps
    <2>3. DOMAIN req' = Reqs /\ \A s \in Reqs : Typed(s)'
      BY <1>1, <2>2, OthersTyped
    <2>4. Counts(firsts)'
      <3>1. CASE firsts' = firsts
        BY <1>1, <3>1 DEF TypeOK, Counts
      <3>2. CASE ~req[r].gone /\ firsts' = [firsts EXCEPT ![m][o[1]] = @ + 1]
        <4>1. o[1] \in DOMAIN snap[m] /\ firsts[m] \in [DOMAIN snap[m] -> Nat]
          BY <2>1, <3>2, CollectIs DEF TypeOK, Counts
        <4>2. [firsts[m] EXCEPT ![o[1]] = @ + 1] \in [DOMAIN snap[m] -> Nat]
          BY <4>1
        <4>3. firsts' = [firsts EXCEPT ![m] = [firsts[m] EXCEPT ![o[1]] = @ + 1]]
          BY <3>2
        <4> QED
          BY <1>1, <4>2, <4>3 DEF TypeOK, Counts
      <3> QED
        BY <1>2, <1>6, <3>1, <3>2 DEF Takes
    <2>5. rr' \in [Names -> Nat]
      <3>1. rr' = rr \/ rr' = [rr EXCEPT ![m] = @ + 1]
        BY <1>2, <1>6 DEF Takes
      <3> QED
        BY <3>1 DEF TypeOK
    <2>6. whole' \subseteq Names
      <3>1. whole' = whole \/ whole' = whole \ {m}
        BY <1>2, <1>6 DEF Takes
      <3> QED
        BY <3>1 DEF TypeOK
    <2> QED
      BY <1>1, <2>3, <2>4, <2>5, <2>6 DEF TypeOK, Typed, Counts
  <1> QED
    BY <1>5, <1>6, CollectIs

\* Adding to a load.
LEMMA CountBusyTyped == ASSUME TypeOK, NEW r \in Reqs, CountBusy(r) PROVE TypeOK'
  <1>1. /\ UNCHANGED <<strategy, stored, snap, rr, shown, begun, edits, firsts, whole>>
        /\ Own(r) /\ Keeps(r)
    BY CountBusyIs
  <1>2. Typed(r)'
    <2>1. Typed(r)
      BY TypedOf
    <2> QED
      BY <1>1, <2>1, CountBusyIs DEF Typed, Keeps
  <1>3. DOMAIN req' = Reqs /\ \A s \in Reqs : Typed(s)'
    BY <1>1, <1>2, OthersTyped
  <1>4. Counts(load)'
    <2>1. CASE req[r].gone
      BY <1>1, <2>1, CountBusyIs DEF TypeOK, Counts
    <2>2. CASE ~req[r].gone
      <3>1. PICK m \in Names : \E i \in DOMAIN snap[m] : req[r].busy = <<m, i>>
        BY <2>2, CountBusyIs DEF TypeOK
      <3>2. PICK i \in DOMAIN snap[m] : req[r].busy = <<m, i>>
        BY <3>1
      <3>3. load' = [load EXCEPT ![m] = [load[m] EXCEPT ![i] = @ + 1]]
        <4>1. req[r].busy[1] = m /\ req[r].busy[2] = i
          BY <3>2
        <4>2. load' = [load EXCEPT ![req[r].busy[1]][req[r].busy[2]] = @ + 1]
          BY <2>2, CountBusyIs
        <4> QED
          BY <4>1, <4>2
      <3>4. [load[m] EXCEPT ![i] = @ + 1] \in [DOMAIN snap[m] -> Nat]
        BY DEF TypeOK, Counts
      <3> QED
        BY <1>1, <3>3, <3>4 DEF TypeOK, Counts
    <2> QED
      BY <2>1, <2>2
  <1> QED
    BY <1>1, <1>3, <1>4 DEF TypeOK, Typed, Counts

\* A change of the catalog, and a reload.
LEMMA WorldTyped == ASSUME TypeOK, Edit \/ Reload PROVE TypeOK'
  <1>1. CASE Edit
    BY <1>1 DEF Edit, TypeOK, Counts
  <1>2. CASE Reload
    <2>1. Counts(load)' /\ Counts(firsts)'
      BY <1>2, ReloadIs, ZeroCounts DEF Counts
    <2>2. rr' \in [Names -> Nat]
      BY <1>2, ReloadIs
    <2>3. ASSUME NEW r \in Reqs PROVE Typed(r)'
      <3>1. Typed(r)
        BY TypedOf
      <3>2. /\ Keeps(r) /\ req'[r].pc = req[r].pc /\ req'[r].table = req[r].table
            /\ req'[r].place = req[r].place
            /\ req'[r].gone \in BOOLEAN /\ (req[r].pc \in {"collect", "count"} => req'[r].gone)
        BY <1>2, ReloadIs
      <3> QED
        BY <3>1, <3>2 DEF Typed, Keeps
    <2>4. /\ strategy' = strategy /\ stored' = stored /\ snap' \in Tables /\ whole' = Names
          /\ begun' = begun /\ edits' = edits /\ DOMAIN req' = Reqs /\ shown' = shown
      BY <1>2, ReloadIs
    <2> QED
      BY <2>1, <2>2, <2>3, <2>4, TypeOKFrom DEF TypeOK
  <1> QED
    BY <1>1, <1>2

\* Every step keeps the types.
LEMMA NextTyped == TypeOK /\ [Next]_vars => TypeOK'
  <1> SUFFICES ASSUME TypeOK, [Next]_vars PROVE TypeOK'
    OBVIOUS
  <1>1. CASE UNCHANGED vars
    BY <1>1 DEF vars, TypeOK, Counts
  <1>2. CASE Next
    BY <1>2, ListModelsTyped, PlainTyped, CollectTyped, CountBusyTyped, WorldTyped DEF Next
  <1> QED
    BY <1>1, <1>2

-----------------------------------------------------------------------------
(* The grants of a request and what it collects by them.                   *)

\* Until it is routed, a request holds the access its two grants make: the
\* merge is made in one step and used in others.
Granting ==
    \A r \in Reqs : req[r].pc \in {"route", "collect", "count"} =>
        req[r].access = effective_access(req[r].key, req[r].team, req[r].failed)

\* What survives in a model of the chain, and in the first p of them.
FromPlace(t, n, access, q) ==
    {t[Chain(n)[q]][i] : i \in Surviving(t, Chain(n)[q], access)}
Gathered(t, n, access, p) == UNION {FromPlace(t, n, access, q) : q \in 1 .. p}

\* What a request has collected is what survives in the models it has come to.
Collecting ==
    \A r \in Reqs :
        /\ req[r].pc = "route" => req[r].place = 0 /\ req[r].candidates = <<>>
        /\ req[r].pc \in {"collect", "count"} =>
              /\ Distinct(req[r].candidates)
              /\ ToSet(req[r].candidates)
                    = Gathered(req[r].table, req[r].want, req[r].access, req[r].place)

\* Only its own steps, and a reload, touch a request.
LEMMA RequestStep ==
    ASSUME TypeOK, [Next]_vars, NEW r \in Reqs
    PROVE  \/ req'[r] = req[r]
           \/ Reload
           \/ ReadGrants(r) \/ Resolve(r) \/ Collect(r) \/ CountBusy(r) \/ Route(r) \/ Finish(r)
  <1>1. ASSUME NEW s \in Reqs, s # r,
               \/ ReadGrants(s) \/ Resolve(s) \/ Collect(s)
               \/ CountBusy(s) \/ Route(s) \/ Finish(s)
        PROVE  req'[r] = req[r]
    <2>1. Own(s)
      BY <1>1, ReadGrantsIs, ResolveIs, CollectIs, CountBusyIs, RouteIs, FinishIs
    <2> QED
      BY <1>1, <2>1 DEF Own
  <1>2. CASE Edit \/ \E s \in Reqs : ListModels(s)
    BY <1>2, ListModelsIs DEF Edit
  <1>3. CASE UNCHANGED vars
    BY <1>3 DEF vars
  <1> QED
    BY <1>1, <1>2, <1>3 DEF Next

\* Every step keeps the grants with their merge.
LEMMA GrantingKept == TypeOK /\ Granting /\ [Next]_vars => Granting'
  <1> SUFFICES ASSUME TypeOK, Granting, [Next]_vars, NEW r \in Reqs,
                      req'[r].pc \in {"route", "collect", "count"}
               PROVE  req'[r].access
                         = effective_access(req'[r].key, req'[r].team, req'[r].failed)
    BY DEF Granting, effective_access
  <1>1. CASE req'[r] = req[r]
    BY <1>1 DEF Granting
  <1>2. CASE Reload
    BY <1>2, ReloadIs DEF Granting, Keeps
  <1>3. CASE ReadGrants(r)
    BY <1>3, ReadGrantsIs
  <1>4. CASE Resolve(r)
    BY <1>4, ResolveIs DEF Granting, Keeps
  <1>5. CASE Collect(r)
    BY <1>5, CollectIs DEF Granting, Keeps
  <1>6. CASE CountBusy(r)
    BY <1>6, CountBusyIs DEF Granting, Keeps
  <1>7. CASE Route(r)
    BY <1>7, RouteIs
  <1>8. CASE Finish(r)
    BY <1>8, FinishIs, IdleIs
  <1> QED
    BY <1>1, <1>2, <1>3, <1>4, <1>5, <1>6, <1>7, <1>8, RequestStep

\* One model more.
LEMMA GatheredNext ==
    ASSUME NEW t, NEW n, NEW access, NEW p \in Nat
    PROVE  /\ Gathered(t, n, access, 0) = {}
           /\ Gathered(t, n, access, p + 1)
                 = Gathered(t, n, access, p) \cup FromPlace(t, n, access, p + 1)
  <1>1. 1 .. 0 = {} /\ 1 .. (p + 1) = (1 .. p) \cup {p + 1}
    OBVIOUS
  <1>2. Gathered(t, n, access, 0) = {}
    BY <1>1 DEF Gathered
  <1>3. PICK S, T : S = 1 .. p /\ T = 1 .. (p + 1)
    OBVIOUS
  <1>4. T = S \cup {p + 1}
    BY <1>1, <1>3
  <1>5. UNION {FromPlace(t, n, access, q) : q \in T}
           = (UNION {FromPlace(t, n, access, q) : q \in S}) \cup FromPlace(t, n, access, p + 1)
    BY <1>4
  <1> QED
    BY <1>2, <1>3, <1>5 DEF Gathered

\* What a model of the chain adds to the list.
LEMMA CollectGathers ==
    ASSUME TypeOK, Collecting, NEW r \in Reqs, Collect(r)
    PROVE  /\ Distinct(req'[r].candidates)
           /\ ToSet(req'[r].candidates)
                 = Gathered(req'[r].table, req'[r].want, req'[r].access, req'[r].place)
  <1>1. PICK t \in Tables, n \in Names, p \in Nat, m \in Names :
           /\ t = req[r].table /\ n = req[r].want /\ p = req[r].place /\ m = Coming(r)
    BY CollectIs
  <1>2. PICK access, c : access = req[r].access /\ c = req[r].candidates
    OBVIOUS
  <1>3. /\ req'[r].table = t /\ req'[r].want = n /\ req'[r].access = access
        /\ req'[r].place = p + 1
    BY <1>1, <1>2, CollectIs DEF Keeps
  <1>4. Distinct(c) /\ ToSet(c) = Gathered(t, n, access, p)
    BY <1>1, <1>2, CollectIs DEF Collecting
  <1>5. m = Chain(n)[p + 1]
    BY <1>1 DEF Coming
  <1>6. Gathered(t, n, access, p + 1)
           = Gathered(t, n, access, p) \cup FromPlace(t, n, access, p + 1)
    BY GatheredNext
  <1>7. FromPlace(t, n, access, p + 1) = {t[m][i] : i \in Surviving(t, m, access)}
    BY <1>5 DEF FromPlace
  <1>8. CASE Skips(r)
    <2>1. Surviving(t, m, access) = {}
      <3>1. Survivors(t, m, access) = <<>>
        BY <1>1, <1>2, <1>8 DEF Skips
      <3> QED
        BY <3>1, SurvivorsList
    <2>2. req'[r].candidates = c
      BY <1>2, <1>8 DEF Skips
    <2> QED
      BY <1>3, <1>4, <1>6, <1>7, <2>1, <2>2
  <1>9. ASSUME NEW o, Takes(r, o)
        PROVE  /\ Distinct(req'[r].candidates)
               /\ ToSet(req'[r].candidates) = Gathered(t, n, access, p + 1)
    <2>1. Lists(o, Surviving(t, m, access)) /\ IsFiniteSet(Surviving(t, m, access))
      BY <1>1, <1>2, <1>9, TakesLists
    <2>2. PICK S : S = Surviving(t, m, access)
      OBVIOUS
    <2>3. PICK k \in Nat : k = Cardinality(S) /\ DOMAIN o = 1 .. k /\ ToSet(o) = S
      BY <2>1, <2>2, ListIs, FS_CardinalityType
    <2>4. PICK s : s = [j \in 1 .. k |-> t[m][o[j]]]
      OBVIOUS
    <2>5. DOMAIN s = 1 .. k
      BY <2>4
    <2>6. ToSet(s) = {t[m][i] : i \in S}
      <3>1. ASSUME NEW d PROVE d \in ToSet(s) <=> \E j \in 1 .. k : d = t[m][o[j]]
        BY <2>4, <2>5 DEF ToSet
      <3>2. \A i : i \in S <=> \E j \in 1 .. k : i = o[j]
        BY <2>3 DEF ToSet
      <3>3. ASSUME NEW d PROVE d \in ToSet(s) <=> \E i \in S : d = t[m][i]
        BY <3>1, <3>2
      <3> QED
        BY <3>3
    <2>7. req'[r].candidates = Extend(c, s)
      BY <1>1, <1>2, <1>9, <2>3, <2>4 DEF Takes
    <2>8. Distinct(Extend(c, s)) /\ ToSet(Extend(c, s)) = ToSet(c) \cup ToSet(s)
      BY <1>4, <2>5, ExtendKeeps
    <2> QED
      BY <1>4, <1>6, <1>7, <2>2, <2>6, <2>7, <2>8
  <1> QED
    BY <1>3, <1>8, <1>9, CollectIs

\* Every step keeps what is collected right.
LEMMA CollectingKept == TypeOK /\ Collecting /\ [Next]_vars => Collecting'
  <1> SUFFICES ASSUME TypeOK, Collecting, [Next]_vars, NEW r \in Reqs
               PROVE  /\ req'[r].pc = "route" => req'[r].place = 0 /\ req'[r].candidates = <<>>
                      /\ req'[r].pc \in {"collect", "count"} =>
                            /\ Distinct(req'[r].candidates)
                            /\ ToSet(req'[r].candidates)
                                  = Gathered(req'[r].table, req'[r].want, req'[r].access,
                                             req'[r].place)
    BY DEF Collecting
  <1>1. CASE req'[r] = req[r]
    BY <1>1 DEF Collecting
  <1>2. CASE Reload
    BY <1>2, ReloadIs DEF Collecting, Keeps
  <1>3. CASE ReadGrants(r)
    BY <1>3, ReadGrantsIs
  <1>4. CASE Resolve(r)
    <2>1. req[r].place = 0 /\ req[r].candidates = <<>>
      BY <1>4, ResolveIs DEF Collecting
    <2>2. Distinct(<<>>) /\ ToSet(<<>>) = {}
      BY DEF Distinct, ToSet
    <2>3. Gathered(req'[r].table, req'[r].want, req'[r].access, 0) = {}
      BY GatheredNext
    <2> QED
      BY <1>4, <2>1, <2>2, <2>3, ResolveIs
  <1>5. CASE Collect(r)
    <2>1. req'[r].pc # "route"
      BY <1>5, CollectIs DEF Skips, Takes
    <2> QED
      BY <1>5, <2>1, CollectGathers
  <1>6. CASE CountBusy(r)
    BY <1>6, CountBusyIs DEF Collecting, Keeps
  <1>7. CASE Route(r)
    BY <1>7, RouteIs
  <1>8. CASE Finish(r)
    BY <1>8, FinishIs, IdleIs
  <1> QED
    BY <1>1, <1>2, <1>3, <1>4, <1>5, <1>6, <1>7, <1>8, RequestStep

\* What a routed request is given, if its team could be read.
LEMMA RouteGrants ==
    ASSUME TypeOK, Granting, Collecting, NEW r \in Reqs, Route(r),
           ~req[r].failed, ~Disjoint(req[r].key, req[r].team)
    PROVE  /\ ToSet(req'[r].candidates)
                 = Granted(req[r].table, req[r].key, req[r].team, req[r].want)
           /\ Len(req'[r].candidates) = Cardinality(ToSet(req'[r].candidates))
  <1>1. PICK n \in Names : n = req[r].want
    BY RouteIs DEF TypeOK
  <1>2. PICK access, key, team, t, c :
           /\ access = req[r].access /\ key = req[r].key /\ team = req[r].team
           /\ t = req[r].table /\ c = req[r].candidates
    OBVIOUS
  <1>3. access = merge(key, team)
    BY <1>2, RouteIs DEF Granting, effective_access
  <1>4. Distinct(c) /\ ToSet(c) = Gathered(t, n, access, Len(Chain(n)))
    BY <1>1, <1>2, RouteIs DEF Collecting
  <1>5. req'[r].candidates = filter_access(c, access)
    BY <1>2, RouteIs
  <1>6. /\ ToSet(filter_access(c, access)) = {d \in ToSet(c) : Permits(access, d)}
        /\ Len(filter_access(c, access)) = Cardinality(ToSet(filter_access(c, access)))
    BY <1>4, FilterKeeps
  <1>7. ASSUME NEW d
        PROVE  d \in ToSet(c) /\ Permits(access, d) <=> d \in Granted(t, key, team, n)
    <2>1. Permits(access, d) <=> Permits(key, d) /\ Permits(team, d)
      BY <1>2, <1>3, MergePermits
    <2>2. d \in Granted(t, key, team, n) <=>
             /\ \E m \in ToSet(Chain(n)) : d \in ToSet(t[m])
             /\ Permits(key, d) /\ Permits(team, d)
      BY DEF Granted
    <2>3. (\E m \in ToSet(Chain(n)) : d \in ToSet(t[m])) <=>
             \E p \in 1 .. Len(Chain(n)) : \E i \in DOMAIN t[Chain(n)[p]] :
                d = t[Chain(n)[p]][i]
      BY ChainIs DEF ToSet
    <2>4. Permits(access, d) => Survives(access, d)
      BY PermittedSurvives
    <2>5. d \in ToSet(c) <=>
             \E p \in 1 .. Len(Chain(n)) : \E i \in DOMAIN t[Chain(n)[p]] :
                Survives(access, d) /\ d = t[Chain(n)[p]][i]
      <3>1. PICK S : S = 1 .. Len(Chain(n))
        OBVIOUS
      <3>2. d \in ToSet(c) <=> \E p \in S : d \in FromPlace(t, n, access, p)
        BY <1>4, <3>1 DEF Gathered
      <3>3. \A p \in S : d \in FromPlace(t, n, access, p) <=>
               \E i \in DOMAIN t[Chain(n)[p]] : Survives(access, d) /\ d = t[Chain(n)[p]][i]
        BY DEF FromPlace, Surviving
      <3> QED
        BY <3>1, <3>2, <3>3
    <2> QED
      BY <2>1, <2>2, <2>3, <2>4, <2>5
  <1>8. ToSet(filter_access(c, access)) = Granted(t, key, team, n)
    BY <1>6, <1>7
  <1> QED
    BY <1>1, <1>2, <1>5, <1>6, <1>8

\* Only Route takes a request from collecting to its turn or away.
LEMMA RoutedByRoute ==
    ASSUME TypeOK, [Next]_vars, NEW r \in Reqs, Routed(r)
    PROVE  Route(r)
  <1>1. req[r].pc = "collect" /\ req'[r].pc \in {"turn", "idle"}
    BY DEF Routed
  <1>2. req'[r] # req[r] /\ ~Reload
    BY <1>1, ReloadIs
  <1>3. ~ReadGrants(r) /\ ~Resolve(r) /\ ~CountBusy(r) /\ ~Finish(r)
    BY <1>1 DEF ReadGrants, Resolve, CountBusy, Finish
  <1>4. ~Collect(r)
    BY <1>1, CollectIs DEF Skips, Takes
  <1> QED
    BY <1>2, <1>3, <1>4, RequestStep

\* Whoever is routed is given what its grants allow.
LEMMA GrantDecidesStep ==
    ASSUME TypeOK, Granting, Collecting, [Next]_vars, NEW r \in Reqs, Routed(r),
           ~req[r].failed, ~Disjoint(req[r].key, req[r].team)
    PROVE  /\ ToSet(req'[r].candidates)
                 = Granted(req[r].table, req[r].key, req[r].team, req[r].want)
           /\ Len(req'[r].candidates) = Cardinality(ToSet(req'[r].candidates))
  BY RoutedByRoute, RouteGrants

-----------------------------------------------------------------------------
(* Discovery and inference.                                                *)

\* Until it is used, a list is what discovery makes of the table it read.
Showing ==
    \A r \in Reqs : shown[r] # Unasked =>
        shown[r].names = listed_models(shown[r].table, shown[r].access, shown[r].answered)

\* Every step keeps it so: only asking makes a list, and only its use ends one.
LEMMA ShowingKept == TypeOK /\ Showing /\ [Next]_vars => Showing'
  <1> SUFFICES ASSUME TypeOK, Showing, [Next]_vars, NEW r \in Reqs, shown'[r] # Unasked
               PROVE  shown'[r].names = listed_models(shown'[r].table, shown'[r].access,
                                                      shown'[r].answered)
    BY DEF Showing, listed_models
  <1>1. CASE shown'[r] = shown[r]
    BY <1>1 DEF Showing
  <1>2. CASE ListModels(r)
    <2>1. PICK access : \E answered \in BOOLEAN :
             shown'[r] = [names |-> listed_models(stored, access, answered),
                          access |-> access, table |-> stored, answered |-> answered]
      BY <1>2, ListModelsIs
    <2> QED
      BY <2>1
  <1>3. ASSUME NEW s \in Reqs, s # r, ListModels(s) PROVE shown'[r] = shown[r]
    BY <1>3, ListModelsIs
  <1>4. ASSUME NEW s \in Reqs, Route(s) PROVE shown'[r] = shown[r]
    <2>1. DOMAIN shown = Reqs /\ shown' = [shown EXCEPT ![s] = Unasked]
      BY <1>4 DEF Route, TypeOK
    <2> QED
      BY <2>1
  <1>5. ASSUME shown' = shown PROVE shown'[r] = shown[r]
    BY <1>5
  <1> QED
    BY <1>1, <1>2, <1>3, <1>4, <1>5
       DEF Next, ReadGrants, Resolve, Collect, CountBusy, Finish, Edit, Reload, vars

\* Of the deployments of the model a routed request asked for, it is given
\* those its access permits: the model comes first in its chain, the router
\* keeps what is permitted and the gateway nothing else.
LEMMA OwnAreServed ==
    ASSUME TypeOK, Collecting, NEW r \in Reqs, Route(r),
           NEW d \in ToSet(req[r].table[req[r].want])
    PROVE  d \in ToSet(req'[r].candidates) <=> Permits(req[r].access, d)
  <1>1. PICK n \in Names, t \in Tables : n = req[r].want /\ t = req[r].table
    BY RouteIs DEF TypeOK
  <1>2. PICK access, c : access = req[r].access /\ c = req[r].candidates
    OBVIOUS
  <1>3. Distinct(c) /\ ToSet(c) = Gathered(t, n, access, Len(Chain(n)))
    BY <1>1, <1>2, RouteIs DEF Collecting
  <1>4. ToSet(req'[r].candidates) = {e \in ToSet(c) : Permits(access, e)}
    <2>1. req'[r].candidates = filter_access(c, access)
      BY <1>2, RouteIs
    <2> QED
      BY <1>3, <2>1, FilterKeeps
  <1>5. ASSUME Permits(access, d) PROVE d \in ToSet(c)
    <2>1. PICK i \in DOMAIN t[n] : d = t[n][i]
      BY <1>1 DEF ToSet
    <2>2. i \in Surviving(t, n, access)
      BY <1>5, <2>1, PermittedSurvives DEF Surviving
    <2>3. Chain(n)[1] = n /\ 1 \in 1 .. Len(Chain(n))
      BY ChainIs DEF Chain
    <2>4. d \in FromPlace(t, n, access, 1)
      BY <2>1, <2>2, <2>3 DEF FromPlace
    <2> QED
      BY <1>3, <2>3, <2>4 DEF Gathered
  <1> QED
    BY <1>2, <1>4, <1>5

\* A list against the turn it is used for.
LEMMA ListedStep ==
    ASSUME TypeOK, Collecting, Showing, [Next]_vars, NEW r \in Reqs, Routed(r),
           shown[r] # Unasked, shown[r].access = req[r].access,
           shown[r].table[req[r].want] = req[r].table[req[r].want]
    PROVE  LET own == ToSet(req[r].table[req[r].want]) \cap ToSet(req'[r].candidates) IN
           /\ req[r].want \in shown[r].names => own # {}
           /\ shown[r].answered /\ own # {} => req[r].want \in shown[r].names
  <1>1. PICK n \in Names : n = req[r].want
    BY RoutedByRoute, RouteIs DEF TypeOK
  <1>2. PICK row, access : row = req[r].table[n] /\ access = req[r].access
    OBVIOUS
  <1>3. \A d \in ToSet(row) : d \in ToSet(req'[r].candidates) <=> Permits(access, d)
    BY <1>1, <1>2, RoutedByRoute, OwnAreServed
  <1>4. n \in shown[r].names <=> shown[r].answered /\ \E d \in ToSet(row) : Permits(access, d)
    BY <1>1, <1>2 DEF Showing, listed_models
  <1> QED
    BY <1>1, <1>2, <1>3, <1>4

-----------------------------------------------------------------------------
(* Least busy.                                                             *)

\* The requests that chose a deployment of the table and have not added to its
\* load yet.
Owes(r, m, i) == req[r].pc = "count" /\ ~req[r].gone /\ req[r].busy = <<m, i>>
Owers(m, i) == {r \in Reqs : Owes(r, m, i)}

\* The loads are behind the choices by those requests.
Owing ==
    strategy = "least_busy" =>
        \A m \in Names : \A i \in DOMAIN snap[m] :
            firsts[m][i] = load[m][i] + Cardinality(Owers(m, i))

\* They are a finite number.
LEMMA OwersAre ==
    ASSUME NEW m, NEW i
    PROVE  /\ IsFiniteSet(Owers(m, i)) /\ Cardinality(Owers(m, i)) \in Nat
           /\ Cardinality(Owers(m, i)) <= Cardinality(Reqs)
  <1>1. Owers(m, i) \in SUBSET Reqs /\ IsFiniteSet(Reqs)
    BY RoutingAssumption DEF Owers
  <1> QED
    BY <1>1, FS_Subset, FS_CardinalityType

\* A step that touches neither the counts nor who owes.
LEMMA OwingSame ==
    ASSUME Owing, UNCHANGED <<strategy, snap, load, firsts>>,
           \A r \in Reqs : \A m, i : Owes(r, m, i)' <=> Owes(r, m, i)
    PROVE  Owing'
  <1>1. ASSUME NEW m, NEW i PROVE Owers(m, i)' = Owers(m, i)
    BY DEF Owers
  <1> QED
    BY <1>1 DEF Owing

\* A step of r leaves what the others owe.
LEMMA OthersOwe ==
    ASSUME NEW r \in Reqs, Own(r), NEW s \in Reqs \ {r}, NEW m, NEW i
    PROVE  Owes(s, m, i)' <=> Owes(s, m, i)
  BY DEF Own, Owes

\* Where nobody owes anything and nothing is counted yet.
LEMMA OwingZero ==
    ASSUME TypeOK, load = Zero(snap), firsts = Zero(snap),
           \A r \in Reqs : \A m, i : ~Owes(r, m, i)
    PROVE  Owing
  <1> SUFFICES ASSUME NEW m \in Names, NEW i \in DOMAIN snap[m]
               PROVE  firsts[m][i] = load[m][i] + Cardinality(Owers(m, i))
    BY DEF Owing
  <1>1. Owers(m, i) = {}
    BY DEF Owers
  <1>2. Cardinality(Owers(m, i)) = 0
    BY <1>1, FS_EmptySet
  <1>3. firsts[m][i] = 0 /\ load[m][i] = 0
    BY ZeroCounts DEF TypeOK
  <1> QED
    BY <1>2, <1>3

\* One that chooses owes from then on.
LEMMA OwingCollect == ASSUME TypeOK, Owing, NEW r \in Reqs, Collect(r) PROVE Owing'
  <1>1. /\ UNCHANGED <<strategy, snap, load>> /\ Own(r) /\ req[r].pc = "collect"
        /\ req'[r].gone = req[r].gone
    BY CollectIs
  <1>2. CASE strategy # "least_busy"
    BY <1>1, <1>2 DEF Owing
  <1>3. CASE Skips(r)
    <2>1. firsts' = firsts /\ req'[r].pc = "collect"
      BY <1>3 DEF Skips
    <2>2. \A m, i : ~Owes(r, m, i) /\ ~Owes(r, m, i)'
      BY <1>1, <2>1 DEF Owes
    <2> QED
      BY <1>1, <2>1, <2>2, OthersOwe, OwingSame
  <1>4. ASSUME strategy = "least_busy", NEW o, Takes(r, o) PROVE Owing'
    <2>1. PICK n \in Names : n = Coming(r)
      BY CollectIs
    <2>2. PICK first : first = o[1]
      OBVIOUS
    <2>3. req'[r].pc = "count" /\ req'[r].busy = <<n, first>>
      BY <1>4, <2>1, <2>2 DEF Takes
    <2>4. CASE req[r].gone
      <3>1. firsts' = firsts
        BY <1>4, <2>4 DEF Takes
      <3>2. \A m, i : ~Owes(r, m, i) /\ ~Owes(r, m, i)'
        BY <1>1, <2>4 DEF Owes
      <3> QED
        BY <1>1, <3>1, <3>2, OthersOwe, OwingSame
    <2>5. CASE ~req[r].gone
      <3>1. firsts' = [firsts EXCEPT ![n][first] = @ + 1]
        BY <1>4, <2>1, <2>2, <2>5 DEF Takes
      <3>2. \A m, i : ~Owes(r, m, i) /\ (Owes(r, m, i)' <=> m = n /\ i = first)
        BY <1>1, <2>3, <2>5 DEF Owes
      <3> SUFFICES ASSUME NEW m \in Names, NEW i \in DOMAIN snap[m]
                   PROVE  firsts'[m][i] = load[m][i] + Cardinality(Owers(m, i)')
        BY <1>1 DEF Owing
      <3>3. /\ firsts[m][i] = load[m][i] + Cardinality(Owers(m, i))
            /\ firsts[m][i] \in Nat /\ load[m][i] \in Nat
            /\ DOMAIN firsts = Names /\ DOMAIN firsts[m] = DOMAIN snap[m]
        BY <1>4 DEF Owing, TypeOK, Counts
      <3>4. CASE m = n /\ i = first
        <4>1. Owers(m, i)' = Owers(m, i) \cup {r} /\ r \notin Owers(m, i)
          BY <1>1, <3>2, <3>4, OthersOwe DEF Owers
        <4>2. Cardinality(Owers(m, i)') = Cardinality(Owers(m, i)) + 1
          BY <4>1, OwersAre, FS_AddElement
        <4>3. firsts'[m][i] = firsts[m][i] + 1
          BY <3>1, <3>3, <3>4
        <4> QED
          BY <3>3, <4>2, <4>3, OwersAre
      <3>5. CASE ~(m = n /\ i = first)
        <4>1. Owers(m, i)' = Owers(m, i)
          BY <1>1, <3>2, <3>5, OthersOwe DEF Owers
        <4>2. firsts'[m][i] = firsts[m][i]
          BY <3>1, <3>3, <3>5
        <4> QED
          BY <3>3, <4>1, <4>2
      <3> QED
        BY <3>4, <3>5
    <2> QED
      BY <2>4, <2>5
  <1> QED
    BY <1>2, <1>3, <1>4, CollectIs

\* One that adds owes no more.
LEMMA OwingCount == ASSUME TypeOK, Owing, NEW r \in Reqs, CountBusy(r) PROVE Owing'
  <1>1. /\ UNCHANGED <<strategy, snap, firsts>> /\ Own(r) /\ req[r].pc = "count"
        /\ req'[r].pc = "collect"
    BY CountBusyIs
  <1>2. \A m, i : ~Owes(r, m, i)'
    BY <1>1 DEF Owes
  <1>3. CASE req[r].gone
    <2>1. load' = load
      BY <1>3, CountBusyIs
    <2>2. \A m, i : ~Owes(r, m, i)
      BY <1>3 DEF Owes
    <2> QED
      BY <1>1, <1>2, <2>1, <2>2, OthersOwe, OwingSame
  <1>4. CASE ~req[r].gone
    <2>1. PICK n \in Names : \E i \in DOMAIN snap[n] : req[r].busy = <<n, i>>
      BY <1>1, <1>4 DEF TypeOK
    <2>2. PICK first \in DOMAIN snap[n] : req[r].busy = <<n, first>>
      BY <2>1
    <2>3. load' = [load EXCEPT ![n][first] = @ + 1]
      <3>1. req[r].busy[1] = n /\ req[r].busy[2] = first
        BY <2>2
      <3>2. load' = [load EXCEPT ![req[r].busy[1]][req[r].busy[2]] = @ + 1]
        BY <1>4, CountBusyIs
      <3> QED
        BY <3>1, <3>2
    <2>4. \A m, i : Owes(r, m, i) <=> m = n /\ i = first
      BY <1>1, <1>4, <2>2 DEF Owes
    <2> SUFFICES ASSUME strategy = "least_busy", NEW m \in Names, NEW i \in DOMAIN snap[m]
                 PROVE  firsts[m][i] = load'[m][i] + Cardinality(Owers(m, i)')
      BY <1>1 DEF Owing
    <2>5. /\ firsts[m][i] = load[m][i] + Cardinality(Owers(m, i))
          /\ firsts[m][i] \in Nat /\ load[m][i] \in Nat
          /\ DOMAIN load = Names /\ DOMAIN load[m] = DOMAIN snap[m]
      BY DEF Owing, TypeOK, Counts
    <2>6. CASE m = n /\ i = first
      <3>1. Owers(m, i)' = Owers(m, i) \ {r} /\ r \in Owers(m, i)
        BY <1>1, <1>2, <2>4, <2>6, OthersOwe DEF Owers
      <3>2. Cardinality(Owers(m, i)') = Cardinality(Owers(m, i)) - 1
        BY <3>1, OwersAre, FS_RemoveElement
      <3>3. load'[m][i] = load[m][i] + 1
        BY <2>3, <2>5, <2>6
      <3> QED
        BY <2>5, <3>2, <3>3, OwersAre
    <2>7. CASE ~(m = n /\ i = first)
      <3>1. Owers(m, i)' = Owers(m, i)
        BY <1>1, <1>2, <2>4, <2>7, OthersOwe DEF Owers
      <3>2. load'[m][i] = load[m][i]
        BY <2>3, <2>5, <2>7
      <3> QED
        BY <2>5, <3>1, <3>2
    <2> QED
      BY <2>6, <2>7
  <1> QED
    BY <1>3, <1>4

\* Every step keeps the loads behind the choices by what is owed.
LEMMA OwingKept == TypeOK /\ Owing /\ [Next]_vars => Owing'
  <1> SUFFICES ASSUME TypeOK, Owing, [Next]_vars PROVE Owing'
    OBVIOUS
  <1>1. ASSUME NEW r \in Reqs, ReadGrants(r) \/ Resolve(r) \/ Route(r) \/ Finish(r)
        PROVE  Owing'
    <2>1. UNCHANGED <<strategy, snap, load, firsts>>
      BY <1>1 DEF ReadGrants, Resolve, Route, Finish
    <2>2. Own(r) /\ req[r].pc # "count" /\ req'[r].pc # "count"
      BY <1>1, ReadGrantsIs, ResolveIs, RouteIs, FinishIs, IdleIs
    <2>3. \A m, i : ~Owes(r, m, i) /\ ~Owes(r, m, i)'
      BY <2>2 DEF Owes
    <2> QED
      BY <2>1, <2>2, <2>3, OthersOwe, OwingSame
  <1>2. CASE Edit \/ (\E r \in Reqs : ListModels(r)) \/ UNCHANGED vars
    <2>1. UNCHANGED <<strategy, snap, load, firsts, req>>
      BY <1>2, ListModelsIs DEF Edit, vars
    <2> QED
      BY <2>1, OwingSame DEF Owes
  <1>3. CASE Reload
    <2>1. ASSUME NEW r \in Reqs, NEW m, NEW i PROVE ~Owes(r, m, i)'
      BY <1>3, ReloadIs DEF Owes
    <2>2. TypeOK'
      BY <1>3, WorldTyped
    <2>3. load' = Zero(snap') /\ firsts' = Zero(snap')
      BY <1>3, ReloadIs
    <2>4. ASSUME NEW m \in Names, NEW i \in DOMAIN snap'[m]
          PROVE  firsts'[m][i] = load'[m][i] + Cardinality(Owers(m, i)')
      <3>1. Owers(m, i)' = {}
        BY <2>1 DEF Owers
      <3>2. Cardinality(Owers(m, i)') = 0
        BY <3>1, FS_EmptySet
      <3>3. firsts'[m][i] = 0 /\ load'[m][i] = 0
        BY <2>2, <2>3, ZeroCounts DEF TypeOK
      <3> QED
        BY <3>2, <3>3
    <2> QED
      BY <2>4 DEF Owing
  <1> QED
    BY <1>1, <1>2, <1>3, OwingCollect, OwingCount DEF Next

\* The part of RotationIsEven that is about least busy.
Level ==
    strategy = "least_busy" =>
        \A m \in whole : \A i, j \in DOMAIN snap[m] :
            firsts[m][i] - firsts[m][j] <= Cardinality(Reqs)

\* Of a name that stays whole, all deployments were there to choose from.
LEMMA WholeTaken ==
    ASSUME TypeOK, NEW r \in Reqs, Collect(r), NEW o, Takes(r, o), ~req[r].gone,
           Coming(r) \in whole'
    PROVE  /\ Coming(r) \in Names /\ snap \in Tables
           /\ Surviving(snap, Coming(r), req[r].access) = DOMAIN snap[Coming(r)]
           /\ o \in order(Ascending(DOMAIN snap[Coming(r)]), Coming(r), req[r].gone)
           /\ o[1] \in DOMAIN snap[Coming(r)]
  <1>1. PICK m \in Names, t \in Tables : m = Coming(r) /\ t = req[r].table /\ t = snap
    BY CollectIs
  <1>2. Len(Survivors(t, m, req[r].access)) = Len(t[m])
    BY <1>1 DEF Takes
  <1>3. /\ Surviving(t, m, req[r].access) = DOMAIN t[m]
        /\ Survivors(t, m, req[r].access) = Ascending(DOMAIN t[m])
    BY <1>2, WholeSurvives
  <1>4. o \in order(Survivors(t, m, req[r].access), m, req[r].gone)
    BY <1>1 DEF Takes
  <1> QED
    BY <1>1, <1>3, <1>4, TakesLists

\* The one chosen has the least load, and only the other requests may owe it
\* something.
LEMMA LevelCollect ==
    ASSUME TypeOK, Owing, Level, strategy = "least_busy", NEW r \in Reqs, Collect(r),
           NEW m \in whole', NEW i \in DOMAIN snap[m], NEW j \in DOMAIN snap[m]
    PROVE  firsts'[m][i] - firsts'[m][j] <= Cardinality(Reqs)
  <1>1. m \in whole /\ m \in Names
    <2>1. whole' \subseteq whole
      BY CollectIs DEF Skips, Takes
    <2> QED
      BY <2>1 DEF TypeOK
  <1>2. PICK c \in Nat : c = Cardinality(Reqs)
    BY RoutingAssumption, FS_CardinalityType
  <1>3. /\ firsts[m][i] - firsts[m][j] <= c
        /\ firsts[m][i] \in Nat /\ firsts[m][j] \in Nat
        /\ load[m][i] \in Nat /\ load[m][j] \in Nat
        /\ DOMAIN firsts = Names /\ DOMAIN firsts[m] = DOMAIN snap[m]
    BY <1>1, <1>2 DEF Level, TypeOK, Counts
  <1>4. CASE firsts' = firsts
    BY <1>2, <1>3, <1>4
  <1>5. ASSUME NEW o, Takes(r, o), ~req[r].gone
        PROVE  firsts'[m][i] - firsts'[m][j] <= c
    <2>1. PICK n \in Names : n = Coming(r)
      BY CollectIs
    <2>2. firsts' = [firsts EXCEPT ![n][o[1]] = @ + 1]
      BY <1>5, <2>1 DEF Takes
    <2>3. CASE ~(m = n /\ i = o[1])
      <3>1. firsts'[m][i] = firsts[m][i]
        BY <1>3, <2>2, <2>3
      <3>2. firsts'[m][j] = firsts[m][j] \/ firsts'[m][j] = firsts[m][j] + 1
        BY <1>3, <2>2
      <3> QED
        BY <1>2, <1>3, <3>1, <3>2
    <2>4. CASE m = n /\ i = o[1] /\ i = j
      <3>1. firsts'[m][i] = firsts[m][i] + 1 /\ firsts'[m][j] = firsts[m][i] + 1
        BY <1>3, <2>2, <2>4
      <3> QED
        BY <1>2, <1>3, <3>1
    <2>5. CASE m = n /\ i = o[1] /\ i # j
      <3>1. firsts'[m][i] = firsts[m][i] + 1 /\ firsts'[m][j] = firsts[m][j]
        BY <1>3, <2>2, <2>5
      <3>2. load[m][i] <= load[m][j]
        <4>1. PICK S \in SUBSET Nat : S = DOMAIN snap[m] /\ IsFiniteSet(S)
          BY <1>1, RowIs DEF TypeOK
        <4>2. PICK s : s = Ascending(S)
          OBVIOUS
        <4>3. o \in order(s, m, req[r].gone)
          BY <1>5, <2>1, <2>5, <4>1, <4>2, WholeTaken
        <4>4. o = Sorted(s, load[m])
          BY <1>5, <4>3 DEF order
        <4>5. Lists(s, S) /\ S # {}
          BY <4>1, <4>2, AscendingLists
        <4>6. \A k \in S : load[m][k] \in Nat
          BY <1>1, <4>1 DEF TypeOK, Counts
        <4>7. \A k \in S : load[m][Sorted(s, load[m])[1]] <= load[m][k]
          BY <4>1, <4>5, <4>6, SortedFirst
        <4> QED
          BY <2>5, <4>1, <4>4, <4>7
      <3>3. Cardinality(Owers(m, i)) <= c - 1 /\ Cardinality(Owers(m, i)) \in Nat
        <4>1. Owers(m, i) \in SUBSET (Reqs \ {r})
          BY CollectIs DEF Owers, Owes
        <4>2. IsFiniteSet(Reqs \ {r}) /\ Cardinality(Reqs \ {r}) = c - 1
          BY <1>2, RoutingAssumption, FS_RemoveElement
        <4>3. Cardinality(Owers(m, i)) <= Cardinality(Reqs \ {r})
          BY <4>1, <4>2, FS_Subset
        <4> QED
          BY <4>2, <4>3, OwersAre
      <3>4. /\ firsts[m][i] = load[m][i] + Cardinality(Owers(m, i))
            /\ firsts[m][j] = load[m][j] + Cardinality(Owers(m, j))
            /\ Cardinality(Owers(m, j)) \in Nat
        BY <1>1, OwersAre DEF Owing
      <3> QED
        BY <1>2, <1>3, <3>1, <3>2, <3>3, <3>4
    <2> QED
      BY <2>3, <2>4, <2>5
  <1>6. Skips(r) => firsts' = firsts
    BY DEF Skips
  <1>7. ASSUME NEW o, Takes(r, o), req[r].gone PROVE firsts' = firsts
    BY <1>7 DEF Takes
  <1> QED
    BY <1>2, <1>4, <1>5, <1>6, <1>7, CollectIs

\* Every step keeps least busy level.
LEMMA LevelKept == TypeOK /\ Owing /\ Level /\ [Next]_vars => Level'
  <1> SUFFICES ASSUME TypeOK, Owing, Level, [Next]_vars PROVE Level'
    OBVIOUS
  <1>1. ASSUME UNCHANGED <<strategy, snap, firsts, whole>> PROVE Level'
    BY <1>1 DEF Level
  <1>2. ASSUME NEW r \in Reqs, Collect(r) PROVE Level'
    BY <1>2, LevelCollect, CollectIs DEF Level
  <1>3. CASE Reload
    <2> SUFFICES ASSUME NEW m \in Names, NEW i \in DOMAIN snap'[m], NEW j \in DOMAIN snap'[m]
                 PROVE  firsts'[m][i] - firsts'[m][j] <= Cardinality(Reqs)
      BY <1>3, ReloadIs DEF Level
    <2>1. firsts'[m][i] = 0 /\ firsts'[m][j] = 0
      BY <1>3, ReloadIs, ZeroCounts
    <2>2. Cardinality(Reqs) \in Nat
      BY RoutingAssumption, FS_CardinalityType
    <2> QED
      BY <2>1, <2>2
  <1> QED
    BY <1>1, <1>2, <1>3
       DEF Next, ListModels, ReadGrants, Resolve, CountBusy, Route, Finish, Edit, vars

-----------------------------------------------------------------------------
(* Round robin.                                                            *)

\* Of the positions s lists, those before the pointer have come first once
\* more than those behind it: k visits were counted.
Lead(a, pointer) == IF a <= pointer THEN 1 ELSE 0
Balanced(s, f, k) ==
    \A a, b \in 1 .. Len(s) :
        f[s[a]] + Lead(b, k % Len(s)) = f[s[b]] + Lead(a, k % Len(s))

Rotating ==
    strategy = "round_robin" =>
        \A m \in whole : Balanced(Ascending(DOMAIN snap[m]), firsts[m], rr[m])

\* A quotient and a rest are the only ones.
LEMMA RestIs ==
    ASSUME NEW n \in Nat, n > 0, NEW x \in Nat, NEW u \in Nat, NEW v \in 0 .. (n - 1),
           x = n * u + v
    PROVE  x % n = v
  <1>1. x = n * (x \div n) + (x % n) /\ x \div n \in Nat /\ x % n \in 0 .. (n - 1)
    OBVIOUS
  <1>2. PICK w \in Nat, y \in 0 .. (n - 1) : x = n * w + y /\ y = x % n
    BY <1>1
  <1>3. PICK c \in Nat, d \in Nat : c = n * u /\ d = n * w
    OBVIOUS
  <1>4. x = c + v /\ x = d + y
    BY <1>2, <1>3
  <1>5. CASE w > u
    <2>1. PICK e \in Nat : w = u + e /\ e >= 1
      BY <1>5
    <2>2. n * w = n * u + n * e /\ n * e >= n
      BY <2>1
    <2>3. d >= c + n
      BY <1>3, <2>2
    <2> QED
      BY <1>4, <2>3
  <1>6. CASE w < u
    <2>1. PICK e \in Nat : u = w + e /\ e >= 1
      BY <1>6
    <2>2. n * u = n * w + n * e /\ n * e >= n
      BY <2>1
    <2>3. c >= d + n
      BY <1>3, <2>2
    <2> QED
      BY <1>4, <2>3
  <1>7. CASE w = u
    <2>1. c = d
      BY <1>3, <1>7
    <2>2. y = v
      BY <1>4, <2>1
    <2> QED
      BY <1>2, <2>2
  <1> QED
    BY <1>5, <1>6, <1>7

\* The next number of a rotation.
LEMMA NextRest ==
    ASSUME NEW n \in Nat, n > 0, NEW k \in Nat
    PROVE  /\ k % n \in 0 .. (n - 1)
           /\ k % n = n - 1 => (k + 1) % n = 0
           /\ k % n # n - 1 => (k + 1) % n = (k % n) + 1
  <1>1. PICK q \in Nat, r \in 0 .. (n - 1) : k = n * q + r /\ r = k % n
    <2>1. k = n * (k \div n) + (k % n) /\ k \div n \in Nat /\ k % n \in 0 .. (n - 1)
      OBVIOUS
    <2> QED
      BY <2>1
  <1>2. PICK x \in Nat : x = k + 1
    OBVIOUS
  <1>3. CASE r = n - 1
    <2>1. PICK u \in Nat, v \in 0 .. (n - 1) : u = q + 1 /\ v = 0
      OBVIOUS
    <2>2. n * u = n * q + n
      BY <2>1
    <2>3. x = n * u + v
      BY <1>1, <1>2, <1>3, <2>1, <2>2
    <2>4. x % n = v
      BY <2>3, RestIs
    <2> QED
      BY <1>1, <1>2, <1>3, <2>1, <2>4
  <1>4. CASE r # n - 1
    <2>1. PICK v \in 0 .. (n - 1) : v = r + 1
      BY <1>4
    <2>2. x = n * q + v
      <3>1. PICK z \in Nat : z = n * q
        OBVIOUS
      <3>2. k = z + r
        BY <1>1, <3>1
      <3>3. x = z + v
        BY <1>2, <2>1, <3>2
      <3> QED
        BY <3>1, <3>3
    <2>3. x % n = v
      BY <2>2, RestIs
    <2> QED
      BY <1>1, <1>2, <1>4, <2>1, <2>3
  <1> QED
    BY <1>3, <1>4

\* One visit more: the position at the pointer comes first.
LEMMA BalancedNext ==
    ASSUME NEW S, IsFiniteSet(S), S # {}, NEW s, Lists(s, S), NEW k \in Nat,
           NEW f, \A i \in S : f[i] \in Nat, Balanced(s, f, k),
           NEW g, \A i \in S : g[i] = f[i] + (IF i = s[(k % Len(s)) + 1] THEN 1 ELSE 0)
    PROVE  Balanced(s, g, k + 1)
  <1>1. PICK n \in Nat : n = Len(s) /\ n > 0 /\ n = Cardinality(S)
    <2>1. Len(s) = Cardinality(S) /\ Cardinality(S) \in Nat /\ Cardinality(S) # 0
      BY ListIs, FS_CardinalityType, FS_EmptySet
    <2> QED
      BY <2>1
  <1>2. PICK t \in 0 .. (n - 1), u \in Nat :
           /\ t = k % n /\ u = (k + 1) % n
           /\ t = n - 1 => u = 0
           /\ t # n - 1 => u = t + 1
    <2>1. /\ k % n \in 0 .. (n - 1)
          /\ k % n = n - 1 => (k + 1) % n = 0
          /\ k % n # n - 1 => (k + 1) % n = (k % n) + 1
      BY <1>1, NextRest
    <2>2. (k + 1) % n \in Nat
      BY <1>1
    <2> QED
      BY <2>1, <2>2
  <1>3. t + 1 \in 1 .. n
    BY <1>1
  <1>4. ASSUME NEW a \in 1 .. n
        PROVE  /\ s[a] \in S /\ f[s[a]] \in Nat
               /\ g[s[a]] = f[s[a]] + (IF a = t + 1 THEN 1 ELSE 0)
    <2>1. s[a] \in S /\ (s[a] = s[t + 1] <=> a = t + 1)
      BY <1>1, <1>3 DEF Lists
    <2> QED
      BY <1>1, <1>2, <2>1
  <1>5. ASSUME NEW a \in 1 .. n, NEW b \in 1 .. n
        PROVE  g[s[a]] + Lead(b, u) = g[s[b]] + Lead(a, u)
    <2>1. f[s[a]] + Lead(b, t) = f[s[b]] + Lead(a, t)
      BY <1>1, <1>2 DEF Balanced
    <2>2. PICK x \in Nat, y \in Nat : x = f[s[a]] /\ y = f[s[b]]
      BY <1>4
    <2>3. g[s[a]] = x + (IF a = t + 1 THEN 1 ELSE 0) /\ g[s[b]] = y + (IF b = t + 1 THEN 1 ELSE 0)
      BY <1>4, <2>2
    <2>4. x + (IF b <= t THEN 1 ELSE 0) = y + (IF a <= t THEN 1 ELSE 0)
      BY <2>1, <2>2 DEF Lead
    <2>5. CASE t = n - 1
      BY <1>1, <1>2, <2>3, <2>4, <2>5 DEF Lead
    <2>6. CASE t # n - 1
      BY <1>1, <1>2, <2>3, <2>4, <2>6 DEF Lead
    <2> QED
      BY <2>5, <2>6
  <1> QED
    BY <1>1, <1>2, <1>5 DEF Balanced

\* A new table is balanced.
LEMMA RotatingZero ==
    ASSUME NEW t \in Tables, NEW m \in Names, NEW f, \A i \in DOMAIN t[m] : f[i] = 0
    PROVE  Balanced(Ascending(DOMAIN t[m]), f, 0)
  <1> DEFINE S == DOMAIN t[m]
             s == Ascending(S)
  <1>1. S \in SUBSET Nat /\ IsFiniteSet(S)
    BY RowIs
  <1>2. \A i \in S : f[i] = 0
    OBVIOUS
  <1> HIDE DEF S
  <1>3. Lists(s, S)
    BY <1>1, AscendingLists
  <1> HIDE DEF s
  <1>4. Len(s) \in Nat /\ \A a \in 1 .. Len(s) : s[a] \in S
    BY <1>1, <1>3, ListIs, FS_CardinalityType DEF Lists
  <1>5. Balanced(s, f, 0)
    <2> SUFFICES ASSUME NEW a \in 1 .. Len(s), NEW b \in 1 .. Len(s)
                 PROVE  f[s[a]] + Lead(b, 0 % Len(s)) = f[s[b]] + Lead(a, 0 % Len(s))
      BY DEF Balanced
    <2>1. f[s[a]] = 0 /\ f[s[b]] = 0
      BY <1>2, <1>4
    <2>2. 0 % Len(s) = 0
      <3>1. PICK k \in Nat : k = Len(s) /\ k > 0
        BY <1>4
      <3>2. 0 = k * 0 + 0 /\ 0 \in 0 .. (k - 1)
        BY <3>1
      <3> QED
        BY <3>1, <3>2, RestIs
    <2> QED
      BY <1>4, <2>1, <2>2 DEF Lead
  <1> QED
    BY <1>5 DEF s, S


\* A model that is collected is counted once, at the pointer.
LEMMA RotatingCollect ==
    ASSUME TypeOK, Rotating, strategy = "round_robin", NEW r \in Reqs, Collect(r),
           NEW m \in whole'
    PROVE  Balanced(Ascending(DOMAIN snap[m]), firsts'[m], rr'[m])
  <1>1. m \in whole /\ m \in Names
    <2>1. whole' \subseteq whole
      BY CollectIs DEF Skips, Takes
    <2> QED
      BY <2>1 DEF TypeOK
  <1>2. Balanced(Ascending(DOMAIN snap[m]), firsts[m], rr[m])
    BY <1>1 DEF Rotating
  <1>3. CASE firsts'[m] = firsts[m] /\ rr'[m] = rr[m]
    BY <1>2, <1>3
  <1>4. ASSUME NEW o, Takes(r, o), ~req[r].gone
        PROVE  Balanced(Ascending(DOMAIN snap[m]), firsts'[m], rr'[m])
    <2>1. PICK n \in Names : n = Coming(r)
      BY CollectIs
    <2>2. /\ firsts' = [firsts EXCEPT ![n][o[1]] = @ + 1]
          /\ rr' = [rr EXCEPT ![n] = @ + 1]
      BY <1>4, <2>1 DEF Takes
    <2>3. /\ DOMAIN firsts = Names /\ firsts[m] \in [DOMAIN snap[m] -> Nat]
          /\ rr \in [Names -> Nat] /\ snap \in Tables
      BY <1>1 DEF TypeOK, Counts
    <2>4. CASE m # n
      BY <1>1, <1>2, <2>2, <2>3, <2>4
    <2>5. CASE m = n
      <3>1. PICK S \in SUBSET Nat : S = DOMAIN snap[m] /\ IsFiniteSet(S)
        BY <1>1, <2>3, RowIs
      <3>2. PICK s : s = Ascending(S)
        OBVIOUS
      <3>3. o \in order(s, m, req[r].gone) /\ o[1] \in S
        BY <1>4, <2>1, <2>5, <3>1, <3>2, WholeTaken
      <3>4. Lists(s, S) /\ S # {}
        BY <3>1, <3>2, <3>3, AscendingLists
      <3>5. PICK k \in Nat : k = rr[m]
        BY <1>1, <2>3
      <3>6. o[1] = s[(k % Len(s)) + 1]
        <4>1. o = Rotate(s, k)
          BY <1>4, <3>3, <3>5 DEF order
        <4>2. PICK l \in Nat : l = Len(s) /\ l > 0
          <5>1. Len(s) = Cardinality(S) /\ Cardinality(S) \in Nat /\ Cardinality(S) # 0
            BY <3>1, <3>4, ListIs, FS_CardinalityType, FS_EmptySet
          <5> QED
            BY <5>1
        <4>3. 1 \in 1 .. l /\ 1 - 1 + k = k
          BY <4>2
        <4>4. Rotate(s, k)[1] = s[((1 - 1 + k) % l) + 1]
          BY <4>2, <4>3 DEF Rotate
        <4> QED
          BY <4>1, <4>2, <4>3, <4>4
      <3>7. PICK f, g : f = firsts[m] /\ g = firsts'[m]
        OBVIOUS
      <3>8. g = [f EXCEPT ![o[1]] = @ + 1]
        BY <1>1, <2>2, <2>3, <2>5, <3>7
      <3>9. f \in [S -> Nat]
        BY <2>3, <3>1, <3>7
      <3>10. \A i \in S : g[i] = f[i] + (IF i = s[(k % Len(s)) + 1] THEN 1 ELSE 0)
        BY <3>3, <3>6, <3>8, <3>9
      <3>11. \A i \in S : f[i] \in Nat
        BY <3>9
      <3>12. Balanced(s, f, k)
        BY <1>2, <3>1, <3>2, <3>5, <3>7
      <3>13. Balanced(s, g, k + 1)
        BY <3>1, <3>4, <3>10, <3>11, <3>12, BalancedNext
      <3>14. rr'[m] = k + 1
        BY <1>1, <2>2, <2>3, <2>5, <3>5
      <3> QED
        BY <3>1, <3>2, <3>7, <3>13, <3>14
    <2> QED
      BY <2>4, <2>5
  <1>5. Skips(r) => firsts' = firsts /\ rr' = rr
    BY DEF Skips
  <1>6. ASSUME NEW o, Takes(r, o), req[r].gone PROVE firsts' = firsts /\ rr' = rr
    BY <1>6 DEF Takes
  <1> QED
    BY <1>3, <1>4, <1>5, <1>6, CollectIs

\* Every step keeps whole names balanced.
LEMMA RotatingKept == TypeOK /\ Rotating /\ [Next]_vars => Rotating'
  <1> SUFFICES ASSUME TypeOK, Rotating, [Next]_vars PROVE Rotating'
    OBVIOUS
  <1>1. ASSUME UNCHANGED <<strategy, snap, firsts, whole, rr>> PROVE Rotating'
    BY <1>1 DEF Rotating
  <1>2. ASSUME NEW r \in Reqs, Collect(r) PROVE Rotating'
    <2>1. strategy' = strategy /\ snap' = snap
      BY <1>2, CollectIs
    <2>2. ASSUME strategy = "round_robin", NEW m \in whole'
          PROVE  Balanced(Ascending(DOMAIN snap[m]), firsts'[m], rr'[m])
      BY <1>2, <2>2, RotatingCollect
    <2> QED
      BY <2>1, <2>2 DEF Rotating
  <1>3. CASE Reload
    <2>1. /\ snap' \in Tables /\ firsts' = Zero(snap') /\ whole' = Names
          /\ rr' = [m \in Names |-> 0]
      BY <1>3, ReloadIs
    <2>2. ASSUME NEW m \in Names PROVE Balanced(Ascending(DOMAIN snap'[m]), firsts'[m], rr'[m])
      <3>1. rr'[m] = 0 /\ \A i \in DOMAIN snap'[m] : firsts'[m][i] = 0
        BY <2>1, ZeroCounts
      <3> QED
        BY <2>1, <3>1, RotatingZero
    <2> QED
      BY <2>1, <2>2 DEF Rotating
  <1> QED
    BY <1>1, <1>2, <1>3
       DEF Next, ListModels, ReadGrants, Resolve, CountBusy, Route, Finish, Edit, vars

-----------------------------------------------------------------------------
(* The invariant and what follows from it.                                 *)

RoutingInv == TypeOK /\ Granting /\ Collecting /\ Showing /\ Owing /\ Level /\ Rotating

\* The invariant holds at the start.
LEMMA InvInit == Init => RoutingInv
  <1> SUFFICES ASSUME Init PROVE RoutingInv
    OBVIOUS
  <1>1. TypeOK
    BY InitTyped
  <1>2. \A r \in Reqs : req[r].pc = "idle"
    BY IdleIs DEF Init
  <1>3. Granting /\ Collecting /\ Showing
    BY <1>2 DEF Granting, Collecting, Showing, Init
  <1>4. /\ snap \in Tables /\ load = Zero(snap) /\ firsts = Zero(snap) /\ whole = Names
        /\ rr = [n \in Names |-> 0]
    BY DEF Init
  <1>5. Owing
    BY <1>1, <1>2, <1>4, OwingZero DEF Owes
  <1>6. Level
    <2> SUFFICES ASSUME NEW m \in Names, NEW i \in DOMAIN snap[m], NEW j \in DOMAIN snap[m]
                 PROVE  firsts[m][i] - firsts[m][j] <= Cardinality(Reqs)
      BY <1>4 DEF Level
    <2>1. firsts[m][i] = 0 /\ firsts[m][j] = 0
      BY <1>4, ZeroCounts
    <2>2. Cardinality(Reqs) \in Nat
      BY RoutingAssumption, FS_CardinalityType
    <2> QED
      BY <2>1, <2>2
  <1>7. Rotating
    <2>1. ASSUME NEW m \in Names PROVE Balanced(Ascending(DOMAIN snap[m]), firsts[m], rr[m])
      <3>1. rr[m] = 0 /\ \A i \in DOMAIN snap[m] : firsts[m][i] = 0
        BY <1>4, ZeroCounts
      <3> QED
        BY <1>4, <3>1, RotatingZero
    <2> QED
      BY <1>4, <2>1 DEF Rotating
  <1> QED
    BY <1>1, <1>3, <1>5, <1>6, <1>7 DEF RoutingInv

\* Every step keeps it.
LEMMA InvNext == RoutingInv /\ [Next]_vars => RoutingInv'
  BY NextTyped, GrantingKept, CollectingKept, ShowingKept, OwingKept, LevelKept, RotatingKept
     DEF RoutingInv

\* It says of whole names what RotationIsEven does.
LEMMA EvenFromInv == RoutingInv => RotationIsEven
  <1> SUFFICES ASSUME RoutingInv, NEW n \in whole, NEW i \in DOMAIN firsts[n],
                      NEW j \in DOMAIN firsts[n]
               PROVE  /\ strategy = "round_robin" => firsts[n][i] - firsts[n][j] <= 1
                      /\ strategy = "least_busy" =>
                            firsts[n][i] - firsts[n][j] <= Cardinality(Reqs)
    BY DEF RotationIsEven
  <1>1. TypeOK /\ Level /\ Rotating
    BY DEF RoutingInv
  <1>2. n \in Names /\ snap \in Tables /\ DOMAIN firsts[n] = DOMAIN snap[n]
    BY <1>1 DEF TypeOK, Counts
  <1>3. ASSUME strategy = "round_robin" PROVE firsts[n][i] - firsts[n][j] <= 1
    <2> DEFINE S == DOMAIN snap[n]
               s == Ascending(S)
    <2>1. S \in SUBSET Nat /\ IsFiniteSet(S)
      BY <1>2, RowIs
    <2>2. i \in S /\ j \in S /\ Balanced(s, firsts[n], rr[n])
      BY <1>1, <1>2, <1>3 DEF Rotating
    <2> HIDE DEF S
    <2>3. Lists(s, S)
      BY <2>1, AscendingLists
    <2> HIDE DEF s
    <2>4. Len(s) = Cardinality(S)
      BY <2>1, <2>3, ListIs
    <2>5. PICK a \in 1 .. Len(s), b \in 1 .. Len(s) : s[a] = i /\ s[b] = j
      BY <2>2, <2>3, <2>4 DEF Lists
    <2>6. firsts[n][i] + Lead(b, rr[n] % Len(s)) = firsts[n][j] + Lead(a, rr[n] % Len(s))
      BY <2>2, <2>5 DEF Balanced
    <2>7. PICK x \in {0, 1}, y \in {0, 1} :
             x = Lead(a, rr[n] % Len(s)) /\ y = Lead(b, rr[n] % Len(s))
      BY DEF Lead
    <2>8. firsts[n][i] \in Nat /\ firsts[n][j] \in Nat
      BY <1>1, <1>2 DEF TypeOK, Counts
    <2> QED
      BY <2>6, <2>7, <2>8
  <1>4. ASSUME strategy = "least_busy" PROVE firsts[n][i] - firsts[n][j] <= Cardinality(Reqs)
    BY <1>1, <1>2, <1>4 DEF Level
  <1> QED
    BY <1>3, <1>4

\* The invariant the results below rest on.
THEOREM RoutingInvariant == Spec => []RoutingInv
  BY InvInit, InvNext, PTL DEF Spec

\* Every state is a state of the types: the tables, the counts and the
\* requests stay what reload, collect and the handlers make of them.
THEOREM TypesHold == Spec => []TypeOK
  <1>1. RoutingInv => TypeOK
    BY DEF RoutingInv
  <1> QED
    BY <1>1, RoutingInvariant, PTL

\* For every table, policy, chain of fallbacks and number of requests, and
\* whatever edits, reloads and other requests come between a list and its use:
\* under the same access, and while the name's deployments are those discovery
\* read, a name in the list is served by one of them, and a name one of them
\* serves was in the list if the database had answered (listed_models against
\* collect and filter_access).
THEOREM ListedIsServedHolds == Spec => ListedIsServed
  <1>1. RoutingInv /\ [Next]_vars =>
           [\A r \in Reqs : Routed(r) /\ shown[r] # Unasked =>
               LET n == req[r].want
                   list == shown[r]
                   own == ToSet(req[r].table[n]) \cap ToSet(req'[r].candidates)
               IN
               list.access = req[r].access /\ list.table[n] = req[r].table[n] =>
                  /\ n \in list.names => own # {}
                  /\ list.answered /\ own # {} => n \in list.names]_vars
    BY ListedStep DEF RoutingInv
  <1> QED
    BY <1>1, RoutingInvariant, PTL DEF Spec, ListedIsServed

\* For every chain of fallbacks, strategy and pair of policies, and however
\* other requests and reloads interleave with it: what collect and
\* filter_access leave of the table that resolve took is what both the key and
\* the team permit of it, all of it and each deployment once, if their
\* allow-lists meet and the team could be read.
THEOREM GrantDecidesHolds == Spec => GrantDecides
  <1>1. RoutingInv /\ [Next]_vars =>
           [\A r \in Reqs : Routed(r) /\ ~req[r].failed /\ ~Disjoint(req[r].key, req[r].team) =>
               LET out == req'[r].candidates IN
               /\ ToSet(out) = Granted(req[r].table, req[r].key, req[r].team, req[r].want)
               /\ Len(out) = Cardinality(ToSet(out))]_vars
    BY GrantDecidesStep DEF RoutingInv
  <1> QED
    BY <1>1, RoutingInvariant, PTL DEF Spec, GrantDecides

\* For every number of requests and every chain: round robin never puts one
\* deployment first twice more than another, and least busy not more often than
\* there are requests, each of which may be between reading the loads and
\* adding to one (order).
THEOREM RotationIsEvenHolds == Spec => []RotationIsEven
  BY EvenFromInv, RoutingInvariant, PTL

-----------------------------------------------------------------------------
(* Sorting the rows.                                                       *)

\* The numbers that a permutation of 1 .. n gives to places sort them: the
\* rank of a place is its number.
LEMMA RankIsNumber ==
    ASSUME NEW n \in Nat, NEW o \in Bijection(1 .. n, 1 .. n), NEW rows,
           DOMAIN rows = 1 .. n, \A i \in 1 .. n : rows[i].index = o[i],
           NEW i \in 1 .. n
    PROVE  Rank(rows, i) = o[i]
  <1> DEFINE before == {j \in 1 .. n : o[j] < o[i]}
             f == [j \in before |-> o[j]]
  <1>1. /\ o \in [1 .. n -> 1 .. n]
        /\ \A a, b \in 1 .. n : o[a] = o[b] => a = b
        /\ \A k \in 1 .. n : \E j \in 1 .. n : o[j] = k
    BY DEF Bijection, Injection, IsInjective, Surjection
  <1>2. o[i] \in 1 .. n /\ o[i] - 1 \in Nat
    BY <1>1
  <1>3. ASSUME NEW j \in 1 .. n PROVE Key(rows, j) = o[j]
    <2>1. o[j] \in 1 .. n /\ rows[j].index = o[j]
      BY <1>1
    <2>2. o[j] # 0
      BY <2>1
    <2> QED
      BY <2>1, <2>2 DEF Key
  <1>4. {j \in DOMAIN rows : \/ Key(rows, j) < Key(rows, i)
                             \/ Key(rows, j) = Key(rows, i) /\ j < i} = before
    BY <1>1, <1>3
  <1>5. f \in Bijection(before, 1 .. o[i] - 1)
    <2>1. f \in [before -> 1 .. o[i] - 1]
      <3>1. ASSUME NEW j \in before PROVE o[j] \in 1 .. o[i] - 1
        <4>1. o[j] \in 1 .. n /\ o[j] < o[i]
          BY <1>1
        <4> QED
          BY <4>1, <1>2
      <3> QED
        BY <3>1
    <2>2. \A a, b \in before : f[a] = f[b] => a = b
      BY <1>1
    <2>3. ASSUME NEW k \in 1 .. o[i] - 1 PROVE \E j \in before : f[j] = k
      <3>1. k \in 1 .. n /\ k < o[i]
        BY <1>2
      <3>2. PICK j \in 1 .. n : o[j] = k
        BY <1>1, <3>1
      <3>3. j \in before /\ f[j] = k
        BY <3>1, <3>2
      <3> QED
        BY <3>3
    <2> QED
      BY <2>1, <2>2, <2>3 DEF Bijection, Injection, IsInjective, Surjection
  <1>6. IsFiniteSet(before) /\ IsFiniteSet(1 .. o[i] - 1)
    <2>1. 1 \in Int /\ n \in Int /\ o[i] - 1 \in Int
      BY <1>2
    <2>2. IsFiniteSet(1 .. n) /\ IsFiniteSet(1 .. o[i] - 1)
      BY <2>1, FS_Interval
    <2>3. before \subseteq 1 .. n
      OBVIOUS
    <2> QED
      BY <2>2, <2>3, FS_Subset
  <1>7. Cardinality(before) = Cardinality(1 .. o[i] - 1)
    BY <1>5, <1>6, FS_Bijection DEF ExistsBijection
  <1>8. Cardinality(1 .. o[i] - 1) = o[i] - 1
    BY <1>2, FS_Interval
  <1>9. Rank(rows, i) = 1 + Cardinality(before)
    BY <1>4, Zenon DEF Rank
  <1> HIDE DEF before
  <1> QED
    BY <1>2, <1>7, <1>8, <1>9

\* Rows numbered by a permutation come back in the order of their numbers.
LEMMA SortedByNumber ==
    ASSUME NEW n \in Nat, NEW o \in Bijection(1 .. n, 1 .. n), NEW rows,
           DOMAIN rows = 1 .. n, \A i \in 1 .. n : rows[i].index = o[i],
           NEW vs, \A i \in 1 .. n : rows[i].vector = vs[o[i]]
    PROVE  SortedRows(rows) = [k \in 1 .. n |-> vs[k]]
  <1>1. /\ o \in [1 .. n -> 1 .. n]
        /\ \A k \in 1 .. n : \E j \in 1 .. n : o[j] = k
    BY DEF Bijection, Injection, IsInjective, Surjection
  <1>2. \A i \in 1 .. n : Rank(rows, i) = o[i]
    BY RankIsNumber
  <1>3. ASSUME NEW k \in 1 .. n
        PROVE  rows[CHOOSE i \in DOMAIN rows : Rank(rows, i) = k].vector = vs[k]
    <2>1. PICK i : i = CHOOSE j \in DOMAIN rows : Rank(rows, j) = k
      OBVIOUS
    <2>2. \E j \in DOMAIN rows : Rank(rows, j) = k
      <3>1. PICK j \in 1 .. n : o[j] = k
        BY <1>1
      <3>2. j \in DOMAIN rows /\ Rank(rows, j) = k
        BY <1>2, <3>1
      <3> QED
        BY <3>2
    <2>3. i \in 1 .. n /\ o[i] = k
      BY <2>1, <2>2, <1>2
    <2> QED
      BY <2>1, <2>3
  <1> QED
    BY <1>3 DEF SortedRows

\* A function on 1 .. n is a sequence of length n.
LEMMA LengthOfList ==
    ASSUME NEW n \in Nat, NEW f, f = [i \in 1 .. n |-> f[i]]
    PROVE  Len(f) = n
  <1>1. f \in [1 .. n -> {f[i] : i \in 1 .. n}]
    OBVIOUS
  <1>2. f \in Seq({f[i] : i \in 1 .. n})
    BY <1>1
  <1> QED
    BY <1>1, <1>2

-----------------------------------------------------------------------------
(* The request keeps what the body says.                                   *)

\* The items of what a client sends are a list.
LEMMA SeveralAreListed ==
    ASSUME NEW S, NEW items \in Several(S)
    PROVE  \E m \in Nat : m = Len(items) /\ DOMAIN items = 1 .. m /\ items \in [1 .. m -> S]
  <1>1. PICK m \in 0 .. MaxInputs : items \in [1 .. m -> S]
    BY DEF Several, BoundedSeq, SeqOf
  <1>2. m \in Nat /\ items = [i \in 1 .. m |-> items[i]]
    BY <1>1, EmbeddingsAssumption
  <1>3. Len(items) = m
    BY <1>2, LengthOfList
  <1> QED
    BY <1>1, <1>2, <1>3

LEMMA BodyIsListed ==
    ASSUME client \in Clients, body \in Bodies(client)
    PROVE  Len(body.items) \in Nat /\ DOMAIN body.items = 1 .. Len(body.items)
  <1>1. \E S : body.items \in Several(S)
    <2>1. CASE client = "openai"
      BY <2>1 DEF Bodies
    <2>2. CASE client = "gemini"
      BY <2>2 DEF Bodies
    <2>3. CASE client = "cohere"
      BY <2>3 DEF Bodies
    <2>4. CASE client = "voyage"
      BY <2>4 DEF Bodies
    <2> QED
      BY <2>1, <2>2, <2>3, <2>4 DEF Clients
  <1> QED
    BY <1>1, SeveralAreListed

\* The words of each dialect are understood.
LEMMA GeminiWords ==
    ASSUME NEW t \in TaskTypes
    PROVE  gemini_to_input_type(t) = Meant(t)
  BY EmbeddingsAssumption DEF GeminiTaskTypes, gemini_to_input_type, Meant, None

\* The first of a list whose elements are all the same is the first element.
LEMMA FirstOfUniform ==
    ASSUME NEW n \in Nat \ {0}, NEW s, DOMAIN s = 1 .. n, \A i \in 1 .. n : s[i] = s[1]
    PROVE  FirstOf(s) = s[1]
  <1> DEFINE named == {i \in DOMAIN s : s[i] # None}
  <1>1. CASE s[1] = None
    <2>1. named = {}
      BY <1>1
    <2> QED
      BY <1>1, <2>1 DEF FirstOf
  <1>2. CASE s[1] # None
    <2>1. named = 1 .. n /\ 1 \in named
      BY <1>2
    <2>2. Min(named) \in named
      <3>1. \E x \in named : \A y \in named : x =< y
        BY <2>1
      <3> QED
        BY <3>1 DEF Min
    <2>3. named # {} /\ FirstOf(s) = s[Min(named)]
      BY <2>1 DEF FirstOf
    <2> QED
      BY <2>1, <2>2, <2>3
  <1> QED
    BY <1>1, <1>2

\* The encodings a request asks for.
Asked(c, r) ==
    CASE c = "gemini" -> {"float"}
      [] c = "cohere" -> IF r.embedding_types = {} THEN {"float"} ELSE UNION r.embedding_types
      [] OTHER        -> {Encoding(r)}

\* What the request holds of the body.
Understood(r) ==
    /\ Len(body.items) \in Nat \ {0}
    /\ r.inputs = Contents(body.items)
    /\ (client = "gemini" => Uniform(GeminiTask)) => r.input_type = Task
    /\ (client = "gemini" => Uniform(GeminiDimensions)) => r.output_dimensions = Dimensions
    /\ r.truncate = MayTruncate
    /\ Asked(client, r) = Encodings

LEMMA ParseUnderstands ==
    ASSUME client \in Clients, body \in Bodies(client), NEW r \in parse_embed_request(client, body)
    PROVE  Understood(r)
  <1>1. Len(body.items) \in Nat /\ DOMAIN body.items = 1 .. Len(body.items)
    BY BodyIsListed
  <1>2. body.items # <<>> => Len(body.items) # 0
    BY <1>1
  <1>3. CASE client = "openai"
    <2>1. r \in ParseOpenAI(body) /\ body.items # <<>>
      BY <1>3 DEF parse_embed_request, ParseOpenAI
    <2>2. /\ r.inputs = Contents(body.items)
          /\ r.input_type = None
          /\ r.output_dimensions = body.dimensions
          /\ r.truncate = None
          /\ r.encoding_format = body.encoding_format
      BY <2>1 DEF ParseOpenAI, EmbedRequest
    <2> QED
      BY <1>1, <1>2, <1>3, <2>1, <2>2
         DEF Understood, Task, Dimensions, MayTruncate, Asked, Encodings, Encoding
  <1>4. CASE client = "gemini"
    <2>1. r \in ParseGemini(body) /\ body.items # <<>>
      BY <1>4 DEF parse_embed_request, ParseGemini
    <2> DEFINE tasks == [i \in DOMAIN body.items |-> gemini_to_input_type(body.items[i].taskType)]
               dims == [i \in DOMAIN body.items |-> body.items[i].dimensions]
               n == Len(body.items)
    <2>2. /\ r.inputs = Contents(body.items)
          /\ r.input_type = FirstOf(tasks)
          /\ r.output_dimensions = FirstOf(dims)
          /\ r.truncate = None
      BY <2>1 DEF ParseGemini, EmbedRequest
    <2>3. n \in Nat \ {0} /\ 1 \in 1 .. n /\ DOMAIN tasks = 1 .. n /\ DOMAIN dims = 1 .. n
      BY <1>1, <1>2, <2>1
    <2>4. ASSUME Uniform(GeminiDimensions) PROVE r.output_dimensions = Dimensions
      <3>1. \A i \in 1 .. n : dims[i] = dims[1]
        BY <2>3, <2>4, <1>1 DEF Uniform, GeminiDimensions
      <3>2. FirstOf(dims) = dims[1]
        BY <2>3, <3>1, FirstOfUniform
      <3> QED
        BY <2>2, <2>3, <3>2, <1>4, <1>1 DEF Dimensions
    <2>5. ASSUME NEW i \in 1 .. n PROVE tasks[i] = GeminiTask(body.items[i])
      <3>1. body.items[i].taskType \in TaskTypes
        <4>1. body.items \in Several(GeminiItems)
          BY <1>4 DEF Bodies
        <4>2. body.items[i] \in GeminiItems
          BY <4>1, SeveralAreListed
        <4> QED
          BY <4>2 DEF GeminiItems
      <3> QED
        BY <3>1, <1>1, GeminiWords DEF GeminiTask
    <2>6. ASSUME Uniform(GeminiTask) PROVE r.input_type = Task
      <3>1. \A i \in 1 .. n : tasks[i] = tasks[1]
        BY <2>3, <2>5, <2>6, <1>1 DEF Uniform
      <3>2. FirstOf(tasks) = tasks[1]
        BY <2>3, <3>1, FirstOfUniform
      <3> QED
        BY <2>2, <2>3, <2>5, <3>2, <1>4 DEF Task
    <2>7. r.truncate = MayTruncate /\ Asked(client, r) = Encodings
      BY <2>2, <1>4 DEF MayTruncate, Asked, Encodings
    <2> QED
      BY <1>4, <2>2, <2>3, <2>4, <2>6, <2>7 DEF Understood
  <1>5. CASE client = "cohere"
    <2>1. r \in ParseCohere(body) /\ body.items # <<>>
      BY <1>5 DEF parse_embed_request, ParseCohere
    <2>2. /\ r.inputs = Contents(body.items)
          /\ r.input_type = cohere_to_input_type(body.input_type)
          /\ r.output_dimensions = body.output_dimension
          /\ r.truncate = Truncation(body.truncate)
          /\ r.embedding_types = body.embedding_types
      BY <2>1 DEF ParseCohere, EmbedRequest
    <2>3. body.input_type \in {None, "search_query", "search_document",
                               "classification", "clustering", "image"}
      BY <1>5 DEF Bodies
    <2>4. cohere_to_input_type(body.input_type) = Meant(body.input_type)
      BY <2>3 DEF cohere_to_input_type, Meant, None
    <2> QED
      BY <1>1, <1>2, <1>5, <2>1, <2>2, <2>4
         DEF Understood, Task, Dimensions, MayTruncate, Asked, Encodings
  <1>6. CASE client = "voyage"
    <2>1. r \in ParseVoyage(body) /\ body.items # <<>>
      BY <1>6 DEF parse_embed_request, ParseVoyage
    <2>2. /\ r.inputs = Contents(body.items)
          /\ r.input_type = VoyageTask(body.input_type)
          /\ r.output_dimensions = None
          /\ r.truncate = body.truncation
          /\ r.encoding_format = IF body.encoding_format = "base64" THEN "base64" ELSE None
      BY <2>1 DEF ParseVoyage, EmbedRequest
    <2>3. body.input_type \in {None, "query", "document"}
      BY <1>6 DEF Bodies
    <2>4. VoyageTask(body.input_type) = Meant(body.input_type)
      BY <2>3 DEF VoyageTask, Meant, None
    <2> QED
      BY <1>1, <1>2, <1>6, <2>1, <2>2, <2>4
         DEF Understood, Task, Dimensions, MayTruncate, Asked, Encodings, Encoding, None
  <1> QED
    BY <1>3, <1>4, <1>5, <1>6 DEF Clients

-----------------------------------------------------------------------------
(* What the upstream is sent keeps what the request says.                  *)

\* What is sent to an upstream of dialect u, of the request r.
Told(u, r, s) ==
    /\ DOMAIN s.items = DOMAIN r.inputs
    /\ \A i \in DOMAIN r.inputs : s.items[i].parts = r.inputs[i]
    /\ s.task = CASE u = "gemini" -> input_type_to_gemini(r.input_type)
                  [] u = "cohere" -> input_type_to_cohere(r.input_type)
                  [] u = "voyage" -> VoyageTask(r.input_type)
                  [] OTHER        -> None
    /\ u # "voyage" => s.dimensions = r.output_dimensions
    /\ u \in {"voyage", "ollama"} => s.truncate = r.truncate
    /\ u = "cohere" => (s.truncate = "NONE" <=> r.truncate = "no")

LEMMA EmitTells ==
    ASSUME NEW u \in Upstreams, NEW r, NEW s \in emit_embed_request(u, r)
    PROVE  Told(u, r, s)
  <1>1. CASE u = "openai"
    BY <1>1 DEF emit_embed_request, EmitOpenAI, Items, Body, Told
  <1>2. CASE u = "gemini"
    BY <1>2 DEF emit_embed_request, EmitGemini, Items, Body, Told
  <1>3. CASE u = "cohere"
    BY <1>3 DEF emit_embed_request, EmitCohere, Items, Body, Told, None
  <1>4. CASE u = "voyage"
    BY <1>4 DEF emit_embed_request, EmitVoyage, Items, Body, Told
  <1>5. CASE u = "ollama"
    BY <1>5 DEF emit_embed_request, EmitOllama, Items, Body, Told
  <1> QED
    BY <1>1, <1>2, <1>3, <1>4, <1>5 DEF Upstreams, Clients

-----------------------------------------------------------------------------
(* The vectors come back at the places of their items.                     *)

LEMMA ReplyIsRead ==
    ASSUME NEW n \in Nat, DOMAIN sent.items = 1 .. n, Head(left) \in Upstreams,
           NEW rows \in Replies
    PROVE  parse_embed_response(Head(left), rows) = [k \in 1 .. n |-> Vector(k)]
  <1>1. ASSUME DOMAIN rows = 1 .. n, \A i \in 1 .. n : rows[i].index = 0 /\ rows[i].vector = Vector(i)
        PROVE  /\ InOrder(rows) = [k \in 1 .. n |-> Vector(k)]
               /\ SortedRows(rows) = [k \in 1 .. n |-> Vector(k)]
    <2>1. InOrder(rows) = [k \in 1 .. n |-> Vector(k)]
      BY <1>1 DEF InOrder
    <2> DEFINE o == [i \in 1 .. n |-> i]
    <2>2. o \in Bijection(1 .. n, 1 .. n)
      BY DEF Bijection, Injection, IsInjective, Surjection
    <2>3. \A i \in 1 .. n : Key(rows, i) = i
      BY <1>1 DEF Key
    <2>4. PICK even : even = [i \in 1 .. n |-> Row(i, "float", Vector(i))]
      OBVIOUS
    <2>5. /\ DOMAIN even = 1 .. n
          /\ \A i \in 1 .. n : even[i].index = o[i] /\ even[i].vector = Vector(o[i])
      BY <2>4 DEF Row
    <2>6. \A i \in 1 .. n : Key(even, i) = i
      BY <2>5 DEF Key
    <2>7. \A i \in 1 .. n : Rank(rows, i) = i
      <3>1. ASSUME NEW i \in 1 .. n PROVE Rank(rows, i) = i
        <4>1. Rank(even, i) = o[i]
          BY <2>2, <2>5, RankIsNumber
        <4>2. {j \in DOMAIN rows : \/ Key(rows, j) < Key(rows, i)
                                   \/ Key(rows, j) = Key(rows, i) /\ j < i}
                = {j \in DOMAIN even : \/ Key(even, j) < Key(even, i)
                                       \/ Key(even, j) = Key(even, i) /\ j < i}
          BY <1>1, <2>3, <2>5, <2>6
        <4> QED
          BY <4>1, <4>2, Zenon DEF Rank
      <3> QED
        BY <3>1
    <2>8. ASSUME NEW k \in 1 .. n
          PROVE  rows[CHOOSE i \in DOMAIN rows : Rank(rows, i) = k].vector = Vector(k)
      <3>1. (CHOOSE i \in DOMAIN rows : Rank(rows, i) = k) = k
        BY <1>1, <2>7
      <3> QED
        BY <1>1, <3>1
    <2>9. SortedRows(rows) = [k \in 1 .. n |-> Vector(k)]
      BY <1>1, <2>8 DEF SortedRows
    <2> QED
      BY <2>1, <2>9
  <1>2. CASE rows = [i \in 1 .. n |-> Row(0, "float", Vector(i))]
    <2>1. /\ DOMAIN rows = 1 .. n
          /\ \A i \in 1 .. n : rows[i].index = 0 /\ rows[i].vector = Vector(i)
      BY <1>2 DEF Row
    <2> QED
      BY <1>1, <2>1 DEF parse_embed_response, ParseOpenAIResponse, ParseGeminiResponse,
         ParseCohereResponse, ParseVoyageResponse, ParseOllamaResponse, Upstreams, Clients
  <1>3. CASE /\ Head(left) \in Indexed
             /\ \E o \in Bijection(1 .. n, 1 .. n), e \in {"float", "base64"} :
                   rows = [i \in 1 .. n |-> Row(o[i], e, Vector(o[i]))]
    <2>1. PICK o \in Bijection(1 .. n, 1 .. n), e \in {"float", "base64"} :
             rows = [i \in 1 .. n |-> Row(o[i], e, Vector(o[i]))]
      BY <1>3
    <2>2. /\ DOMAIN rows = 1 .. n
          /\ \A i \in 1 .. n : rows[i].index = o[i] /\ rows[i].vector = Vector(o[i])
      BY <2>1 DEF Row
    <2>3. PICK vs : vs = [k \in 1 .. n |-> Vector(k)]
      OBVIOUS
    <2>4. o \in [1 .. n -> 1 .. n]
      BY DEF Bijection, Injection
    <2>5. \A i \in 1 .. n : rows[i].vector = vs[o[i]]
      BY <2>2, <2>3, <2>4
    <2>6. SortedRows(rows) = [k \in 1 .. n |-> vs[k]]
      BY <2>2, <2>5, SortedByNumber
    <2>7. SortedRows(rows) = vs
      BY <2>3, <2>6
    <2> QED
      BY <1>3, <2>3, <2>7 DEF Indexed, parse_embed_response, ParseOpenAIResponse, ParseVoyageResponse
  <1>4. \/ rows = [i \in 1 .. n |-> Row(0, "float", Vector(i))]
        \/ /\ Head(left) \in Indexed
           /\ \E o \in Bijection(1 .. n, 1 .. n), e \in {"float", "base64"} :
                 rows = [i \in 1 .. n |-> Row(o[i], e, Vector(o[i]))]
    BY DEF Replies
  <1> QED
    BY <1>2, <1>3, <1>4

\* The answer lists them in every encoding that was asked for.
VectorsListed(out, c, r, n, vs) ==
    /\ {rows[1].encoding : rows \in out} = Asked(c, r)
    /\ \A rows \in out : /\ Len(rows) = n /\ DOMAIN rows = 1 .. n
                         /\ \A i \in 1 .. n : rows[i].index = i /\ rows[i].vector = vs[i]

LEMMA AnswerLists ==
    ASSUME NEW c \in Clients, NEW r, NEW n \in Nat \ {0}, NEW vs, DOMAIN vs = 1 .. n,
           NEW out, out = emit_embed_response(c, vs, r), out # {}
    PROVE  VectorsListed(out, c, r, n, vs)
  <1> USE DEF VectorsListed
  <1>1. 1 \in 1 .. n
    OBVIOUS
  <1>2. ASSUME NEW e
        PROVE  /\ Rows(vs, e)[1].encoding = e
               /\ Len(Rows(vs, e)) = n /\ DOMAIN Rows(vs, e) = 1 .. n
               /\ \A i \in 1 .. n : Rows(vs, e)[i].index = i /\ Rows(vs, e)[i].vector = vs[i]
    <2>1. Rows(vs, e) = [i \in 1 .. n |-> Row(i, e, vs[i])]
      BY DEF Rows
    <2>2. PICK rows : rows = Rows(vs, e)
      OBVIOUS
    <2>3. DOMAIN rows = 1 .. n /\ rows = [i \in 1 .. n |-> rows[i]]
      BY <2>1, <2>2
    <2>4. Len(rows) = n
      BY <2>3, LengthOfList
    <2> QED
      BY <2>1, <2>2, <2>3, <2>4, <1>1 DEF Row
  <1>3. out = {Rows(vs, e) : e \in Asked(c, r)}
    <2>1. CASE c = "openai"
      BY <2>1 DEF emit_embed_response, EmitOpenAIResponse, Asked
    <2>2. CASE c = "gemini"
      BY <2>2 DEF emit_embed_response, EmitGeminiResponse, Asked
    <2>3. CASE c = "cohere"
      BY <2>3 DEF emit_embed_response, EmitCohereResponse, Asked
    <2>4. CASE c = "voyage"
      BY <2>4 DEF emit_embed_response, EmitVoyageResponse, Asked
    <2> QED
      BY <2>1, <2>2, <2>3, <2>4 DEF Clients
  <1>4. {rows[1].encoding : rows \in out} = Asked(c, r)
    <2>1. \A e : Rows(vs, e)[1].encoding = e
      BY <1>2
    <2> QED
      BY <1>3, <2>1
  <1>5. ASSUME NEW rows \in out
        PROVE  /\ Len(rows) = n /\ DOMAIN rows = 1 .. n
               /\ \A i \in 1 .. n : rows[i].index = i /\ rows[i].vector = vs[i]
    <2>1. PICK e : rows = Rows(vs, e)
      BY <1>3
    <2> QED
      BY <1>2, <2>1
  <1> QED
    BY <1>4, <1>5

-----------------------------------------------------------------------------
(* The turn.                                                               *)

\* The request is the body's, and what the current upstream was sent is the
\* request's.
EmbedIInv ==
    /\ EmbedTypeOK
    /\ client \in Clients /\ body \in Bodies(client)
    /\ left \in Seq(Upstreams \cup {"chat"})
    /\ pc \in {"ask", "wait", "answered"} => request \in parse_embed_request(client, body)
    /\ pc \in {"wait", "answered"} =>
          left # <<>> /\ Head(left) \in Upstreams /\ sent \in emit_embed_request(Head(left), request)

LEMMA InitEmbedIInv == EmbedInit => EmbedIInv
  BY EmbeddingsAssumption DEF EmbedInit, EmbedIInv, EmbedTypeOK, None

\* A parsed request has the fields of one.
LEMMA ParsedHasFields ==
    ASSUME NEW c \in Clients, NEW b, NEW r \in parse_embed_request(c, b)
    PROVE  DOMAIN r = DOMAIN EmbedRequest
  <1>1. CASE c = "openai"
    BY <1>1 DEF parse_embed_request, ParseOpenAI, EmbedRequest
  <1>2. CASE c = "gemini"
    BY <1>2 DEF parse_embed_request, ParseGemini, EmbedRequest
  <1>3. CASE c = "cohere"
    BY <1>3 DEF parse_embed_request, ParseCohere, EmbedRequest
  <1>4. CASE c = "voyage"
    BY <1>4 DEF parse_embed_request, ParseVoyage, EmbedRequest
  <1> QED
    BY <1>1, <1>2, <1>3, <1>4 DEF Clients

LEMMA NextEmbedIInv == EmbedIInv /\ [EmbedNext]_embedVars => EmbedIInv'
  <1> SUFFICES ASSUME EmbedIInv, [EmbedNext]_embedVars PROVE EmbedIInv'
    OBVIOUS
  <1>1. CASE Parse
    <2>1. CASE parse_embed_request(client, body) = {} /\ pc' = "bad request" /\ UNCHANGED request
      BY <1>1, <2>1 DEF Parse, EmbedIInv, EmbedTypeOK
    <2>2. CASE request' \in parse_embed_request(client, body) /\ pc' = "ask"
      <3>1. DOMAIN request' = DOMAIN EmbedRequest
        BY <2>2, ParsedHasFields DEF EmbedIInv
      <3> QED
        BY <1>1, <2>2, <3>1 DEF Parse, EmbedIInv, EmbedTypeOK
    <2> QED
      BY <1>1, <2>1, <2>2 DEF Parse
  <1>2. CASE Skip
    <2>1. CASE left = <<>>
      BY <1>2, <2>1 DEF Skip, EmbedIInv, EmbedTypeOK
    <2>2. CASE left # <<>>
      <3>1. left' \in Seq(Upstreams \cup {"chat"}) /\ pc' = pc /\ pc = "ask"
        BY <1>2, <2>2 DEF Skip, EmbedIInv
      <3> QED
        BY <1>2, <3>1 DEF Skip, EmbedIInv, EmbedTypeOK
    <2> QED
      BY <2>1, <2>2
  <1>3. CASE Emit
    <2>1. Head(left) \in Upstreams
      BY <1>3 DEF Emit, EmbedIInv
    <2> QED
      BY <1>3, <2>1 DEF Emit, EmbedIInv, EmbedTypeOK
  <1>4. CASE TryNext
    BY <1>4 DEF TryNext, EmbedIInv, EmbedTypeOK
  <1>5. CASE UpstreamRefuses
    BY <1>5 DEF UpstreamRefuses, EmbedIInv, EmbedTypeOK
  <1>6. CASE Answer
    BY <1>6 DEF Answer, EmbedIInv, EmbedTypeOK
  <1>7. CASE UNCHANGED embedVars
    BY <1>7 DEF embedVars, EmbedIInv, EmbedTypeOK
  <1> QED
    BY <1>1, <1>2, <1>3, <1>4, <1>5, <1>6, <1>7 DEF EmbedNext

\* The words a request is told in mean what the client meant.
LEMMA WordsAreKept ==
    ASSUME NEW t \in {"query", "document", "classification", "clustering"}
    PROVE  Meant(input_type_to_gemini(t)) = t /\ Meant(input_type_to_cohere(t)) = t
  BY DEF Meant, input_type_to_gemini, input_type_to_cohere, None

LEMMA TaskIsMeant ==
    ASSUME Task # None, client \in Clients
    PROVE  Task \in {"query", "document", "classification", "clustering"}
  <1>1. ASSUME NEW w PROVE Meant(w) \in {"query", "document", "classification", "clustering", None}
    BY DEF Meant
  <1> QED
    BY <1>1 DEF Task, GeminiTask, Clients

\* An answer is right.
LEMMA AnswerIsRight == EmbedIInv /\ Answer => VectorsAreOfInputs'
  <1> SUFFICES ASSUME EmbedIInv, Answer, pc' = "answered" PROVE VectorsAreOfInputs'
    BY DEF VectorsAreOfInputs
  <1> DEFINE n == Len(body.items)
             u == Head(left)
             vs == [k \in 1 .. n |-> Vector(k)]
  <1>1. /\ client \in Clients /\ body \in Bodies(client)
        /\ request \in parse_embed_request(client, body)
        /\ u \in Upstreams /\ sent \in emit_embed_request(u, request)
        /\ UNCHANGED <<client, body, request, left, sent>>
    BY DEF Answer, EmbedIInv
  <1>2. Understood(request)
    BY <1>1, ParseUnderstands
  <1>3. Told(u, request, sent)
    BY <1>1, EmitTells
  <1>4. n \in Nat \ {0} /\ DOMAIN body.items = 1 .. n
    BY <1>1, <1>2, BodyIsListed DEF Understood
  <1>5. /\ DOMAIN sent.items = 1 .. n
        /\ \A i \in 1 .. n : sent.items[i].parts = body.items[i].parts
    BY <1>2, <1>3, <1>4 DEF Understood, Told, Contents
  <1>6. PICK rows \in Replies : answer' = emit_embed_response(client, parse_embed_response(u, rows), request)
    BY DEF Answer
  <1>7. parse_embed_response(u, rows) = vs
    BY <1>1, <1>4, <1>5, ReplyIsRead
  <1>8. answer' # {}
    BY DEF Answer
  <1>9. /\ {r[1].encoding : r \in answer'} = Asked(client, request)
        /\ \A r \in answer' : /\ Len(r) = n /\ DOMAIN r = 1 .. n
                              /\ \A i \in 1 .. n : r[i].index = i /\ r[i].vector = vs[i]
    <2>1. DOMAIN vs = 1 .. n
      OBVIOUS
    <2> HIDE DEF vs, n
    <2>2. PICK out : out = answer'
      OBVIOUS
    <2>3. out = emit_embed_response(client, vs, request) /\ out # {}
      BY <1>6, <1>7, <1>8, <2>2
    <2>4. /\ {r[1].encoding : r \in out} = Asked(client, request)
          /\ \A r \in out : /\ Len(r) = n /\ DOMAIN r = 1 .. n
                            /\ \A i \in 1 .. n : r[i].index = i /\ r[i].vector = vs[i]
      <3>1. client \in Clients /\ n \in Nat \ {0}
        BY <1>1, <1>4
      <3>2. VectorsListed(out, client, request, n, vs)
        BY <2>1, <2>3, <3>1, AnswerLists
      <3> QED
        BY <3>2 DEF VectorsListed
    <2> QED
      BY <2>2, <2>4
  <1>10. ASSUME NEW i \in 1 .. n, NEW v, v = Vector(i)
         PROVE  MadeAsAsked(u, i, v)
    <2>1. /\ v.parts = body.items[i].parts /\ v.task = sent.task
          /\ v.dimensions = sent.dimensions /\ v.truncate = sent.truncate
      BY <1>5, <1>10 DEF Vector
    <2>2. ASSUME client = "gemini" => Uniform(GeminiTask), Task # None
          PROVE  CASE u \in {"gemini", "cohere"} -> Meant(v.task) = Task
                   [] u = "voyage" -> v.task = VoyageTask(Task)
                   [] OTHER -> v.task = None
      <3>1. request.input_type = Task
        BY <1>2, <2>2 DEF Understood
      <3>2. Meant(input_type_to_gemini(Task)) = Task /\ Meant(input_type_to_cohere(Task)) = Task
        BY <1>1, <2>2, TaskIsMeant, WordsAreKept
      <3>3. CASE u = "gemini"
        BY <2>1, <3>1, <3>2, <3>3, <1>3 DEF Told
      <3>4. CASE u = "cohere"
        BY <2>1, <3>1, <3>2, <3>4, <1>3 DEF Told
      <3>5. CASE u = "voyage"
        BY <2>1, <3>1, <3>5, <1>3 DEF Told
      <3>6. CASE u \in {"openai", "ollama"}
        BY <2>1, <3>6, <1>3 DEF Told
      <3> QED
        BY <1>1, <3>3, <3>4, <3>5, <3>6 DEF Upstreams, Clients
    <2>3. /\ (client = "gemini" => Uniform(GeminiDimensions)) /\ u # "voyage" =>
                v.dimensions = Dimensions
          /\ u \in {"voyage", "ollama"} => v.truncate = MayTruncate
          /\ u = "cohere" => (v.truncate = "NONE" <=> MayTruncate = "no")
      BY <2>1, <1>2, <1>3 DEF Understood, Told
    <2> QED
      BY <2>1, <2>2, <2>3 DEF MadeAsAsked
  <1>11. Encodings' = Asked(client, request)
    BY <1>1, <1>2 DEF Understood, Encodings
  <1>12. /\ Task' = Task /\ Dimensions' = Dimensions /\ MayTruncate' = MayTruncate
         /\ Uniform(GeminiTask)' = Uniform(GeminiTask)
         /\ Uniform(GeminiDimensions)' = Uniform(GeminiDimensions)
    BY <1>1 DEF Task, Dimensions, MayTruncate, Uniform, GeminiTask, GeminiDimensions
  <1>13. vs = [k \in 1 .. n |-> vs[k]] /\ \A i \in 1 .. n : vs[i] = Vector(i)
    OBVIOUS
  <1>14. {r[1].encoding : r \in answer'} = Encodings'
    BY <1>9, <1>11
  <1> HIDE DEF vs
  <1>15. ASSUME NEW r \in answer'
         PROVE  Len(r) = Len(body'.items) /\ DOMAIN r = 1 .. n
    BY <1>1, <1>9
  <1>16. ASSUME NEW r \in answer', NEW i \in DOMAIN r
         PROVE  i \in 1 .. n /\ r[i].index = i /\ r[i].vector = Vector(i)
    BY <1>9, <1>13
  <1>17. ASSUME NEW r \in answer', NEW i \in DOMAIN r
         PROVE  MadeAsAsked(u, i, r[i].vector)
    <2>1. i \in 1 .. n /\ r[i].vector = Vector(i)
      BY <1>16
    <2> QED
      BY <2>1, <1>10
  <1>18. ASSUME NEW r \in answer', NEW i \in DOMAIN r
         PROVE  MadeAsAsked(Head(left), i, r[i].vector)'
    BY <1>1, <1>12, <1>17 DEF MadeAsAsked
  <1> QED
    BY <1>14, <1>15, <1>16, <1>18 DEF VectorsAreOfInputs

-----------------------------------------------------------------------------
(* Results.                                                                *)

\* A turn is always in one of its stages and its request always has the
\* fields of EmbedRequest (handle_embed).
THEOREM EmbeddingsTyped == EmbedSpec => []EmbedTypeOK
  <1>1. EmbedIInv => EmbedTypeOK
    BY DEF EmbedIInv
  <1> QED
    BY <1>1, InitEmbedIInv, NextEmbedIInv, PTL DEF EmbedSpec

\* The vector at each place of an answer was made from the content the client
\* put there, with the client's settings, and comes in every encoding it asked
\* for, whatever the inputs, the chain of upstreams and the order of the
\* upstream's rows (handle_embed and the codecs of the five dialects).
THEOREM VectorsOfInputs == EmbedSpec => []VectorsAreOfInputs
  <1>1. EmbedInit => VectorsAreOfInputs
    BY DEF EmbedInit, VectorsAreOfInputs
  <1>2. EmbedIInv /\ VectorsAreOfInputs /\ [EmbedNext]_embedVars => VectorsAreOfInputs'
    <2> SUFFICES ASSUME EmbedIInv, VectorsAreOfInputs, [EmbedNext]_embedVars PROVE VectorsAreOfInputs'
      OBVIOUS
    <2>1. CASE Answer
      BY <2>1, AnswerIsRight
    <2>2. CASE Parse \/ Skip \/ Emit \/ TryNext \/ UpstreamRefuses
      <3>1. pc' # "answered"
        BY <2>2 DEF Parse, Skip, Emit, TryNext, UpstreamRefuses, EmbedIInv
      <3> QED
        BY <3>1 DEF VectorsAreOfInputs
    <2>3. CASE UNCHANGED embedVars
      <3>1. /\ Task' = Task /\ Dimensions' = Dimensions /\ MayTruncate' = MayTruncate
            /\ Encodings' = Encodings
            /\ Uniform(GeminiTask)' = Uniform(GeminiTask)
            /\ Uniform(GeminiDimensions)' = Uniform(GeminiDimensions)
        BY <2>3 DEF embedVars, Encodings, Task, Dimensions, MayTruncate, Uniform, GeminiTask,
           GeminiDimensions
      <3>2. /\ pc' = pc /\ body' = body /\ client' = client /\ left' = left /\ answer' = answer
        BY <2>3 DEF embedVars
      <3> QED
        BY <3>1, <3>2, Zenon DEF VectorsAreOfInputs, MadeAsAsked
    <2> QED
      BY <2>1, <2>2, <2>3 DEF EmbedNext
  <1> QED
    BY <1>1, <1>2, InitEmbedIInv, NextEmbedIInv, PTL DEF EmbedSpec

=============================================================================
