---------------------------- MODULE ReqlogProofs ----------------------------
(***************************************************************************)
(* Proofs about the request log (Reqlog): where every logged turn is, what *)
(* the two rows of a turn have in common, what a Forget erases, and that   *)
(* the disk implements the abstract Archive, for every set of turns and    *)
(* keys, every size of the queue and of a batch, and every number of       *)
(* faults and crashes.                                                     *)
(*                                                                         *)
(* The argument. The channel is a FIFO, so the records in front of a       *)
(* Forget are the ones it has to erase (Channel). A turn is in one place   *)
(* at a time because a record is taken from one before it is put into the  *)
(* next (Placed). The files say what they are for at each step of the      *)
(* worker: the partial file of a rotation holds the table, the table that  *)
(* is about to be emptied is in a shard, a rewritten shard lacks just the  *)
(* rows of the key (Files). An id names one row among the rows of one      *)
(* process, and the clock tells the processes apart (Identified).          *)
(***************************************************************************)
EXTENDS Reqlog, FiniteSetTheorems, WellFoundedInduction, TLAPS

-----------------------------------------------------------------------------
(* The inductive invariant.                                                *)

\* Turns in the channel and in the worker's buffer.
Queued == {t \in Turns : \E i \in 1..Len(queue) : queue[i] = Record(t)}
Buffered == {t \in Turns : \E i \in 1..Len(buf) : buf[i] = t}

\* Every row an export can find.
Found == RowsOn(wal, shards)

\* Every table and every file is finite.
Finite ==
    /\ IsFiniteSet(wal)
    /\ \A s \in shards : IsFiniteSet(s.rows)
    /\ \A p \in partials : IsFiniteSet(p.rows)

\* A record is on its way once and was made by this process.
Channel ==
    /\ \A i, j \in 1..Len(queue) :
          queue[i] = queue[j] /\ queue[i].op \in {"record", "export"} => i = j
    /\ \A i, j \in 1..Len(buf) : buf[i] = buf[j] => i = j
    /\ Queued \cap Buffered = {}
    /\ \A t \in Queued \cup Buffered : ts[t] = clock

\* A Forget in the channel was asked for, and no record it has to erase is
\* behind it.
Ordered ==
    /\ \A i \in 1..Len(queue) : queue[i].op = "forget" => queue[i].arg \in named
    /\ \A i, j \in 1..Len(queue) : \A t \in Turns :
          queue[i].op = "forget" /\ queue[j] = Record(t) /\ i < j
             => t \notin due[queue[i].arg]

\* The message of an export is in the channel only while its caller waits, and
\* an export that is under way has an attempt left.
Exporting ==
    /\ \A i \in 1..Len(queue) : queue[i].op = "export" => ex.at = "asked"
    /\ ex.at = "asked" => ex.tries = 0
    /\ ex.at \in {"list", "bind", "read"} => ex.tries \in 0..1

\* A turn that was never logged is nowhere; one that was is in one place.
Placed ==
    /\ \A t \in dropped \cup lost \cup left \cup OnDisk : ts[t] # 0
    /\ Accounted

\* Rows of one turn are one row, ids are not given twice in a process, and
\* nothing in the table is ahead of the next id.
Identified ==
    /\ \A t \in Turns : ts[t] <= clock
    /\ \A x, y \in Found : x.turn = y.turn => x = y
    /\ \A x, y \in Found : x.id = y.id /\ ts[x.turn] = ts[y.turn] => x = y
    /\ \A x \in Found : ts[x.turn] = clock => x.id < nextId
    /\ \A x \in wal : x.id < nextId

\* What the files are at each step of the worker.
Files ==
    /\ \A s, x \in shards : s.stamp = x.stamp => s = x
    /\ \A s \in shards : s.stamp <= stamp
    /\ \A p \in partials : p.stamp <= stamp
    /\ \A s \in shards : s.aged => TurnsIn(s.rows) \subseteq old
    /\ at = "seal" => /\ \A s \in shards : s.stamp # file
                      /\ file <= stamp
                      /\ \A p \in partials : p.stamp = file => p.rows = wal
    /\ at = "delete" => \A r \in wal : \E s \in shards : r \in s.rows
    /\ at = "replace" => \A p \in partials : \A s \in shards :
                            p.stamp = file /\ s.stamp = file
                               => p.rows = s.rows \ OfKey(s.rows)

\* What a Forget has done so far at each of its steps.
Forgetting ==
    /\ \A k \in Keys : \A t \in due[k] : KeyOf[t] = k /\ ts[t] # 0
    /\ at \in {"erase", "list", "rewrite", "replace"} =>
          /\ job.key \in named
          /\ due[job.key] \cap (Queued \cup Buffered) = {}
    /\ at \in {"list", "rewrite", "replace"} => OfKey(wal) = {}
    /\ \A t \in erased : ts[t] # 0
    /\ ErasedIsGone

ReqlogInv ==
    /\ TypeOK /\ Finite
    /\ Channel /\ Ordered /\ Exporting
    /\ Placed /\ Identified /\ Files /\ Forgetting


-----------------------------------------------------------------------------
(* Lemmas on the operators.                                                *)

\* The rows a flush of the batch b adds to the table.
NewRows(b) == {[id |-> nextId + i - 1, turn |-> b[i]] : i \in 1..Len(b)}

\* A batch holds no turn twice.
Distinct(b) == \A i, j \in 1..Len(b) : b[i] = b[j] => i = j

\* What a Forget knows when it starts, and none.
LEMMA JobTyped ==
    /\ NoJob \in Jobs /\ NoJob.key = "-"
    /\ \A k \in Keys : \A H \in SUBSET Turns : Job(k, H) \in Jobs /\ Job(k, H).key = k
  BY DEF NoJob, Job, Jobs

\* A turn is on the disk when the table or a shard has a row of it.
LEMMA OnDiskIs ==
    \A t : t \in OnDisk <=> \/ \E r \in wal : r.turn = t
                            \/ \E s \in shards : \E r \in s.rows : r.turn = t
  BY DEF OnDisk, TurnsIn, RowsOn

\* The same of the state after a step.
LEMMA OnDiskIsNext ==
    \A t : t \in OnDisk' <=> \/ \E r \in wal' : r.turn = t
                             \/ \E s \in shards' : \E r \in s.rows : r.turn = t
  BY DEF OnDisk, TurnsIn, RowsOn

\* A row is found in the table or in a shard.
LEMMA FoundIs ==
    /\ \A r : r \in Found <=> r \in wal \/ \E s \in shards : r \in s.rows
    /\ \A r : r \in Found' <=> r \in wal' \/ \E s \in shards' : r \in s.rows
  BY DEF Found, RowsOn

\* A turn is on the disk when a row of it is found.
LEMMA OnDiskIsFound ==
    /\ \A t : t \in OnDisk <=> \E r \in Found : r.turn = t
    /\ \A t : t \in OnDisk' <=> \E r \in Found' : r.turn = t
  BY DEF OnDisk, Found, TurnsIn

\* What is on its way is in the channel or in the buffer.
LEMMA InFlightIs == InFlight = Queued \cup Buffered /\ InFlight' = Queued' \cup Buffered'
  BY DEF InFlight, Queued, Buffered

\* Everything found is a row, and everything on the disk a turn.
LEMMA FoundTyped ==
    ASSUME TypeOK
    PROVE  Found \subseteq Rows /\ OnDisk \subseteq Turns
  BY FoundIs, OnDiskIsFound DEF TypeOK, Shard, Rows

\* A message is one of its six kinds.
LEMMA MessageKinds ==
    \A m \in Messages : \/ \E t \in Turns : m = Record(t)
                        \/ \E k \in Keys : m = ForgetMsg(k)
                        \/ m \in {Control("export"), Control("flush"),
                                  Control("rotate"), Control("shutdown")}
  BY DEF Messages

\* The rows of a batch: one of each turn, with ids that follow.
LEMMA NewRowsAre ==
    ASSUME TypeOK, NEW b \in Seq(Turns)
    PROVE  /\ NewRows(b) \subseteq Rows
           /\ IsFiniteSet(NewRows(b))
           /\ TurnsIn(NewRows(b)) = Elems(b)
           /\ \A r \in NewRows(b) : nextId <= r.id /\ r.id < nextId + Len(b)
           /\ Distinct(b) => \A x, y \in NewRows(b) :
                                x.id = y.id \/ x.turn = y.turn => x = y
  <1> DEFINE f == [i \in 1..Len(b) |-> [id |-> nextId + i - 1, turn |-> b[i]]]
  <1>0. nextId \in Nat /\ nextId >= 1 /\ Len(b) \in Nat
    BY DEF TypeOK
  <1>1. \A i \in 1..Len(b) : b[i] \in Turns
    OBVIOUS
  <1>2. IsFiniteSet(1..Len(b))
    BY <1>0, FS_Interval
  <1>3. f \in Surjection(1..Len(b), NewRows(b))
    BY DEF Surjection, NewRows
  <1>4. IsFiniteSet(NewRows(b))
    BY <1>2, <1>3, FS_Surjection
  <1>5. \A r \in NewRows(b) : \E i \in 1..Len(b) : r = [id |-> nextId + i - 1, turn |-> b[i]]
    BY DEF NewRows
  <1>6. NewRows(b) \subseteq Rows
    BY <1>0, <1>1, <1>5 DEF Rows
  <1>7. TurnsIn(NewRows(b)) = Elems(b)
    <2>1. \A t \in TurnsIn(NewRows(b)) : t \in Elems(b)
      BY <1>5 DEF TurnsIn, Elems
    <2>2. ASSUME NEW i \in 1..Len(b) PROVE b[i] \in TurnsIn(NewRows(b))
      <3>1. [id |-> nextId + i - 1, turn |-> b[i]] \in NewRows(b)
        BY DEF NewRows
      <3>2. QED BY <3>1 DEF TurnsIn
    <2>3. QED BY <2>1, <2>2 DEF Elems
  <1>8. \A r \in NewRows(b) : nextId <= r.id /\ r.id < nextId + Len(b)
    BY <1>0, <1>5
  <1>9. ASSUME Distinct(b), NEW x \in NewRows(b), NEW y \in NewRows(b),
               x.id = y.id \/ x.turn = y.turn
        PROVE  x = y
    <2>1. PICK i \in 1..Len(b) : x = [id |-> nextId + i - 1, turn |-> b[i]]
      BY <1>5
    <2>2. PICK j \in 1..Len(b) : y = [id |-> nextId + j - 1, turn |-> b[j]]
      BY <1>5
    <2>3. i = j
      BY <1>0, <1>9, <2>1, <2>2 DEF Distinct
    <2>4. QED BY <2>1, <2>2, <2>3
  <1>10. QED BY <1>4, <1>6, <1>7, <1>8, <1>9

\* A new process starts past every id of the table.
LEMMA FirstIdIs ==
    ASSUME TypeOK, \A r \in wal : r.id < nextId
    PROVE  FirstId \in Nat \ {0} /\ \A r \in wal : r.id < FirstId
  <1> DEFINE ids == {r.id : r \in wal}
             bounds == {n \in Nat : \A r \in wal : r.id <= n}
  <1>1. CASE wal = {}
    BY <1>1 DEF FirstId
  <1>2. CASE wal # {}
    <2>1. \A r \in wal : r.id \in Nat \ {0}
      BY DEF TypeOK, Rows
    <2>2. nextId \in Nat
      BY DEF TypeOK
    <2>3. nextId \in bounds
      BY <2>1, <2>2
    <2>4. PICK m \in bounds : \A n \in bounds : ~(<<n, m>> \in OpToRel(<, Nat))
      <3>1. IsWellFoundedOn(OpToRel(<, Nat), Nat)
        BY NatLessThanWellFounded
      <3>2. bounds \subseteq Nat /\ bounds # {}
        BY <2>3
      <3> HIDE DEF bounds
      <3>3. QED BY <3>1, <3>2, WFMin
    <2>5. \A n \in bounds : ~(n < m)
      BY <2>4 DEF OpToRel
    <2>6. m \in Nat /\ m # 0 /\ \A r \in wal : r.id <= m
      BY <1>2, <2>1
    <2>7. m - 1 \in Nat /\ m - 1 < m
      BY <2>6
    <2>8. m - 1 \notin bounds
      BY <2>5, <2>7
    <2>9. \E r \in wal : r.id = m
      BY <2>1, <2>6, <2>7, <2>8
    <2>10. m \in ids /\ \A r \in wal : r.id <= m
      BY <2>6, <2>9
    <2>11. \E n \in ids : \A r \in wal : r.id <= n
      BY <2>10
    <2>12. PICK n \in ids : /\ n = CHOOSE k \in ids : \A r \in wal : r.id <= k
                            /\ \A r \in wal : r.id <= n
      BY <2>11
    <2>13. n \in Nat
      BY <2>1, <2>12
    <2>14. FirstId = 1 + n
      BY <1>2, <2>12 DEF FirstId
    <2>15. \A r \in wal : r.id <= n
      BY <2>12
    <2>16. QED BY <2>1, <2>13, <2>14, <2>15
  <1>3. QED BY <1>1, <1>2


-----------------------------------------------------------------------------
(* Types.                                                                  *)

\* The empty sequence is a short batch.
LEMMA EmptyBatch ==
    <<>> \in Seq(Turns) /\ <<>> \in Seq(Messages) /\ Len(<<>>) = 0
       /\ 0 < BatchFlush /\ 0 <= QueueSize
  BY SizesAssumption

\* A flush, whether it commits or fails.
LEMMA FlushTyped ==
    ASSUME TypeOK, Finite, NEW b \in Seq(Turns), FlushOk(b) \/ FlushFails(b)
    PROVE  /\ buf' \in Seq(Turns) /\ Len(buf') < BatchFlush
           /\ wal' \subseteq Rows /\ IsFiniteSet(wal')
           /\ nextId' \in Nat \ {0}
           /\ lost' \subseteq Turns /\ faults' \in Nat
  <1>0. /\ nextId \in Nat /\ nextId >= 1 /\ Len(b) \in Nat /\ faults \in Nat
        /\ wal \subseteq Rows /\ lost \subseteq Turns
    BY DEF TypeOK
  <1>1. buf' = <<>>
    BY DEF FlushOk, FlushFails
  <1>2. CASE FlushOk(b)
    <2>1. wal' = wal \cup NewRows(b)
      BY <1>2 DEF FlushOk, NewRows
    <2>2. wal' \subseteq Rows
      BY <1>0, <2>1, NewRowsAre
    <2>3. IsFiniteSet(wal')
      BY <2>1, NewRowsAre, FS_Union DEF Finite
    <2>4. nextId' \in Nat \ {0} /\ lost' = lost /\ faults' = faults
      BY <1>0, <1>2 DEF FlushOk
    <2>5. QED BY <1>0, <1>1, <2>2, <2>3, <2>4, EmptyBatch
  <1>3. CASE FlushFails(b)
    <2>1. wal' = wal /\ lost' = lost \cup Elems(b) /\ faults' = faults + 1
      BY <1>3 DEF FlushFails, Fault
    <2>2. nextId' \in Nat \ {0}
      BY <1>0, <1>3 DEF FlushFails
    <2>3. Elems(b) \subseteq Turns
      BY DEF Elems
    <2>4. QED BY <1>0, <1>1, <2>1, <2>2, <2>3, EmptyBatch DEF Finite
  <1>4. QED BY <1>2, <1>3

\* Taking a message shortens the channel.
LEMMA TailTyped ==
    ASSUME TypeOK, queue # <<>>
    PROVE  /\ Tail(queue) \in Seq(Messages) /\ Len(Tail(queue)) <= QueueSize
           /\ Len(Tail(queue)) = Len(queue) - 1
           /\ \A i \in 1..Len(Tail(queue)) : i + 1 \in 1..Len(queue)
                                              /\ Tail(queue)[i] = queue[i + 1]
           /\ Len(queue) >= 1 /\ Head(queue) = queue[1] /\ Head(queue) \in Messages
  BY SizesAssumption DEF TypeOK

\* Sending a message lengthens it.
LEMMA AppendTyped ==
    ASSUME TypeOK, Len(queue) < QueueSize, NEW m \in Messages
    PROVE  /\ Append(queue, m) \in Seq(Messages) /\ Len(Append(queue, m)) <= QueueSize
           /\ Len(Append(queue, m)) = Len(queue) + 1
           /\ \A i \in 1..Len(queue) : Append(queue, m)[i] = queue[i]
           /\ Append(queue, m)[Len(queue) + 1] = m
  BY SizesAssumption DEF TypeOK

\* The callers' steps.
LEMMA TypeCallers ==
    ASSUME TypeOK, Finite,
           \/ \E t \in Turns : Log(t)
           \/ \E k \in Keys : SendForget(k)
           \/ ApplyPolicy \/ SendControl \/ SendExport
    PROVE  TypeOK' /\ Finite'
  <1>1. ASSUME NEW t \in Turns, Log(t) PROVE TypeOK' /\ Finite'
    <2>1. Record(t) \in Messages
      BY DEF Messages
    <2>2. queue' \in Seq(Messages) /\ Len(queue') <= QueueSize /\ dropped' \subseteq Turns
      <3>1. CASE at # "stopped" /\ Len(queue) < QueueSize
        BY <1>1, <2>1, <3>1, AppendTyped DEF Log, TypeOK
      <3>2. CASE ~(at # "stopped" /\ Len(queue) < QueueSize)
        BY <1>1, <3>2 DEF Log, TypeOK
      <3>3. QED BY <3>1, <3>2
    <2>3. ts' \in [Turns -> Nat]
      BY <1>1 DEF Log, TypeOK
    <2>4. QED BY <1>1, <2>2, <2>3 DEF Log, TypeOK, Finite, policyVars, diskVars, forgetVars
  <1>2. ASSUME NEW k \in Keys, SendForget(k) PROVE TypeOK' /\ Finite'
    <2>1. ForgetMsg(k) \in Messages
      BY DEF Messages
    <2>2. queue' \in Seq(Messages) /\ Len(queue') <= QueueSize
      BY <1>2, <2>1, AppendTyped DEF SendForget, Send
    <2>3. due' \in [Keys -> SUBSET Turns] /\ named' \subseteq Keys
      BY <1>2 DEF SendForget, TypeOK
    <2>4. QED
      BY <1>2, <2>2, <2>3 DEF SendForget, Send, TypeOK, Finite, policyVars, diskVars
  <1>3. ASSUME ApplyPolicy PROVE TypeOK' /\ Finite'
    BY <1>3, PoliciesAssumption
    DEF ApplyPolicy, TypeOK, Finite, chanVars, diskVars, forgetVars
  <1>4. ASSUME SendControl PROVE TypeOK' /\ Finite'
    <2>1. PICK m \in Messages : Send(m)
      BY <1>4 DEF SendControl, Messages
    <2>2. queue' \in Seq(Messages) /\ Len(queue') <= QueueSize
      BY <2>1, AppendTyped DEF Send
    <2>3. QED
      BY <1>4, <2>1, <2>2 DEF SendControl, Send, TypeOK, Finite, policyVars, diskVars, forgetVars
  <1>5. ASSUME SendExport PROVE TypeOK' /\ Finite'
    <2>1. Control("export") \in Messages
      BY DEF Messages
    <2>2. queue' \in Seq(Messages) /\ Len(queue') <= QueueSize
      BY <1>5, <2>1, AppendTyped DEF SendExport, Send
    <2>3. ex' \in [at : ExportPlaces, has : BOOLEAN, glob : SUBSET Nat, tries : 0..2,
                   due : SUBSET Turns, got : SUBSET Rows]
      <3>1. ex' = [at |-> "asked", has |-> FALSE, glob |-> {}, tries |-> 0,
                   due |-> {}, got |-> {}]
        BY <1>5 DEF SendExport, NoExport
      <3>2. QED BY <3>1 DEF ExportPlaces
    <2>4. QED
      BY <1>5, <2>2, <2>3 DEF SendExport, Send, TypeOK, Finite, policyVars, diskVars, forgetVars
  <1>6. QED BY <1>1, <1>2, <1>3, <1>4, <1>5


\* What is on the disk after a flush is turns.
LEMMA FlushedTurns ==
    ASSUME TypeOK, wal' \subseteq Rows
    PROVE  TurnsIn(RowsOn(wal', shards)) \subseteq Turns
  BY DEF TypeOK, TurnsIn, RowsOn, Shard, Rows

\* The steps of the worker that take a message or a tick.
LEMMA TypeTakes ==
    ASSUME TypeOK, Finite, Exporting,
           \/ \E t \in Turns : TakeRecord(t)
           \/ \E k \in Keys : TakeForget(k)
           \/ IdleTick \/ TakeFlush \/ TakeRotate \/ TakeExport \/ TakeShutdown
    PROVE  TypeOK' /\ Finite'
  <1>0. buf \in Seq(Turns)
    BY DEF TypeOK
  <1>1. ASSUME NEW t \in Turns, TakeRecord(t) PROVE TypeOK' /\ Finite'
    <2>1. queue' \in Seq(Messages) /\ Len(queue') <= QueueSize
      BY <1>1, TailTyped DEF TakeRecord, Taken
    <2>2. Append(buf, t) \in Seq(Turns)
      BY <1>0
    <2>3. CASE Len(Append(buf, t)) < BatchFlush
      BY <1>1, <2>1, <2>2, <2>3
      DEF TakeRecord, Taken, TypeOK, Finite, policyVars
    <2>4. CASE ~(Len(Append(buf, t)) < BatchFlush)
      <3>1. FlushMaybeRotate(Append(buf, t))
        BY <1>1, <2>4 DEF TakeRecord
      <3>2. FlushOk(Append(buf, t)) \/ FlushFails(Append(buf, t))
        BY <3>1 DEF FlushMaybeRotate
      <3>3. at' \in Places
        BY <3>1 DEF FlushMaybeRotate, Rotating, Places
      <3>4. QED
        BY <1>1, <2>1, <2>2, <3>2, <3>3, FlushTyped
        DEF TakeRecord, Taken, TypeOK, Finite, policyVars
    <2>5. QED BY <2>3, <2>4
  <1>2. ASSUME NEW k \in Keys, TakeForget(k) PROVE TypeOK' /\ Finite'
    <2>1. queue' \in Seq(Messages) /\ Len(queue') <= QueueSize
      BY <1>2, TailTyped DEF TakeForget, Taken
    <2>2. FlushOk(buf) \/ FlushFails(buf)
      BY <1>2 DEF TakeForget
    <2>3. at' \in Places
      BY <1>2 DEF TakeForget, TypeOK, Places
    <2>4. wal' \subseteq Rows
      BY <1>0, <2>2, FlushTyped
    <2>5. job' \in Jobs
      <3>1. CASE job' = job
        BY <3>1 DEF TypeOK
      <3>2. CASE job' = Job(k, {t \in TurnsIn(RowsOn(wal', shards)) : KeyOf[t] = k})
        BY <2>4, <3>2, FlushedTurns, JobTyped
      <3>3. QED BY <1>2, <3>1, <3>2 DEF TakeForget
    <2>6. QED
      BY <1>0, <1>2, <2>1, <2>2, <2>3, <2>5, FlushTyped
      DEF TakeForget, Taken, TypeOK, Finite, policyVars
  <1>3. ASSUME IdleTick PROVE TypeOK' /\ Finite'
    <2>1. FlushOk(buf) \/ FlushFails(buf)
      BY <1>3 DEF IdleTick, FlushMaybeRotate
    <2>2. at' \in Places
      BY <1>3 DEF IdleTick, FlushMaybeRotate, Rotating, Places
    <2>3. QED
      BY <1>0, <1>3, <2>1, <2>2, FlushTyped
      DEF IdleTick, TypeOK, Finite, policyVars, forgetVars
  <1>4. ASSUME TakeFlush PROVE TypeOK' /\ Finite'
    <2>1. queue' \in Seq(Messages) /\ Len(queue') <= QueueSize
      BY <1>4, TailTyped DEF TakeFlush, Taken
    <2>2. FlushOk(buf) \/ FlushFails(buf)
      BY <1>4 DEF TakeFlush
    <2>3. QED
      BY <1>0, <1>4, <2>1, <2>2, FlushTyped
      DEF TakeFlush, Taken, TypeOK, Finite, policyVars
  <1>5. ASSUME TakeRotate PROVE TypeOK' /\ Finite'
    <2>1. queue' \in Seq(Messages) /\ Len(queue') <= QueueSize
      BY <1>5, TailTyped DEF TakeRotate, Taken
    <2>2. FlushOk(buf) \/ FlushFails(buf)
      BY <1>5 DEF TakeRotate
    <2>3. at' \in Places
      BY <1>5 DEF TakeRotate, Rotating, TypeOK, Places
    <2>4. QED
      BY <1>0, <1>5, <2>1, <2>2, <2>3, FlushTyped
      DEF TakeRotate, Taken, TypeOK, Finite, policyVars
  <1>6. ASSUME TakeExport PROVE TypeOK' /\ Finite'
    <2>1. queue' \in Seq(Messages) /\ Len(queue') <= QueueSize
      BY <1>6, TailTyped DEF TakeExport, Taken
    <2>2. FlushOk(buf) \/ FlushFails(buf)
      BY <1>6 DEF TakeExport
    <2>3. wal' \subseteq Rows
      BY <1>0, <2>2, FlushTyped
    <2>4. ex' \in [at : ExportPlaces, has : BOOLEAN, glob : SUBSET Nat, tries : 0..2,
                   due : SUBSET Turns, got : SUBSET Rows]
      <3>1. TurnsIn(RowsOn(wal', shards)) \subseteq Turns
        BY <2>3, FlushedTurns
      <3>2. QED BY <1>6, <3>1 DEF TakeExport, TypeOK, ExportPlaces
    <2>5. QED
      BY <1>0, <1>6, <2>1, <2>2, <2>4, FlushTyped
      DEF TakeExport, Taken, TypeOK, Finite, policyVars
  <1>7. ASSUME TakeShutdown PROVE TypeOK' /\ Finite'
    <2>1. queue' = <<>> /\ buf' = <<>> /\ at' = "stopped"
      BY <1>7 DEF TakeShutdown
    <2>2. /\ wal' \subseteq Rows /\ IsFiniteSet(wal') /\ nextId' \in Nat \ {0}
          /\ lost' \subseteq Turns /\ faults' \in Nat
      <3>1. /\ NewRows(buf) \subseteq Rows /\ IsFiniteSet(NewRows(buf))
            /\ Elems(buf) \subseteq Turns /\ Len(buf) \in Nat
        BY <1>0, NewRowsAre DEF Elems
      <3>2. IsFiniteSet(wal \cup NewRows(buf)) /\ IsFiniteSet(wal)
        BY <3>1, FS_Union DEF Finite
      <3>3. \/ /\ wal' = wal \cup NewRows(buf) /\ nextId' = nextId + Len(buf)
               /\ faults' = faults
               /\ lost' = lost \cup {t \in Turns : \E i \in 1..Len(queue) : queue[i] = Record(t)}
            \/ /\ wal' = wal /\ nextId' = nextId /\ faults' = faults + 1
               /\ lost' = lost \cup {t \in Turns : \E i \in 1..Len(queue) : queue[i] = Record(t)}
                            \cup Elems(buf)
        BY <1>7 DEF TakeShutdown, Fault, NewRows
      <3>4. nextId' \in Nat \ {0} /\ faults' \in Nat
        BY <3>1, <3>3 DEF TypeOK
      <3>5. wal' \subseteq Rows /\ IsFiniteSet(wal') /\ lost' \subseteq Turns
        BY <3>1, <3>2, <3>3 DEF TypeOK
      <3>6. QED BY <3>4, <3>5
    <2>3. ex' \in [at : ExportPlaces, has : BOOLEAN, glob : SUBSET Nat, tries : 0..2,
                   due : SUBSET Turns, got : SUBSET Rows]
      BY <1>7 DEF TakeShutdown, TypeOK, ExportPlaces
    <2>4. QED
      BY <1>7, <2>1, <2>2, <2>3, EmptyBatch
      DEF TakeShutdown, TypeOK, Finite, policyVars, forgetVars, Places
  <1>8. QED BY <1>1, <1>2, <1>3, <1>4, <1>5, <1>6, <1>7


\* Removing rows leaves a finite set, and a number of rows is a number.
LEMMA KeyRowsFinite ==
    ASSUME NEW rows, IsFiniteSet(rows)
    PROVE  Cardinality(OfKey(rows)) \in Nat /\ IsFiniteSet(rows \ OfKey(rows))
  BY FS_Subset, FS_CardinalityType DEF OfKey

\* The worker gives up or returns.
LEMMA ReturnTyped ==
    ASSUME Return
    PROVE  /\ at' \in Places /\ file' \in Nat
           /\ job' \in Jobs
  BY JobTyped DEF Return, Places

\* The file steps of a rotation.
LEMMA TypeRotates ==
    ASSUME TypeOK, Finite, Copy \/ Seal \/ Delete \/ Prune
    PROVE  TypeOK' /\ Finite'
  <1>0. ASSUME FileStep, GiveUp PROVE TypeOK' /\ Finite'
    <2>1. partials' \subseteq Partial /\ \A p \in partials' : IsFiniteSet(p.rows)
      BY <1>0 DEF GiveUp, TypeOK, Finite
    <2>2. Return
      BY <1>0 DEF GiveUp
    <2>3. QED
      BY <1>0, <2>1, <2>2, ReturnTyped
      DEF GiveUp, FileStep, Fault, TypeOK, Finite, policyVars, chanVars
  <1>1. CASE Copy
    <2>1. CASE GiveUp
      BY <1>0, <1>1, <2>1 DEF Copy
    <2>2. CASE ~GiveUp
      <3>1. stamp + 1 \in Nat
        BY DEF TypeOK
      <3>2. PICK q : q = [stamp |-> stamp + 1, rows |-> wal]
        OBVIOUS
      <3>3. q \in Partial /\ q.rows = wal
        BY <3>1, <3>2 DEF TypeOK, Partial
      <3>4. partials' = partials \cup {q} /\ stamp' = stamp + 1 /\ file' = stamp + 1
              /\ at' = "seal"
        BY <1>1, <2>2, <3>2 DEF Copy
      <3>5. QED
        BY <1>1, <2>2, <3>1, <3>3, <3>4
        DEF Copy, FileStep, TypeOK, Finite, policyVars, chanVars, Places
    <2>3. QED BY <2>1, <2>2
  <1>2. CASE Seal
    <2>1. CASE GiveUp
      BY <1>0, <1>2, <2>1 DEF Seal
    <2>2. CASE ~GiveUp
      <3>1. PICK p \in partials :
              /\ p.stamp = file
              /\ shards' = shards \cup {[stamp |-> file, rows |-> p.rows, aged |-> FALSE]}
              /\ partials' = partials \ {p}
        BY <1>2, <2>2 DEF Seal
      <3>2. PICK s : s = [stamp |-> file, rows |-> p.rows, aged |-> FALSE]
        OBVIOUS
      <3>3. s \in Shard /\ IsFiniteSet(s.rows)
        BY <3>2 DEF TypeOK, Finite, Shard, Partial
      <3>4. shards' = shards \cup {s}
        BY <3>1, <3>2
      <3>5. QED
        BY <1>2, <2>2, <3>1, <3>3, <3>4
        DEF Seal, FileStep, TypeOK, Finite, policyVars, chanVars, Places
    <2>3. QED BY <2>1, <2>2
  <1>3. CASE Delete
    <2>1. wal' \in {wal, {}} /\ IsFiniteSet({})
      BY <1>3, FS_EmptySet DEF Delete
    <2>2. faults' \in Nat
      BY <1>3 DEF Delete, Fault, TypeOK
    <2>3. /\ at' \in Places /\ file' \in Nat
          /\ job' \in Jobs
      <3>1. CASE Return
        BY <3>1, ReturnTyped
      <3>2. CASE ~Return
        BY <1>3, <3>2 DEF Delete, TypeOK, Places
      <3>3. QED BY <3>1, <3>2
    <2>4. left' \subseteq Turns
      BY <1>3, FoundTyped DEF Delete, Leaves, TypeOK
    <2>5. QED
      BY <1>3, <2>1, <2>2, <2>3, <2>4
      DEF Delete, FileStep, TypeOK, Finite, policyVars, chanVars
  <1>4. CASE Prune
    <2>1. left' \subseteq Turns
      BY <1>4, FoundTyped DEF Prune, Leaves, TypeOK
    <2>2. shards' \subseteq shards /\ partials' \subseteq partials /\ Return
      BY <1>4 DEF Prune
    <2>a. faults' \in Nat
      BY <1>4 DEF Prune, Fault, TypeOK
    <2>3. QED
      BY <1>4, <2>1, <2>2, <2>a, ReturnTyped
      DEF Prune, FileStep, TypeOK, Finite, policyVars, chanVars
  <1>5. QED BY <1>1, <1>2, <1>3, <1>4

\* The file steps of a Forget.
LEMMA TypeForgets ==
    ASSUME TypeOK, Finite, Forgetting, Erase \/ List \/ Rewrite \/ Replace \/ ForgetDone
    PROVE  TypeOK' /\ Finite'
  <1>0. ASSUME FileStep, GiveUp PROVE TypeOK' /\ Finite'
    <2>1. partials' \subseteq Partial /\ \A p \in partials' : IsFiniteSet(p.rows)
      BY <1>0 DEF GiveUp, TypeOK, Finite
    <2>2. Return
      BY <1>0 DEF GiveUp
    <2>3. QED
      BY <1>0, <2>1, <2>2, ReturnTyped
      DEF GiveUp, FileStep, Fault, TypeOK, Finite, policyVars, chanVars
  <1>1. CASE Erase
    <2>1. wal' \subseteq Rows /\ IsFiniteSet(wal')
      <3>1. wal' = wal \/ wal' = wal \ OfKey(wal)
        BY <1>1 DEF Erase
      <3>2. QED BY <3>1, KeyRowsFinite DEF TypeOK, Finite
    <2>2. faults' \in Nat
      BY <1>1 DEF Erase, Fault, TypeOK
    <2>3. /\ at' \in Places /\ file' \in Nat
          /\ job' \in Jobs
      <3>1. CASE Return
        BY <3>1, ReturnTyped
      <3>2. CASE ~Return
        <4>1. Cardinality(OfKey(wal)) \in Nat
          BY KeyRowsFinite DEF Finite
        <4>2. QED BY <1>1, <3>2, <4>1 DEF Erase, TypeOK, Jobs, Places
      <3>3. QED BY <3>1, <3>2
    <2>4. left' \subseteq Turns
      BY <1>1, FoundTyped DEF Erase, Leaves, TypeOK
    <2>5. QED
      BY <1>1, <2>1, <2>2, <2>3, <2>4
      DEF Erase, FileStep, TypeOK, Finite, policyVars, chanVars
  <1>2. CASE Rewrite
    <2>1. CASE GiveUp
      BY <1>0, <1>2, <2>1 DEF Rewrite
    <2>2. CASE ~GiveUp
      <3>1. PICK s \in shards :
              /\ partials' = {p \in partials : p.stamp # s.stamp} \cup
                                {[stamp |-> s.stamp, rows |-> s.rows \ OfKey(s.rows)]}
              /\ file' = s.stamp
        BY <1>2, <2>2 DEF Rewrite, Listed
      <3>2. PICK q : q = [stamp |-> s.stamp, rows |-> s.rows \ OfKey(s.rows)]
        OBVIOUS
      <3>3. q \in Partial /\ IsFiniteSet(q.rows)
        BY <3>2, KeyRowsFinite DEF TypeOK, Finite, Shard, Partial
      <3>4. partials' \subseteq partials \cup {q} /\ file' \in Nat
        BY <3>1, <3>2 DEF TypeOK, Shard
      <3>5. partials' \subseteq Partial /\ \A p \in partials' : IsFiniteSet(p.rows)
        BY <3>3, <3>4 DEF TypeOK, Finite
      <3>6. job' \in Jobs /\ faults' \in Nat
        <4>1. PICK d \in BOOLEAN : job' = [job EXCEPT !.dated = d]
          BY <1>2, <2>2 DEF Rewrite
        <4>2. job' \in Jobs
          BY <4>1 DEF TypeOK, Jobs
        <4>3. faults' = faults \/ faults' = faults + 1
          BY <1>2, <2>2 DEF Rewrite, Fault
        <4>4. QED BY <4>2, <4>3 DEF TypeOK
      <3>7. QED
        BY <1>2, <2>2, <3>4, <3>5, <3>6
        DEF Rewrite, FileStep, TypeOK, Finite, policyVars, chanVars, Places
    <2>3. QED BY <2>1, <2>2
  <1>3. CASE Replace
    <2>1. CASE GiveUp
      BY <1>0, <1>3, <2>1 DEF Replace
    <2>2. CASE ~GiveUp
      <3>1. PICK s \in shards, p \in partials :
              /\ shards' = (shards \ {s}) \cup
                                {[s EXCEPT !.rows = p.rows, !.aged = @ /\ job.dated]}
              /\ partials' = partials \ {p}
              /\ job' = [job EXCEPT !.count = @ + Cardinality(OfKey(s.rows))]
        BY <1>3, <2>2 DEF Replace
      <3>2. PICK x : x = [s EXCEPT !.rows = p.rows, !.aged = @ /\ job.dated]
        OBVIOUS
      <3>3. x \in Shard /\ x.rows = p.rows
        BY <3>2 DEF TypeOK, Shard, Partial, Jobs
      <3>4. shards' \subseteq shards \cup {x}
        BY <3>1, <3>2
      <3>5. shards' \subseteq Shard /\ \A y \in shards' : IsFiniteSet(y.rows)
        BY <3>3, <3>4 DEF TypeOK, Finite
      <3>6. Cardinality(OfKey(s.rows)) \in Nat
        BY KeyRowsFinite DEF Finite
      <3>7. job' \in Jobs
        <4>1. PICK n : n = job.count + Cardinality(OfKey(s.rows))
          OBVIOUS
        <4>2. n \in Nat
          BY <3>6, <4>1 DEF TypeOK, Jobs
        <4>3. job' = [job EXCEPT !.count = n]
          BY <3>1, <4>1
        <4>4. QED BY <4>2, <4>3 DEF TypeOK, Jobs
      <3>8. left' \subseteq Turns
        BY <1>3, <2>2, FoundTyped DEF Replace, Leaves, TypeOK
      <3>9. QED
        BY <1>3, <2>2, <3>1, <3>5, <3>7, <3>8
        DEF Replace, FileStep, TypeOK, Finite, policyVars, chanVars, Places
    <2>3. QED BY <2>1, <2>2
  <1>4. ASSUME at \in {"list", "rewrite"}, NEW M \in SUBSET Nat, Answers(M)
        PROVE  /\ erased' \subseteq Turns /\ answer' \in [count : Nat, held : SUBSET Turns]
               /\ missed' \in [Keys -> SUBSET Nat]
    <2>1. job.key \in Keys
      BY <1>4 DEF Forgetting, TypeOK
    <2>2. job.count \in Nat /\ job.held \subseteq Turns
      BY DEF TypeOK, Jobs
    <2>3. answer' \in [count : Nat, held : SUBSET Turns]
      BY <1>4, <2>2 DEF Answers
    <2>4. erased' \subseteq Turns
      BY <1>4, <2>1 DEF Answers, TypeOK
    <2>5. missed' \in [Keys -> SUBSET Nat]
      BY <1>4, <2>1 DEF Answers, TypeOK
    <2>6. QED BY <2>3, <2>4, <2>5
  <1>5. CASE ForgetDone
    <2>1. Return /\ at = "rewrite"
      BY <1>5 DEF ForgetDone
    <2>2. faults' \in Nat
      BY <1>5 DEF ForgetDone, Fault, TypeOK
    <2>3. /\ erased' \subseteq Turns /\ answer' \in [count : Nat, held : SUBSET Turns]
          /\ missed' \in [Keys -> SUBSET Nat]
      <3>1. CASE UNCHANGED <<missed, erased, answer>>
        BY <3>1 DEF TypeOK
      <3>2. CASE Answers(job.missed)
        BY <1>4, <2>1, <3>2 DEF TypeOK, Jobs
      <3>3. QED BY <1>5, <3>1, <3>2 DEF ForgetDone
    <2>4. QED
      BY <1>5, <2>1, <2>2, <2>3, ReturnTyped
      DEF ForgetDone, FileStep, TypeOK, Finite, policyVars, chanVars, diskVars
  <1>6. CASE List
    <2>0. at = "list" /\ FileStep /\ UNCHANGED <<diskVars, left>> /\ Stamps \subseteq Nat
      BY <1>6 DEF List, Stamps, TypeOK, Shard
    <2>1. faults' \in Nat
      BY <1>6 DEF List, Fault, TypeOK
    <2>2. CASE at' = "rewrite"
      <3>1. job' \in Jobs
        BY <1>6, <2>0, <2>2 DEF List, TypeOK, Jobs, Return
      <3>2. UNCHANGED <<file, missed, erased, answer>>
        BY <1>6, <2>2 DEF List, Return
      <3>3. QED
        BY <2>0, <2>1, <2>2, <3>1, <3>2
        DEF FileStep, TypeOK, Finite, policyVars, chanVars, diskVars, Places
    <2>3. CASE Answers(Stamps) /\ Return
      <3>1. /\ erased' \subseteq Turns /\ answer' \in [count : Nat, held : SUBSET Turns]
            /\ missed' \in [Keys -> SUBSET Nat]
        BY <1>4, <2>0, <2>3
      <3>2. QED
        BY <2>0, <2>1, <2>3, <3>1, ReturnTyped
        DEF FileStep, TypeOK, Finite, policyVars, chanVars, diskVars
    <2>4. QED BY <1>6, <2>2, <2>3 DEF List
  <1>7. QED BY <1>1, <1>2, <1>3, <1>5, <1>6


\* The steps of an export, of time and of a restart.
LEMMA TypeOthers ==
    ASSUME TypeOK, Finite, Exporting, Identified,
           ExportSteps \/ Age \/ Crash \/ Stopped
    PROVE  TypeOK' /\ Finite'
  <1> DEFINE Export == [at : ExportPlaces, has : BOOLEAN, glob : SUBSET Nat, tries : 0..2,
                        due : SUBSET Turns, got : SUBSET Rows]
  <1>1. CASE ExportSteps
    <2>1. ASSUME TryAgain, ex.at \in {"list", "bind", "read"} PROVE ex' \in Export
      <3>1. ex.tries \in 0..1
        BY <2>1 DEF Exporting
      <3>2. PICK n \in 0..2, a \in ExportPlaces : ex' = [ex EXCEPT !.at = a, !.tries = n]
        <4>1. ex.tries + 1 \in 0..2
          BY <3>1
        <4>2. QED BY <2>1, <4>1 DEF TryAgain, ExportPlaces
      <3>3. QED BY <3>2 DEF TypeOK
    <2>2. Stamps \subseteq Nat
      BY DEF TypeOK, Shard, Stamps
    <2>3. ex' \in Export /\ ExportStep /\ faults' \in Nat
      <3>0. faults' = faults \/ Fault
        BY <1>1 DEF ExportSteps, ExportList, ExportBind, ExportRead
      <3>a. faults' \in Nat
        BY <3>0 DEF Fault, TypeOK
      <3>1. CASE ExportList
        <4>1. PICK h \in BOOLEAN : ex' = [ex EXCEPT !.at = "bind", !.has = h]
          BY <3>1 DEF ExportList
        <4>2. QED BY <3>1, <3>a, <4>1 DEF ExportList, TypeOK, ExportPlaces
      <3>2. CASE ExportBind
        <4>1. CASE TryAgain
          BY <2>1, <3>2, <3>a, <4>1 DEF ExportBind
        <4>2. CASE ~TryAgain
          <5>1. PICK g \in SUBSET Nat : ex' = [ex EXCEPT !.at = "read", !.glob = g]
            <6>1. \/ ex' = [ex EXCEPT !.at = "read", !.glob = Stamps]
                  \/ ex' = [ex EXCEPT !.at = "read", !.glob = {}]
              BY <3>2, <4>2 DEF ExportBind
            <6>2. QED BY <2>2, <6>1
          <5>2. QED BY <3>2, <3>a, <5>1 DEF ExportBind, TypeOK, ExportPlaces
        <4>3. QED BY <4>1, <4>2
      <3>3. CASE ExportRead
        <4>1. CASE TryAgain
          BY <2>1, <3>3, <3>a, <4>1 DEF ExportRead
        <4>2. CASE ~TryAgain
          <5>1. RowsOn(wal, {s \in shards : s.stamp \in ex.glob}) \subseteq Rows
            BY DEF RowsOn, TypeOK, Shard
          <5>2. PICK g \in SUBSET Rows : ex' = [ex EXCEPT !.at = "done", !.got = g]
            BY <3>3, <4>2, <5>1 DEF ExportRead
          <5>3. QED BY <3>3, <3>a, <5>2 DEF ExportRead, TypeOK, ExportPlaces
        <4>3. QED BY <4>1, <4>2
      <3>4. QED BY <1>1, <3>1, <3>2, <3>3 DEF ExportSteps
    <2>4. QED
      BY <2>3 DEF ExportStep, TypeOK, Finite, policyVars, chanVars, diskVars, forgetVars
  <1>2. CASE Age
    <2>1. PICK s \in shards :
            /\ shards' = (shards \ {s}) \cup {[s EXCEPT !.aged = TRUE]}
            /\ old' = old \cup TurnsIn(s.rows)
      BY <1>2 DEF Age
    <2>2. PICK x : x = [s EXCEPT !.aged = TRUE]
      OBVIOUS
    <2>3. x \in Shard /\ x.rows = s.rows
      BY <2>2 DEF TypeOK, Shard
    <2>4. shards' \subseteq shards \cup {x}
      BY <2>1, <2>2
    <2>5. shards' \subseteq Shard /\ \A y \in shards' : IsFiniteSet(y.rows)
      BY <2>3, <2>4 DEF TypeOK, Finite
    <2>6. old' \subseteq Turns
      BY <2>1 DEF TypeOK, TurnsIn, Shard, Rows
    <2>7. QED
      BY <1>2, <2>5, <2>6
      DEF Age, TypeOK, Finite, policyVars, chanVars, forgetVars
  <1>3. CASE Crash
    <2>1. nextId' \in Nat \ {0}
      BY <1>3, FirstIdIs DEF Crash, Identified
    <2>2. Return /\ lost' \subseteq Turns /\ clock' \in Nat \ {0}
      BY <1>3 DEF Crash, InFlight, TypeOK
    <2>3. ex' \in Export
      <3>1. CASE ex' = ex
        BY <3>1 DEF TypeOK
      <3>2. CASE ex' = [NoExport EXCEPT !.at = "failed"]
        <4>1. ex' = [at |-> "failed", has |-> FALSE, glob |-> {}, tries |-> 0,
                     due |-> {}, got |-> {}]
          BY <3>2 DEF NoExport
        <4>2. QED BY <4>1 DEF ExportPlaces
      <3>3. QED BY <1>3, <3>1, <3>2 DEF Crash
    <2>4. QED
      BY <1>3, <2>1, <2>2, <2>3, ReturnTyped, EmptyBatch
      DEF Crash, TypeOK, Finite, diskVars, forgetVars
  <1>4. CASE Stopped
    BY <1>4 DEF Stopped, vars, TypeOK, Finite, policyVars, chanVars, diskVars, forgetVars
  <1>5. QED BY <1>1, <1>2, <1>3, <1>4

\* A stuttering step keeps all of it.
LEMMA InvStutters ==
    ASSUME ReqlogInv, UNCHANGED vars
    PROVE  ReqlogInv'
  <1>1. OnDisk' = OnDisk /\ InFlight' = InFlight /\ Found' = Found
        /\ Queued' = Queued /\ Buffered' = Buffered
    BY DEF vars, policyVars, chanVars, diskVars, forgetVars, OnDisk, InFlight, Found,
           Queued, Buffered
  <1>2. TypeOK' /\ Finite' /\ Channel' /\ Ordered' /\ Exporting'
    BY <1>1 DEF ReqlogInv, vars, policyVars, chanVars, diskVars, forgetVars,
                TypeOK, Finite, Channel, Ordered, Exporting
  <1>3. Placed' /\ Identified'
    BY <1>1 DEF ReqlogInv, vars, policyVars, chanVars, diskVars, forgetVars,
                Placed, Accounted, Whereabouts, Identified
  <1>4. Files' /\ Forgetting'
    BY <1>1 DEF ReqlogInv, vars, policyVars, chanVars, diskVars, forgetVars,
                Files, Forgetting, OfKey, ErasedIsGone
  <1>5. QED BY <1>2, <1>3, <1>4 DEF ReqlogInv

\* Every step keeps the types.
LEMMA TypeStep ==
    ASSUME ReqlogInv, Next
    PROVE  TypeOK' /\ Finite'
  <1>1. TypeOK /\ Finite /\ Exporting /\ Identified /\ Forgetting
    BY DEF ReqlogInv
  <1>2. CASE WorkerStep
    BY <1>1, <1>2, TypeTakes, TypeRotates, TypeForgets DEF WorkerStep
  <1>3. CASE ~WorkerStep
    BY <1>1, <1>3, TypeCallers, TypeOthers DEF Next
  <1>4. QED BY <1>2, <1>3


-----------------------------------------------------------------------------
(* The channel.                                                            *)

\* A message is of one kind.
LEMMA KindsApart ==
    /\ \A t, u : Record(t) = Record(u) => t = u
    /\ \A t : Record(t).op = "record"
    /\ \A k : ForgetMsg(k).op = "forget" /\ ForgetMsg(k).arg = k
    /\ \A o : Control(o).op = o
  BY DEF Record, ForgetMsg, Control

\* An empty channel and an empty buffer.
LEMMA ChannelEmpties ==
    ASSUME queue' = <<>>, buf' = <<>>
    PROVE  /\ Channel' /\ Ordered' /\ Queued' = {} /\ Buffered' = {}
           /\ \A i \in 1..Len(queue') : FALSE
  <1>1. \A i \in 1..Len(queue') : FALSE
    OBVIOUS
  <1>2. \A i \in 1..Len(buf') : FALSE
    OBVIOUS
  <1>3. Queued' = {} /\ Buffered' = {}
    BY <1>1, <1>2 DEF Queued, Buffered
  <1>4. QED BY <1>1, <1>2, <1>3 DEF Channel, Ordered

\* A step that leaves the channel and what it is about alone.
LEMMA ChannelStays ==
    ASSUME ReqlogInv, UNCHANGED <<queue, buf, ts, clock, due, named>>
    PROVE  Channel' /\ Ordered' /\ Queued' = Queued /\ Buffered' = Buffered
  <1>1. Queued' = Queued /\ Buffered' = Buffered
    BY DEF Queued, Buffered
  <1>2. QED BY <1>1 DEF ReqlogInv, Channel, Ordered

\* The worker takes a message, and moves or empties its buffer.
LEMMA ChannelTakes ==
    ASSUME ReqlogInv, queue # <<>>, queue' = Tail(queue), buf' = <<>>,
           UNCHANGED <<ts, clock, due, named>>
    PROVE  /\ Channel' /\ Ordered' /\ Buffered' = {}
           /\ Queued' = {t \in Queued : Head(queue) # Record(t)}
           /\ \A i \in 1..Len(queue') : i + 1 \in 1..Len(queue) /\ queue'[i] = queue[i + 1]
  <1>0. TypeOK /\ Channel /\ Ordered
    BY DEF ReqlogInv
  <1>1. /\ Len(queue) \in Nat /\ Len(queue) >= 1 /\ Len(queue') = Len(queue) - 1
        /\ Head(queue) = queue[1]
        /\ \A i \in 1..Len(queue') : i + 1 \in 1..Len(queue) /\ queue'[i] = queue[i + 1]
    BY <1>0, TailTyped DEF TypeOK
  <1>2. \A i \in 1..Len(buf') : FALSE
    OBVIOUS
  <1>3. Buffered' = {}
    BY <1>2 DEF Buffered
  <1>4. \A i, j \in 1..Len(queue') :
          queue'[i] = queue'[j] /\ queue'[i].op \in {"record", "export"} => i = j
    BY <1>0, <1>1 DEF Channel
  <1>5. Queued' = {t \in Queued : Head(queue) # Record(t)}
    <2>1. ASSUME NEW t \in Turns, NEW i \in 1..Len(queue'), queue'[i] = Record(t)
          PROVE  t \in Queued /\ Head(queue) # Record(t)
      <3>1. queue[i + 1] = Record(t) /\ i + 1 \in 1..Len(queue) /\ 1 \in 1..Len(queue)
        BY <1>1, <2>1
      <3>2. queue[1] # Record(t)
        BY <1>0, <3>1, KindsApart DEF Channel
      <3>3. QED BY <1>1, <3>1, <3>2 DEF Queued
    <2>2. ASSUME NEW t \in Queued, Head(queue) # Record(t)
          PROVE  t \in Queued'
      <3>1. PICK i \in 1..Len(queue) : queue[i] = Record(t)
        BY DEF Queued
      <3>2. i # 1
        BY <1>1, <2>2, <3>1
      <3>3. i - 1 \in 1..Len(queue') /\ queue'[i - 1] = queue[i - 1 + 1]
        BY <1>1, <3>2
      <3>4. queue'[i - 1] = Record(t)
        BY <3>1, <3>3
      <3>5. QED BY <3>3, <3>4 DEF Queued
    <2>3. QED BY <2>1, <2>2 DEF Queued
  <1>6. \A t \in Queued' : ts'[t] = clock'
    BY <1>0, <1>5 DEF Channel
  <1>7. Channel'
    BY <1>2, <1>3, <1>4, <1>6 DEF Channel
  <1>8. \A i \in 1..Len(queue') : queue'[i].op = "forget" => queue'[i].arg \in named
    BY <1>0, <1>1 DEF Ordered
  <1>9. \A i, j \in 1..Len(queue') : \A t \in Turns :
          queue'[i].op = "forget" /\ queue'[j] = Record(t) /\ i < j
             => t \notin due[queue'[i].arg]
    BY <1>0, <1>1 DEF Ordered
  <1>10. Ordered'
    BY <1>8, <1>9 DEF Ordered
  <1>11. QED BY <1>1, <1>3, <1>5, <1>7, <1>10

\* The worker takes a record into its buffer.
LEMMA ChannelBuffers ==
    ASSUME ReqlogInv, queue # <<>>, queue' = Tail(queue), NEW t \in Turns,
           Head(queue) = Record(t), buf' = Append(buf, t),
           UNCHANGED <<ts, clock, due, named>>
    PROVE  /\ Channel' /\ Ordered' /\ Buffered' = Buffered \cup {t}
           /\ Queued' = Queued \ {t} /\ t \in Queued
           /\ \A i \in 1..Len(queue') : i + 1 \in 1..Len(queue) /\ queue'[i] = queue[i + 1]
  <1>0. TypeOK /\ Channel /\ Ordered
    BY DEF ReqlogInv
  <1>1. /\ Len(queue) \in Nat /\ Len(queue) >= 1 /\ Len(queue') = Len(queue) - 1
        /\ Head(queue) = queue[1]
        /\ \A i \in 1..Len(queue') : i + 1 \in 1..Len(queue) /\ queue'[i] = queue[i + 1]
    BY <1>0, TailTyped DEF TypeOK
  <1>2. /\ Len(buf) \in Nat /\ Len(buf') = Len(buf) + 1 /\ buf'[Len(buf) + 1] = t
        /\ \A i \in 1..Len(buf) : buf'[i] = buf[i]
    BY <1>0 DEF TypeOK
  <1>3. t \in Queued
    BY <1>1 DEF Queued
  <1>4. Buffered' = Buffered \cup {t}
    <2>1. \A u \in Buffered' : u \in Buffered \/ u = t
      BY <1>2 DEF Buffered
    <2>2. \A u \in Buffered : u \in Buffered'
      BY <1>2 DEF Buffered
    <2>3. Len(buf) + 1 \in 1..Len(buf')
      BY <1>2
    <2>4. t \in Buffered'
      BY <1>2, <2>3 DEF Buffered
    <2>5. QED BY <2>1, <2>2, <2>4
  <1>5. \A i, j \in 1..Len(queue') :
          queue'[i] = queue'[j] /\ queue'[i].op \in {"record", "export"} => i = j
    BY <1>0, <1>1 DEF Channel
  <1>6. Queued' = Queued \ {t}
    <2>1. ASSUME NEW u \in Turns, NEW i \in 1..Len(queue'), queue'[i] = Record(u)
          PROVE  u \in Queued /\ u # t
      <3>1. queue[i + 1] = Record(u) /\ i + 1 \in 1..Len(queue) /\ 1 \in 1..Len(queue)
        BY <1>1, <2>1
      <3>2. queue[1] # Record(u)
        BY <1>0, <3>1, KindsApart DEF Channel
      <3>3. QED BY <1>1, <3>1, <3>2 DEF Queued
    <2>2. ASSUME NEW u \in Queued, u # t
          PROVE  u \in Queued'
      <3>1. PICK i \in 1..Len(queue) : queue[i] = Record(u)
        BY DEF Queued
      <3>2. i # 1
        BY <1>1, <2>2, <3>1, KindsApart
      <3>3. i - 1 \in 1..Len(queue') /\ queue'[i - 1] = queue[i - 1 + 1]
        BY <1>1, <3>2
      <3>4. queue'[i - 1] = Record(u)
        BY <3>1, <3>3
      <3>5. QED BY <3>3, <3>4 DEF Queued
    <2>3. QED BY <2>1, <2>2 DEF Queued
  <1>7. t \notin Buffered
    BY <1>0, <1>3 DEF Channel
  <1>8. \A i, j \in 1..Len(buf') : buf'[i] = buf'[j] => i = j
    <2>1. \A i \in 1..Len(buf) : buf[i] # t
      BY <1>7 DEF Buffered
    <2>2. \A i \in 1..Len(buf') : i \in 1..Len(buf) \/ i = Len(buf) + 1
      BY <1>2
    <2>3. QED BY <1>0, <1>2, <2>1, <2>2 DEF Channel
  <1>9. Queued' \cap Buffered' = {}
    BY <1>0, <1>4, <1>6 DEF Channel
  <1>10. \A u \in Queued' \cup Buffered' : ts'[u] = clock'
    BY <1>0, <1>3, <1>4, <1>6 DEF Channel
  <1>11. Channel'
    BY <1>5, <1>8, <1>9, <1>10 DEF Channel
  <1>12. \A i \in 1..Len(queue') : queue'[i].op = "forget" => queue'[i].arg \in named
    BY <1>0, <1>1 DEF Ordered
  <1>13. \A i, j \in 1..Len(queue') : \A u \in Turns :
           queue'[i].op = "forget" /\ queue'[j] = Record(u) /\ i < j
              => u \notin due[queue'[i].arg]
    BY <1>0, <1>1 DEF Ordered
  <1>14. Ordered'
    BY <1>12, <1>13 DEF Ordered
  <1>15. QED BY <1>1, <1>3, <1>4, <1>6, <1>11, <1>14


\* A message is sent.
LEMMA ChannelSends ==
    ASSUME ReqlogInv, Len(queue) < QueueSize, NEW m \in Messages,
           queue' = Append(queue, m), buf' = buf, clock' = clock,
           ts' = ts, named \subseteq named',
           \A i \in 1..Len(queue) : queue[i].op = "forget" =>
              due'[queue[i].arg] = due[queue[i].arg],
           m.op # "record", m.op = "forget" => m.arg \in named',
           m.op = "export" => ex.at = "off"
    PROVE  /\ Channel' /\ Ordered' /\ Queued' = Queued /\ Buffered' = Buffered
           /\ \A i \in 1..Len(queue') : queue'[i].op = "export" =>
                 m.op = "export" \/ (i \in 1..Len(queue) /\ queue[i].op = "export")
  <1>0. TypeOK /\ Channel /\ Ordered /\ Exporting
    BY DEF ReqlogInv
  <1>1. /\ Len(queue) \in Nat /\ Len(queue') = Len(queue) + 1
        /\ queue'[Len(queue) + 1] = m
        /\ \A i \in 1..Len(queue) : queue'[i] = queue[i]
    BY <1>0, AppendTyped DEF TypeOK
  <1>2. \A i \in 1..Len(queue') : i \in 1..Len(queue) \/ i = Len(queue) + 1
    BY <1>1
  <1>3. Queued' = Queued
    <2>1. \A t \in Turns : m # Record(t)
      BY KindsApart
    <2>2. \A t \in Queued' : t \in Queued
      BY <1>1, <1>2, <2>1 DEF Queued
    <2>3. \A t \in Queued : t \in Queued'
      BY <1>1 DEF Queued
    <2>4. QED BY <2>2, <2>3
  <1>4. Buffered' = Buffered
    BY DEF Buffered
  <1>5. \A i, j \in 1..Len(queue') :
          queue'[i] = queue'[j] /\ queue'[i].op \in {"record", "export"} => i = j
    <2>1. \A i \in 1..Len(queue) : queue[i].op = "export" => queue[i] # m
      BY <1>0 DEF Exporting
    <2>2. \A i \in 1..Len(queue) : queue[i].op = "record" => queue[i] # m
      OBVIOUS
    <2>3. QED BY <1>0, <1>1, <1>2, <2>1, <2>2 DEF Channel
  <1>6. Channel'
    BY <1>0, <1>3, <1>4, <1>5 DEF Channel
  <1>7. \A i \in 1..Len(queue') : queue'[i].op = "forget" => queue'[i].arg \in named'
    BY <1>0, <1>1, <1>2 DEF Ordered
  <1>8. ASSUME NEW i \in 1..Len(queue'), NEW j \in 1..Len(queue'), NEW t \in Turns,
               queue'[i].op = "forget", queue'[j] = Record(t), i < j
        PROVE  t \notin due'[queue'[i].arg]
    <2>1. j \in 1..Len(queue) /\ i \in 1..Len(queue)
      BY <1>1, <1>2, <1>8, KindsApart
    <2>2. queue[i].op = "forget" /\ queue[j] = Record(t) /\ queue'[i] = queue[i]
      BY <1>1, <1>8, <2>1
    <2>3. QED BY <1>0, <1>8, <2>1, <2>2 DEF Ordered
  <1>9. Ordered'
    BY <1>7, <1>8 DEF Ordered
  <1>10. QED BY <1>1, <1>2, <1>3, <1>4, <1>6, <1>9

\* A record is accepted.
LEMMA ChannelLogs ==
    ASSUME ReqlogInv, Len(queue) < QueueSize, NEW t \in Turns, ts[t] = 0,
           queue' = Append(queue, Record(t)), ts' = [ts EXCEPT ![t] = clock],
           UNCHANGED <<buf, clock, named, due>>
    PROVE  /\ Channel' /\ Ordered' /\ Queued' = Queued \cup {t} /\ Buffered' = Buffered
           /\ t \notin Queued /\ t \notin Buffered
           /\ \A i \in 1..Len(queue') : queue'[i].op = "export" =>
                 i \in 1..Len(queue) /\ queue[i].op = "export"
  <1>0. TypeOK /\ Channel /\ Ordered /\ Forgetting
    BY DEF ReqlogInv
  <1>1. /\ Len(queue) \in Nat /\ Len(queue') = Len(queue) + 1
        /\ queue'[Len(queue) + 1] = Record(t)
        /\ \A i \in 1..Len(queue) : queue'[i] = queue[i]
    <2>1. Record(t) \in Messages
      BY DEF Messages
    <2>2. QED BY <1>0, <2>1, AppendTyped DEF TypeOK
  <1>2. \A i \in 1..Len(queue') : i \in 1..Len(queue) \/ i = Len(queue) + 1
    BY <1>1
  <1>3. /\ clock # 0 /\ t \notin Queued /\ t \notin Buffered
        /\ \A u \in Turns : ts'[u] = IF u = t THEN clock ELSE ts[u]
    BY <1>0 DEF TypeOK, Channel
  <1>4. Queued' = Queued \cup {t}
    <2>1. \A u \in Queued' : u \in Queued \/ u = t
      BY <1>1, <1>2, KindsApart DEF Queued
    <2>2. \A u \in Queued : u \in Queued'
      BY <1>1 DEF Queued
    <2>3. Len(queue) + 1 \in 1..Len(queue')
      BY <1>1
    <2>4. t \in Queued'
      BY <1>1, <2>3 DEF Queued
    <2>5. QED BY <2>1, <2>2, <2>4
  <1>5. Buffered' = Buffered
    BY DEF Buffered
  <1>6. \A i, j \in 1..Len(queue') :
          queue'[i] = queue'[j] /\ queue'[i].op \in {"record", "export"} => i = j
    <2>1. \A i \in 1..Len(queue) : queue[i] # Record(t)
      BY <1>3 DEF Queued
    <2>2. QED BY <1>0, <1>1, <1>2, <2>1 DEF Channel
  <1>7. \A u \in Queued' \cup Buffered' : ts'[u] = clock'
    <2>1. \A u \in Queued \cup Buffered : ts[u] = clock /\ u \in Turns
      BY <1>0 DEF Channel, Queued, Buffered
    <2>2. QED BY <1>3, <1>4, <1>5, <2>1
  <1>8. Queued' \cap Buffered' = {}
    BY <1>0, <1>3, <1>4, <1>5 DEF Channel
  <1>9. Channel'
    BY <1>0, <1>6, <1>7, <1>8 DEF Channel
  <1>10. \A i \in 1..Len(queue') : queue'[i].op = "forget" => queue'[i].arg \in named
    BY <1>0, <1>1, <1>2, KindsApart DEF Ordered
  <1>11. ASSUME NEW i \in 1..Len(queue'), NEW j \in 1..Len(queue'), NEW u \in Turns,
                queue'[i].op = "forget", queue'[j] = Record(u), i < j
         PROVE  u \notin due[queue'[i].arg]
    <2>1. i \in 1..Len(queue)
      BY <1>1, <1>2, <1>11, KindsApart
    <2>2. queue'[i] = queue[i] /\ queue[i].arg \in named /\ named \subseteq Keys
      BY <1>0, <1>1, <1>11, <2>1 DEF Ordered, TypeOK
    <2>3. CASE j \in 1..Len(queue)
      BY <1>0, <1>1, <1>11, <2>1, <2>2, <2>3 DEF Ordered
    <2>4. CASE j = Len(queue) + 1
      <3>1. u = t
        BY <1>1, <1>11, <2>4, KindsApart
      <3>2. QED BY <1>0, <2>2, <3>1 DEF Forgetting
    <2>5. QED BY <1>2, <2>3, <2>4
  <1>12. Ordered'
    BY <1>10, <1>11 DEF Ordered
  <1>13. QED BY <1>1, <1>2, <1>3, <1>4, <1>5, <1>9, <1>12, KindsApart


\* A turn's flush in TakeShutdown is one of a batch, as in the other steps.
LEMMA ShutdownFlushes ==
    ASSUME TakeShutdown
    PROVE  \/ /\ wal' = wal \cup NewRows(buf) /\ nextId' = nextId + Len(buf)
              /\ lost' = lost \cup Queued
           \/ /\ wal' = wal /\ nextId' = nextId
              /\ lost' = lost \cup Queued \cup Elems(buf)
  BY DEF TakeShutdown, Queued, NewRows

\* Every step keeps the order of the channel and the state of the export.
LEMMA ChannelStep ==
    ASSUME ReqlogInv, Next
    PROVE  Channel' /\ Ordered' /\ Exporting'
  <1>0. TypeOK /\ Channel /\ Ordered /\ Exporting
    BY DEF ReqlogInv
  <1>a. ASSUME ex' = ex,
               \A i \in 1..Len(queue') : queue'[i].op = "export" => ex.at = "asked"
        PROVE  Exporting'
    BY <1>0, <1>a DEF Exporting
  <1>b. \A i \in 1..Len(queue) : queue[i].op = "export" => ex.at = "asked"
    BY <1>0 DEF Exporting
  <1>1. ASSUME NEW t \in Turns, Log(t) PROVE Channel' /\ Ordered' /\ Exporting'
    <2>1. CASE at # "stopped" /\ Len(queue) < QueueSize
      <3>1. /\ queue' = Append(queue, Record(t)) /\ ts[t] = 0
            /\ ts' = [ts EXCEPT ![t] = clock]
            /\ UNCHANGED <<buf, clock, named, due, ex>>
        BY <1>1, <2>1 DEF Log, forgetVars
      <3>2. /\ Channel' /\ Ordered'
            /\ \A i \in 1..Len(queue') : queue'[i].op = "export" =>
                 i \in 1..Len(queue) /\ queue[i].op = "export"
        BY <2>1, <3>1, ChannelLogs
      <3>3. QED BY <1>a, <1>b, <3>1, <3>2
    <2>2. CASE ~(at # "stopped" /\ Len(queue) < QueueSize)
      <3>1. /\ ts' = [ts EXCEPT ![t] = clock] /\ ts[t] = 0
            /\ UNCHANGED <<queue, buf, clock, named, due, ex>>
        BY <1>1, <2>2 DEF Log, forgetVars
      <3>2. Queued' = Queued /\ Buffered' = Buffered
        BY <3>1 DEF Queued, Buffered
      <3>3. \A u \in Queued \cup Buffered : ts'[u] = clock
        <4>1. \A u \in Queued \cup Buffered : ts[u] = clock /\ u \in Turns
          BY <1>0 DEF Channel, Queued, Buffered
        <4>2. clock # 0 /\ ts \in [Turns -> Nat]
          BY <1>0 DEF TypeOK
        <4>3. QED BY <3>1, <4>1, <4>2
      <3>4. Channel' /\ Ordered'
        BY <1>0, <3>1, <3>2, <3>3 DEF Channel, Ordered
      <3>5. QED BY <1>a, <1>b, <3>1, <3>4
    <2>3. QED BY <2>1, <2>2
  <1>2. ASSUME NEW k \in Keys, SendForget(k) PROVE Channel' /\ Ordered' /\ Exporting'
    <2>1. PICK m \in Messages : m = ForgetMsg(k)
      BY DEF Messages
    <2>2. m.op = "forget" /\ m.arg = k
      BY <2>1, KindsApart
    <2>3. /\ queue' = Append(queue, m) /\ Len(queue) < QueueSize /\ k \notin named
          /\ named' = named \cup {k}
          /\ \A i \in Keys : i # k => due'[i] = due[i]
          /\ UNCHANGED <<buf, clock, ts, ex>>
      BY <1>0, <1>2, <2>1 DEF SendForget, Send, TypeOK
    <2>4. \A i \in 1..Len(queue) : queue[i].op = "forget" =>
              due'[queue[i].arg] = due[queue[i].arg]
      BY <1>0, <2>3 DEF Ordered, TypeOK
    <2>5. /\ Channel' /\ Ordered'
          /\ \A i \in 1..Len(queue') : queue'[i].op = "export" =>
                 m.op = "export" \/ (i \in 1..Len(queue) /\ queue[i].op = "export")
      BY <2>2, <2>3, <2>4, ChannelSends
    <2>6. QED BY <1>a, <1>b, <2>2, <2>3, <2>5
  <1>3. ASSUME ApplyPolicy \/ Age \/ Stopped PROVE Channel' /\ Ordered' /\ Exporting'
    <2>1. UNCHANGED <<queue, buf, ts, clock, due, named, ex>>
      BY <1>3 DEF ApplyPolicy, Age, Stopped, vars, chanVars, forgetVars
    <2>2. QED BY <1>a, <1>b, <2>1, ChannelStays
  <1>4. ASSUME SendControl PROVE Channel' /\ Ordered' /\ Exporting'
    <2>1. PICK m \in Messages : Send(m) /\ m.op \in {"flush", "rotate", "shutdown"}
      <3>1. CASE \E o \in Calls \cap {"flush", "rotate"} : Send(Control(o))
        BY <3>1, KindsApart DEF Messages
      <3>2. CASE Send(Control("shutdown"))
        BY <3>2, KindsApart DEF Messages
      <3>3. QED BY <1>4, <3>1, <3>2 DEF SendControl
    <2>2. /\ queue' = Append(queue, m) /\ Len(queue) < QueueSize
          /\ UNCHANGED <<buf, clock, ts, ex, named, due>>
      BY <1>4, <2>1 DEF SendControl, Send, forgetVars
    <2>3. /\ Channel' /\ Ordered'
          /\ \A i \in 1..Len(queue') : queue'[i].op = "export" =>
                 m.op = "export" \/ (i \in 1..Len(queue) /\ queue[i].op = "export")
      BY <2>1, <2>2, ChannelSends
    <2>4. QED BY <1>a, <1>b, <2>1, <2>2, <2>3
  <1>5. ASSUME SendExport PROVE Channel' /\ Ordered' /\ Exporting'
    <2>1. PICK m \in Messages : m = Control("export")
      BY DEF Messages
    <2>2. /\ queue' = Append(queue, m) /\ Len(queue) < QueueSize /\ ex.at = "off"
          /\ m.op = "export" /\ UNCHANGED <<buf, clock, ts, named, due>>
      BY <1>5, <2>1, KindsApart DEF SendExport, Send, forgetVars
    <2>3. Channel' /\ Ordered'
      BY <2>2, ChannelSends
    <2>4. ex'.at = "asked" /\ ex'.tries = 0
      BY <1>5 DEF SendExport, NoExport
    <2>5. QED BY <2>3, <2>4 DEF Exporting
  <1>6. ASSUME NEW t \in Turns, TakeRecord(t) PROVE Channel' /\ Ordered' /\ Exporting'
    <2>1. /\ queue # <<>> /\ queue' = Tail(queue) /\ Head(queue) = Record(t)
          /\ UNCHANGED <<ts, clock, due, named, ex>>
      BY <1>6 DEF TakeRecord, Taken
    <2>2. buf' = Append(buf, t) \/ buf' = <<>>
      BY <1>6 DEF TakeRecord, FlushMaybeRotate, FlushOk, FlushFails
    <2>3. /\ Channel' /\ Ordered'
          /\ \A i \in 1..Len(queue') : i + 1 \in 1..Len(queue) /\ queue'[i] = queue[i + 1]
      <3>1. CASE buf' = <<>>
        BY <2>1, <3>1, ChannelTakes
      <3>2. CASE buf' = Append(buf, t)
        BY <2>1, <3>2, ChannelBuffers
      <3>3. QED BY <2>2, <3>1, <3>2
    <2>4. QED BY <1>a, <1>b, <2>1, <2>3
  <1>7. ASSUME \/ \E k \in Keys : TakeForget(k)
               \/ TakeFlush \/ TakeRotate
        PROVE  Channel' /\ Ordered' /\ Exporting'
    <2>1. /\ queue # <<>> /\ queue' = Tail(queue) /\ buf' = <<>>
          /\ UNCHANGED <<ts, clock, due, named, ex>>
      BY <1>7 DEF TakeForget, TakeFlush, TakeRotate, Taken, FlushOk, FlushFails
    <2>2. /\ Channel' /\ Ordered'
          /\ \A i \in 1..Len(queue') : i + 1 \in 1..Len(queue) /\ queue'[i] = queue[i + 1]
      BY <2>1, ChannelTakes
    <2>3. QED BY <1>a, <1>b, <2>1, <2>2
  <1>8. ASSUME IdleTick PROVE Channel' /\ Ordered' /\ Exporting'
    <2>1. queue' = <<>> /\ buf' = <<>> /\ ex' = ex
      BY <1>8 DEF IdleTick, FlushMaybeRotate, FlushOk, FlushFails
    <2>2. QED BY <1>a, <2>1, ChannelEmpties
  <1>9. ASSUME TakeExport PROVE Channel' /\ Ordered' /\ Exporting'
    <2>1. /\ queue # <<>> /\ queue' = Tail(queue) /\ buf' = <<>>
          /\ Head(queue) = Control("export")
          /\ UNCHANGED <<ts, clock, due, named>>
      BY <1>9 DEF TakeExport, Taken, FlushOk, FlushFails
    <2>2. /\ Channel' /\ Ordered'
          /\ \A i \in 1..Len(queue') : i + 1 \in 1..Len(queue) /\ queue'[i] = queue[i + 1]
      BY <2>1, ChannelTakes
    <2>3. Len(queue) \in Nat /\ Len(queue) >= 1 /\ queue[1] = Control("export")
            /\ queue \in Seq(Messages)
      BY <1>0, <2>1, TailTyped DEF TypeOK
    <2>4. \A i \in 1..Len(queue) : queue[i].op = "export" => queue[i] = Control("export")
      <3>1. \A i \in 1..Len(queue) : queue[i] \in Messages
        BY <2>3
      <3>2. \A m \in Messages : m.op = "export" => m = Control("export")
        BY MessageKinds, KindsApart
      <3>3. QED BY <3>1, <3>2
    <2>5. \A i \in 1..Len(queue') : queue'[i].op # "export"
      <3>1. ASSUME NEW i \in 1..Len(queue'), queue'[i].op = "export" PROVE FALSE
        <4>1. queue[i + 1] = queue[1] /\ i + 1 \in 1..Len(queue) /\ 1 \in 1..Len(queue)
                /\ queue[1].op = "export"
          BY <2>2, <2>3, <2>4, <3>1, KindsApart
        <4>2. i + 1 = 1
          BY <1>0, <4>1 DEF Channel
        <4>3. QED BY <4>2
      <3>2. QED BY <3>1
    <2>6. ex.at = "asked" /\ ex.tries = 0
      BY <1>0, <2>3, KindsApart DEF Exporting
    <2>7. ex'.at \in {"list", "failed"} /\ ex'.tries = 0
      BY <1>0, <1>9, <2>6 DEF TakeExport, TypeOK
    <2>8. QED BY <2>2, <2>5, <2>7 DEF Exporting
  <1>10. ASSUME TakeShutdown \/ Crash PROVE Channel' /\ Ordered' /\ Exporting'
    <2>1. queue' = <<>> /\ buf' = <<>>
      BY <1>10 DEF TakeShutdown, Crash
    <2>2. ex' = ex \/ ex'.at = "failed"
      BY <1>0, <1>10 DEF TakeShutdown, Crash, NoExport, TypeOK
    <2>3. CASE ex' = ex
      BY <1>a, <2>1, <2>3, ChannelEmpties
    <2>4. CASE ex'.at = "failed"
      BY <2>1, <2>4, ChannelEmpties DEF Exporting
    <2>5. QED BY <2>2, <2>3, <2>4
  <1>11. ASSUME Copy \/ Seal \/ Delete \/ Prune \/ Erase \/ List \/ Rewrite \/ Replace \/ ForgetDone
         PROVE  Channel' /\ Ordered' /\ Exporting'
    <2>1. FileStep
      BY <1>11 DEF Copy, Seal, Delete, Prune, Erase, List, Rewrite, Replace, ForgetDone
    <2>2. UNCHANGED <<queue, buf, ts, clock, due, named, ex>>
      BY <2>1 DEF FileStep, chanVars
    <2>3. QED BY <1>a, <1>b, <2>2, ChannelStays
  <1>12. ASSUME ExportSteps PROVE Channel' /\ Ordered' /\ Exporting'
    <2>1. UNCHANGED <<queue, buf, ts, clock, due, named>>
      BY <1>12 DEF ExportSteps, ExportList, ExportBind, ExportRead, ExportStep,
                   chanVars, forgetVars
    <2>2. ex.at \in {"list", "bind", "read"} /\ ex.tries \in 0..1
      BY <1>0, <1>12 DEF ExportSteps, ExportList, ExportBind, ExportRead, Exporting
    <2>3. \A i \in 1..Len(queue') : queue'[i].op # "export"
      BY <1>b, <2>1, <2>2
    <2>4. /\ ex'.at # "asked"
          /\ ex'.at \in {"list", "bind", "read"} => ex'.tries \in 0..1
      <3>1. CASE TryAgain
        BY <1>0, <2>2, <3>1 DEF TryAgain, TypeOK
      <3>2. CASE ~TryAgain
        BY <1>0, <1>12, <2>2, <3>2
        DEF ExportSteps, ExportList, ExportBind, ExportRead, TypeOK
      <3>3. QED BY <3>1, <3>2
    <2>5. QED BY <2>1, <2>3, <2>4, ChannelStays DEF Exporting
  <1>13. QED
    BY <1>1, <1>2, <1>3, <1>4, <1>5, <1>6, <1>7, <1>8, <1>9, <1>10, <1>11, <1>12
    DEF Next, WorkerStep


-----------------------------------------------------------------------------
(* What the worker does with a message.                                    *)

\* The turns of b are flushed, those of G go down with the channel: what the
\* steps that take a message or a tick have in common.
Settles(b, G) ==
    /\ b \in Seq(Turns) /\ Distinct(b)
    /\ Elems(b) \cup G \subseteq InFlight /\ Elems(b) \cap G = {}
    /\ InFlight' = InFlight \ (Elems(b) \cup G)
    /\ \/ /\ wal' = wal \cup NewRows(b) /\ nextId' = nextId + Len(b)
          /\ lost' = lost \cup G
       \/ /\ wal' = wal /\ nextId' \in nextId..(nextId + Len(b))
          /\ lost' = lost \cup G \cup Elems(b)
    /\ at = "idle" /\ at' \in {"idle", "copy", "delete", "erase", "stopped"}
    /\ at' = "delete" => wal' = {}
    /\ at' = "erase" => job'.key \in named /\ due[job'.key] \cap InFlight' = {}
    /\ UNCHANGED <<shards, partials, stamp, ts, clock, dropped, left, old, due, named,
                   missed, erased>>

\* A flush does one of the two things Settles allows.
LEMMA FlushDoes ==
    ASSUME TypeOK, NEW b \in Seq(Turns), FlushOk(b) \/ FlushFails(b)
    PROVE  /\ buf' = <<>>
           /\ \/ /\ wal' = wal \cup NewRows(b) /\ nextId' = nextId + Len(b)
                 /\ lost' = lost \cup {}
              \/ /\ wal' = wal /\ nextId' \in nextId..(nextId + Len(b))
                 /\ lost' = lost \cup {} \cup Elems(b)
  <1>1. CASE FlushOk(b)
    BY <1>1 DEF FlushOk, NewRows
  <1>2. CASE FlushFails(b)
    <2>1. nextId \in Nat /\ Len(b) \in Nat
      BY DEF TypeOK
    <2>2. nextId' \in nextId..(nextId + Len(b))
      BY <1>2, <2>1 DEF FlushFails
    <2>3. QED BY <1>2, <2>2 DEF FlushFails
  <1>3. QED BY <1>1, <1>2

\* The empty batch.
LEMMA NoBatch == Elems(<<>>) = {} /\ NewRows(<<>>) = {} /\ Distinct(<<>>)
  BY DEF Elems, NewRows, Distinct

\* The buffer is a batch of distinct turns.
LEMMA BufferIs ==
    ASSUME ReqlogInv
    PROVE  /\ buf \in Seq(Turns) /\ Distinct(buf)
           /\ Elems(buf) = Buffered
  BY DEF ReqlogInv, TypeOK, Channel, Distinct, Elems, Buffered

\* Every step that takes a message or a tick settles a batch.
LEMMA TakesSettle ==
    ASSUME ReqlogInv,
           \/ \E t \in Turns : TakeRecord(t)
           \/ \E k \in Keys : TakeForget(k)
           \/ IdleTick \/ TakeFlush \/ TakeRotate \/ TakeExport \/ TakeShutdown
    PROVE  \E b \in Seq(Turns), G \in SUBSET Turns : Settles(b, G)
  <1>0. TypeOK /\ Channel /\ Ordered
    BY DEF ReqlogInv
  <1>1. ASSUME NEW t \in Turns, TakeRecord(t)
        PROVE  \E b \in Seq(Turns), G \in SUBSET Turns : Settles(b, G)
    <2>1. /\ queue # <<>> /\ queue' = Tail(queue) /\ Head(queue) = Record(t)
          /\ at = "idle"
          /\ UNCHANGED <<shards, partials, stamp, ts, clock, dropped, left, old, due,
                         named, missed, erased>>
      BY <1>1 DEF TakeRecord, Taken
    <2>2. t \in Queued /\ t \notin Buffered
      <3>1. t \in Queued
        BY <1>0, <2>1, TailTyped DEF Queued
      <3>2. QED BY <1>0, <3>1 DEF Channel
    <2>3. CASE Len(Append(buf, t)) < BatchFlush
      <3>1. /\ buf' = Append(buf, t) /\ UNCHANGED <<wal, nextId, lost, at>>
        BY <1>1, <2>3 DEF TakeRecord
      <3>2. InFlight' = InFlight
        BY <2>1, <3>1, ChannelBuffers, InFlightIs
      <3>3. nextId \in Nat /\ wal \cup {} = wal /\ lost \cup {} = lost
        BY <1>0 DEF TypeOK
      <3>4. Settles(<<>>, {})
        BY <2>1, <3>1, <3>2, <3>3, NoBatch, EmptyBatch DEF Settles
      <3>5. QED BY <3>4, EmptyBatch
    <2>4. CASE ~(Len(Append(buf, t)) < BatchFlush)
      <3>1. PICK b : b = Append(buf, t)
        OBVIOUS
      <3>2. FlushOk(b) \/ FlushFails(b)
        BY <1>1, <2>4, <3>1 DEF TakeRecord, FlushMaybeRotate
      <3>3. at' \in {"idle", "copy", "delete"} /\ (at' = "delete" => wal' = {})
        BY <1>1, <2>4 DEF TakeRecord, FlushMaybeRotate, Rotating
      <3>4. /\ b \in Seq(Turns) /\ Len(buf) \in Nat /\ Len(b) = Len(buf) + 1
            /\ b[Len(buf) + 1] = t /\ \A i \in 1..Len(buf) : b[i] = buf[i]
        BY <1>0, <3>1 DEF TypeOK
      <3>5. \A i \in 1..Len(b) : i \in 1..Len(buf) \/ i = Len(buf) + 1
        BY <3>4
      <3>6. Distinct(b)
        <4>1. \A i \in 1..Len(buf) : buf[i] # t
          BY <2>2 DEF Buffered
        <4>2. QED BY <1>0, <3>4, <3>5, <4>1 DEF Channel, Distinct
      <3>7. Elems(b) = Buffered \cup {t}
        <4>1. \A u \in Elems(b) : u \in Buffered \cup {t}
          <5>1. \A i \in 1..Len(b) : b[i] \in Turns
            BY <3>4
          <5>2. QED BY <3>4, <3>5, <5>1 DEF Elems, Buffered
        <4>2. \A u \in Buffered : u \in Elems(b)
          BY <3>4 DEF Elems, Buffered
        <4>3. Len(buf) + 1 \in 1..Len(b)
          BY <3>4
        <4>4. t \in Elems(b)
          BY <3>4, <4>3 DEF Elems
        <4>5. QED BY <4>1, <4>2, <4>4
      <3>8. /\ buf' = <<>>
            /\ \/ /\ wal' = wal \cup NewRows(b) /\ nextId' = nextId + Len(b)
                  /\ lost' = lost \cup {}
               \/ /\ wal' = wal /\ nextId' \in nextId..(nextId + Len(b))
                  /\ lost' = lost \cup {} \cup Elems(b)
        BY <1>0, <3>2, <3>4, FlushDoes
      <3>9. Queued' = Queued \ {t} /\ Buffered' = {}
        <4>1. /\ Buffered' = {}
              /\ Queued' = {u \in Queued : Head(queue) # Record(u)}
          BY <2>1, <3>8, ChannelTakes
        <4>2. QED BY <2>1, <4>1, KindsApart
      <3>10. InFlight' = InFlight \ (Elems(b) \cup {})
        BY <1>0, <2>2, <3>7, <3>9, InFlightIs DEF Channel
      <3>11. Elems(b) \cup {} \subseteq InFlight /\ Elems(b) \cap {} = {}
        BY <2>2, <3>7, InFlightIs
      <3>12. Settles(b, {})
        BY <2>1, <3>3, <3>4, <3>6, <3>8, <3>10, <3>11 DEF Settles
      <3>13. QED BY <3>4, <3>12
    <2>5. QED BY <2>3, <2>4
  <1>2. ASSUME FlushOk(buf) \/ FlushFails(buf), at = "idle",
               at' \in {"idle", "copy", "delete", "erase"},
               at' = "delete" => wal' = {},
               at' = "erase" => job'.key \in named /\ due[job'.key] \cap Queued' = {},
               Queued' = Queued, Buffered' = {},
               UNCHANGED <<shards, partials, stamp, ts, clock, dropped, left, old, due,
                           named, missed, erased>>
        PROVE  \E b \in Seq(Turns), G \in SUBSET Turns : Settles(b, G)
    <2>1. /\ buf \in Seq(Turns) /\ Distinct(buf) /\ Elems(buf) = Buffered
      BY BufferIs
    <2>2. \/ /\ wal' = wal \cup NewRows(buf) /\ nextId' = nextId + Len(buf)
             /\ lost' = lost \cup {}
          \/ /\ wal' = wal /\ nextId' \in nextId..(nextId + Len(buf))
             /\ lost' = lost \cup {} \cup Elems(buf)
      BY <1>0, <1>2, <2>1, FlushDoes
    <2>3. InFlight' = InFlight \ (Elems(buf) \cup {})
      BY <1>0, <1>2, <2>1, InFlightIs DEF Channel
    <2>4. /\ Elems(buf) \cup {} \subseteq InFlight /\ Elems(buf) \cap {} = {}
          /\ InFlight' = Queued'
      BY <1>2, <2>1, InFlightIs
    <2>5. Settles(buf, {})
      BY <1>2, <2>1, <2>2, <2>3, <2>4 DEF Settles
    <2>6. QED BY <2>1, <2>5
  <1>3. ASSUME NEW m, Taken(m), \A t \in Turns : m # Record(t), buf' = <<>>
        PROVE  /\ Queued' = Queued /\ Buffered' = {} /\ at = "idle"
               /\ UNCHANGED <<shards, partials, stamp, ts, clock, dropped, left, old, due,
                           named, missed, erased>>
    <2>1. /\ queue # <<>> /\ queue' = Tail(queue) /\ Head(queue) = m /\ at = "idle"
          /\ UNCHANGED <<shards, partials, stamp, ts, clock, dropped, left, old, due,
                         named, missed, erased>>
      BY <1>3 DEF Taken
    <2>2. /\ Buffered' = {}
          /\ Queued' = {t \in Queued : Head(queue) # Record(t)}
      BY <1>3, <2>1, ChannelTakes
    <2>3. QED BY <1>3, <2>1, <2>2 DEF Queued
  <1>4. ASSUME NEW k \in Keys, TakeForget(k)
        PROVE  \E b \in Seq(Turns), G \in SUBSET Turns : Settles(b, G)
    <2>1. Taken(ForgetMsg(k)) /\ (FlushOk(buf) \/ FlushFails(buf)) /\ buf' = <<>>
      BY <1>4 DEF TakeForget, FlushOk, FlushFails
    <2>2. \A t \in Turns : ForgetMsg(k) # Record(t)
      BY KindsApart
    <2>3. /\ Queued' = Queued /\ Buffered' = {} /\ at = "idle"
          /\ UNCHANGED <<shards, partials, stamp, ts, clock, dropped, left, old, due,
                         named, missed, erased>>
      BY <1>3, <2>1, <2>2
    <2>4. at' \in {"idle", "erase"} /\ (at' = "erase" => job'.key = k)
      BY <1>4, <2>3 DEF TakeForget, Job
    <2>5. k \in named /\ due[k] \cap Queued = {}
      <3>1. queue # <<>> /\ Head(queue) = ForgetMsg(k)
        BY <2>1 DEF Taken
      <3>2. 1 \in 1..Len(queue) /\ Len(queue) \in Nat /\ queue[1] = ForgetMsg(k)
        BY <1>0, <3>1, TailTyped DEF TypeOK
      <3>3. k \in named
        BY <1>0, <3>2, KindsApart DEF Ordered
      <3>4. ASSUME NEW t \in Queued PROVE t \notin due[k]
        <4>1. PICK j \in 1..Len(queue) : queue[j] = Record(t)
          BY DEF Queued
        <4>2. j # 1 /\ 1 < j
          BY <2>2, <3>2, <4>1 DEF Queued
        <4>3. t \in Turns /\ queue[1].op = "forget" /\ queue[1].arg = k
          BY <3>2, KindsApart DEF Queued
        <4>4. QED BY <1>0, <3>2, <4>1, <4>2, <4>3 DEF Ordered
      <3>5. QED BY <3>3, <3>4
    <2>6. QED BY <1>2, <2>1, <2>3, <2>4, <2>5
  <1>5. ASSUME TakeFlush \/ TakeRotate \/ TakeExport
        PROVE  \E b \in Seq(Turns), G \in SUBSET Turns : Settles(b, G)
    <2>1. PICK m \in {Control("flush"), Control("rotate"), Control("export")} : Taken(m)
      BY <1>5 DEF TakeFlush, TakeRotate, TakeExport
    <2>2. (FlushOk(buf) \/ FlushFails(buf)) /\ buf' = <<>>
      BY <1>5 DEF TakeFlush, TakeRotate, TakeExport, FlushOk, FlushFails
    <2>3. \A t \in Turns : m # Record(t)
      BY KindsApart
    <2>4. /\ Queued' = Queued /\ Buffered' = {} /\ at = "idle"
          /\ UNCHANGED <<shards, partials, stamp, ts, clock, dropped, left, old, due,
                         named, missed, erased>>
      BY <1>3, <2>1, <2>2, <2>3
    <2>5. at' \in {"idle", "copy", "delete"} /\ (at' = "delete" => wal' = {})
      BY <1>5, <2>4 DEF TakeFlush, TakeRotate, TakeExport, Rotating
    <2>6. QED BY <1>2, <2>2, <2>4, <2>5
  <1>6. ASSUME IdleTick
        PROVE  \E b \in Seq(Turns), G \in SUBSET Turns : Settles(b, G)
    <2>1. /\ (FlushOk(buf) \/ FlushFails(buf)) /\ at = "idle"
          /\ queue = <<>> /\ queue' = <<>> /\ buf' = <<>>
          /\ UNCHANGED <<shards, partials, stamp, ts, clock, dropped, left, old, due,
                         named, missed, erased>>
      BY <1>6 DEF IdleTick, FlushMaybeRotate, FlushOk, FlushFails, forgetVars
    <2>2. at' \in {"idle", "copy", "delete"} /\ (at' = "delete" => wal' = {})
      BY <1>6 DEF IdleTick, FlushMaybeRotate, Rotating
    <2>3. Queued' = Queued /\ Buffered' = {}
      BY <2>1 DEF Queued, Buffered
    <2>4. QED BY <1>2, <2>1, <2>2, <2>3
  <1>7. ASSUME TakeShutdown
        PROVE  \E b \in Seq(Turns), G \in SUBSET Turns : Settles(b, G)
    <2>1. /\ buf \in Seq(Turns) /\ Distinct(buf) /\ Elems(buf) = Buffered
      BY BufferIs
    <2>2. /\ queue' = <<>> /\ buf' = <<>> /\ at = "idle" /\ at' = "stopped"
          /\ UNCHANGED <<shards, partials, stamp, ts, clock, dropped, left, old, due,
                         named, missed, erased>>
      BY <1>7 DEF TakeShutdown, forgetVars
    <2>3. \/ /\ wal' = wal \cup NewRows(buf) /\ nextId' = nextId + Len(buf)
             /\ lost' = lost \cup Queued
          \/ /\ wal' = wal /\ nextId' \in nextId..(nextId + Len(buf))
             /\ lost' = lost \cup Queued \cup Elems(buf)
      <3>1. nextId \in Nat /\ Len(buf) \in Nat
        BY <1>0, <2>1 DEF TypeOK
      <3>2. nextId \in nextId..(nextId + Len(buf))
        BY <3>1
      <3>3. QED BY <1>7, <3>2, ShutdownFlushes
    <2>4. /\ InFlight' = InFlight \ (Elems(buf) \cup Queued)
          /\ Elems(buf) \cup Queued \subseteq InFlight
      BY <2>1, <2>2, InFlightIs, ChannelEmpties
    <2>5. Elems(buf) \cap Queued = {} /\ Queued \subseteq Turns
      BY <1>0, <2>1 DEF Channel, Queued
    <2>6. Settles(buf, Queued)
      BY <2>1, <2>2, <2>3, <2>4, <2>5 DEF Settles
    <2>7. QED BY <2>1, <2>5, <2>6
  <1>8. QED BY <1>1, <1>4, <1>5, <1>6, <1>7


-----------------------------------------------------------------------------
(* A batch is settled.                                                     *)

\* What is on the disk after a batch is settled.
LEMMA SettledDisk ==
    ASSUME ReqlogInv, NEW b, NEW G, Settles(b, G)
    PROVE  \/ Found' = Found \cup NewRows(b) /\ OnDisk' = OnDisk \cup Elems(b)
           \/ Found' = Found /\ OnDisk' = OnDisk
  <1>1. TypeOK /\ b \in Seq(Turns)
    BY DEF ReqlogInv, Settles
  <1>2. CASE wal' = wal \cup NewRows(b) /\ lost' = lost \cup G
    <2>1. Found' = Found \cup NewRows(b)
      BY <1>2, FoundIs DEF Settles
    <2>2. OnDisk' = OnDisk \cup TurnsIn(NewRows(b))
      BY <2>1, OnDiskIsFound DEF TurnsIn
    <2>3. QED BY <1>1, <1>2, <2>1, <2>2, NewRowsAre
  <1>3. CASE wal' = wal /\ lost' = lost \cup G \cup Elems(b)
    BY <1>3 DEF Settles, Found, OnDisk
  <1>4. QED BY <1>2, <1>3 DEF Settles

\* Accounted, with its five places written out.
Apart ==
    /\ InFlight \cap OnDisk = {} /\ InFlight \cap dropped = {} /\ InFlight \cap lost = {}
    /\ InFlight \cap left = {} /\ OnDisk \cap dropped = {} /\ OnDisk \cap lost = {}
    /\ OnDisk \cap left = {} /\ dropped \cap lost = {} /\ dropped \cap left = {}
    /\ lost \cap left = {}
    /\ \A t \in Turns : ts[t] # 0 =>
          t \in InFlight \/ t \in OnDisk \/ t \in dropped \/ t \in lost \/ t \in left

\* It says the same, before and after a step.
LEMMA AccountedIs == (Accounted <=> Apart) /\ (Accounted' <=> Apart')
  <1>1. Accounted => Apart
    BY DEF Accounted, Whereabouts, Apart
  <1>2. Apart => Accounted
    BY DEF Accounted, Whereabouts, Apart
  <1>3. Accounted' => Apart'
    BY DEF Accounted, Whereabouts, Apart
  <1>4. Apart' => Accounted'
    BY DEF Accounted, Whereabouts, Apart
  <1>5. QED BY <1>1, <1>2, <1>3, <1>4

\* Turns move from one place to another.
LEMMA PlacedMoves ==
    ASSUME ReqlogInv, UNCHANGED <<ts, dropped, left>>,
           NEW D, NEW G, D \cup G \subseteq InFlight, D \cap G = {},
           InFlight' = InFlight \ (D \cup G),
           OnDisk' = OnDisk \cup D, lost' = lost \cup G
    PROVE  Placed'
  <1>0. TypeOK /\ Channel /\ Placed
    BY DEF ReqlogInv
  <1>1. \A t \in InFlight : ts[t] # 0 /\ t \in Turns
    BY <1>0, InFlightIs DEF Channel, TypeOK, InFlight
  <1>2. \A t \in dropped' \cup lost' \cup left' \cup OnDisk' : ts'[t] # 0
    BY <1>0, <1>1 DEF Placed
  <1>3. Apart
    BY <1>0, AccountedIs DEF Placed
  <1>4. Apart'
    BY <1>3 DEF Apart
  <1>5. QED BY <1>2, <1>4, AccountedIs DEF Placed


\* The disk may lose turns, which have then left it.
LEMMA PlacedLeaves ==
    ASSUME ReqlogInv, UNCHANGED <<ts, dropped, lost>>, InFlight' = InFlight,
           OnDisk' \subseteq OnDisk, left' = left \cup (OnDisk \ OnDisk')
    PROVE  Placed'
  <1>0. Placed /\ Apart
    BY AccountedIs DEF ReqlogInv, Placed
  <1>1. \A t \in dropped' \cup lost' \cup left' \cup OnDisk' : ts'[t] # 0
    BY <1>0 DEF Placed
  <1>2. Apart'
    BY <1>0 DEF Apart
  <1>3. QED BY <1>1, <1>2, AccountedIs DEF Placed

\* Settling a batch puts its turns on the disk or counts them as lost.
LEMMA PlacedSettles ==
    ASSUME ReqlogInv, NEW b, NEW G, Settles(b, G)
    PROVE  Placed'
  <1>1. TypeOK /\ b \in Seq(Turns)
    BY DEF ReqlogInv, Settles
  <1>2. CASE wal' = wal \cup NewRows(b) /\ lost' = lost \cup G
    <2>1. OnDisk' = OnDisk \cup Elems(b)
      <3>1. Found' = Found \cup NewRows(b)
        BY <1>2, FoundIs DEF Settles
      <3>2. OnDisk' = OnDisk \cup TurnsIn(NewRows(b))
        BY <3>1, OnDiskIsFound DEF TurnsIn
      <3>3. QED BY <1>1, <3>2, NewRowsAre
    <2>2. QED BY <1>2, <2>1, PlacedMoves DEF Settles
  <1>3. CASE wal' = wal /\ lost' = lost \cup G \cup Elems(b)
    <2>1. OnDisk' = OnDisk \cup {}
      BY <1>3 DEF Settles, OnDisk
    <2>2. lost' = lost \cup (G \cup Elems(b))
      BY <1>3
    <2>3. {} \cup (G \cup Elems(b)) \subseteq InFlight
      BY DEF Settles
    <2>4. InFlight' = InFlight \ ({} \cup (G \cup Elems(b)))
      BY DEF Settles
    <2>5. UNCHANGED <<ts, dropped, left>>
      BY DEF Settles
    <2>6. QED BY <2>1, <2>2, <2>3, <2>4, <2>5, PlacedMoves
  <1>4. QED BY <1>2, <1>3 DEF Settles

\* The new rows have new ids among the rows of this process.
LEMMA IdentifiedSettles ==
    ASSUME ReqlogInv, NEW b, NEW G, Settles(b, G)
    PROVE  Identified'
  <1>0. TypeOK /\ Channel /\ Placed /\ Identified /\ b \in Seq(Turns) /\ Apart
    BY AccountedIs DEF ReqlogInv, Settles, Placed
  <1>1. /\ nextId \in Nat /\ Len(b) \in Nat /\ nextId' \in Nat /\ nextId <= nextId'
        /\ clock \in Nat /\ ts \in [Turns -> Nat]
        /\ UNCHANGED <<ts, clock>>
    BY <1>0 DEF TypeOK, Settles
  <1>2. Found \subseteq Rows /\ wal \subseteq Rows
    BY <1>0, FoundTyped DEF TypeOK
  <1>3. CASE wal' = wal
    <2>1. Found' = Found
      BY <1>3 DEF Found, Settles
    <2>2. \A x \in Found : x.id \in Nat
      BY <1>2 DEF Rows
    <2>3. \A x \in Found' : ts'[x.turn] = clock' => x.id < nextId'
      BY <1>0, <1>1, <2>1, <2>2 DEF Identified
    <2>4. \A x \in wal' : x.id < nextId'
      BY <1>0, <1>1, <1>2, <1>3 DEF Identified, Rows
    <2>5. QED BY <1>0, <1>1, <2>1, <2>3, <2>4 DEF Identified
  <1>4. CASE wal' = wal \cup NewRows(b) /\ nextId' = nextId + Len(b)
    <2>1. Found' = Found \cup NewRows(b)
      BY <1>4, FoundIs DEF Settles
    <2>2. /\ NewRows(b) \subseteq Rows
          /\ TurnsIn(NewRows(b)) = Elems(b)
          /\ \A r \in NewRows(b) : nextId <= r.id /\ r.id < nextId + Len(b)
          /\ \A x, y \in NewRows(b) : x.id = y.id \/ x.turn = y.turn => x = y
      BY <1>0, NewRowsAre DEF Settles
    <2>3. \A r \in NewRows(b) : r.turn \in Elems(b)
      BY <2>2 DEF TurnsIn
    <2>4. \A t \in Elems(b) : ts[t] = clock /\ t \notin OnDisk
      BY <1>0, InFlightIs DEF Settles, Channel, Apart
    <2>5. \A r \in NewRows(b) : \A x \in Found :
            x.turn # r.turn /\ ~(x.id = r.id /\ ts[x.turn] = ts[r.turn])
      <3>1. ASSUME NEW r \in NewRows(b), NEW x \in Found
            PROVE  x.turn # r.turn /\ ~(x.id = r.id /\ ts[x.turn] = ts[r.turn])
        <4>1. x.turn \in OnDisk /\ r.turn \notin OnDisk /\ ts[r.turn] = clock
          BY <2>3, <2>4, OnDiskIsFound
        <4>2. ts[x.turn] = clock => x.id < nextId
          BY <1>0 DEF Identified
        <4>3. x.id \in Nat /\ r.id \in Nat /\ nextId <= r.id
          BY <1>2, <2>2 DEF Rows
        <4>4. QED BY <1>1, <4>1, <4>2, <4>3
      <3>2. QED BY <3>1
    <2>6. \A x, y \in Found' : x.turn = y.turn => x = y
      BY <1>0, <2>1, <2>2, <2>5 DEF Identified
    <2>7. \A x, y \in Found' : x.id = y.id /\ ts'[x.turn] = ts'[y.turn] => x = y
      BY <1>0, <1>1, <2>1, <2>2, <2>5 DEF Identified
    <2>8. \A x \in Found' : ts'[x.turn] = clock' => x.id < nextId'
      <3>1. \A x \in Found \cup NewRows(b) : x.id \in Nat
        BY <1>2, <2>2 DEF Rows
      <3>2. QED BY <1>0, <1>1, <1>4, <2>1, <2>2, <3>1 DEF Identified
    <2>9. \A x \in wal' : x.id < nextId'
      <3>1. \A x \in wal \cup NewRows(b) : x.id \in Nat
        BY <1>2, <2>2 DEF Rows
      <3>2. QED BY <1>0, <1>1, <1>4, <2>2, <3>1 DEF Identified
    <2>10. QED BY <1>0, <1>1, <2>6, <2>7, <2>8, <2>9 DEF Identified
  <1>5. QED BY <1>3, <1>4 DEF Settles

\* The files stay, and a step that empties the table next found it empty.
LEMMA FilesSettle ==
    ASSUME ReqlogInv, NEW b, NEW G, Settles(b, G)
    PROVE  Files'
  <1>1. Files /\ UNCHANGED <<shards, partials, stamp, old>>
    BY DEF ReqlogInv, Settles
  <1>2. at' \notin {"seal", "replace"} /\ (at' = "delete" => wal' = {})
    BY DEF Settles
  <1>3. QED BY <1>1, <1>2 DEF Files

\* A Forget that was taken has nothing of its key on the way.
LEMMA ForgettingSettles ==
    ASSUME ReqlogInv, NEW b, NEW G, Settles(b, G)
    PROVE  Forgetting'
  <1>1. Forgetting /\ UNCHANGED <<due, ts, named, missed, erased>>
    BY DEF ReqlogInv, Settles
  <1>2. /\ at' \notin {"list", "rewrite", "replace"}
        /\ at' = "erase" => /\ job'.key \in named
                            /\ due[job'.key] \cap (Queued' \cup Buffered') = {}
    BY InFlightIs DEF Settles
  <1>3. ErasedIsGone'
    <2>1. TurnsIn(wal') \subseteq TurnsIn(wal) \cup Elems(b)
      <3>1. b \in Seq(Turns) /\ TypeOK
        BY DEF ReqlogInv, Settles
      <3>2. TurnsIn(NewRows(b)) = Elems(b)
        BY <3>1, NewRowsAre
      <3>3. wal' = wal \/ wal' = wal \cup NewRows(b)
        BY DEF Settles
      <3>4. QED BY <3>2, <3>3 DEF TurnsIn
    <2>2. /\ Elems(b) \subseteq InFlight /\ InFlight' \subseteq InFlight
          /\ shards' = shards
      BY DEF Settles
    <2>3. QED BY <1>1, <2>1, <2>2 DEF Forgetting, ErasedIsGone
  <1>4. QED BY <1>1, <1>2, <1>3 DEF Forgetting


-----------------------------------------------------------------------------
(* The steps on the files.                                                 *)

\* A step that gives up or returns changes nothing of what is found.
LEMMA GiveUpFinds ==
    ASSUME GiveUp
    PROVE  Found' = Found /\ wal' = wal /\ shards' = shards /\ left' = left
             /\ partials' \subseteq partials /\ at' = "idle"
             /\ UNCHANGED <<stamp, missed, erased>>
  BY DEF GiveUp, Return, Found

\* No step on the files brings a row to the disk, and what is gone has left.
LEMMA FilesShrink ==
    ASSUME ReqlogInv,
           Copy \/ Seal \/ Delete \/ Prune \/ Erase \/ List \/ Rewrite \/ Replace \/ ForgetDone
    PROVE  /\ Found' \subseteq Found /\ OnDisk' \subseteq OnDisk /\ wal' \subseteq wal
           /\ left' = left \cup (OnDisk \ OnDisk')
           /\ UNCHANGED <<queue, buf, dropped, nextId, clock, ts, lost, old, due, named>>
           /\ Copy \/ Seal \/ Delete \/ List \/ Rewrite \/ ForgetDone => OnDisk' = OnDisk
  <1>0. TypeOK /\ Files
    BY DEF ReqlogInv
  <1>1. UNCHANGED <<queue, buf, dropped, nextId, clock, ts, lost, old, due, named>>
    BY DEF Copy, Seal, Delete, Prune, Erase, List, Rewrite, Replace, ForgetDone, FileStep, chanVars
  <1>2. ASSUME Found' = Found, left' = left, wal' \subseteq wal
        PROVE  /\ Found' \subseteq Found /\ OnDisk' = OnDisk /\ wal' \subseteq wal
               /\ left' = left \cup (OnDisk \ OnDisk')
    <2>1. OnDisk' = OnDisk
      BY <1>2, OnDiskIsFound
    <2>2. QED BY <1>2, <2>1
  <1>3. ASSUME Found' \subseteq Found, wal' \subseteq wal, Leaves
        PROVE  /\ Found' \subseteq Found /\ OnDisk' \subseteq OnDisk /\ wal' \subseteq wal
               /\ left' = left \cup (OnDisk \ OnDisk')
    <2>1. OnDisk' \subseteq OnDisk
      BY <1>3, OnDiskIsFound
    <2>2. QED BY <1>3, <2>1 DEF Leaves, OnDisk
  <1>4. CASE Copy
    <2>1. CASE GiveUp
      BY <1>1, <1>2, <2>1, GiveUpFinds
    <2>2. CASE ~GiveUp
      BY <1>1, <1>2, <1>4, <2>2 DEF Copy, Found
    <2>3. QED BY <2>1, <2>2
  <1>5. CASE Seal
    <2>1. CASE GiveUp
      BY <1>1, <1>2, <2>1, GiveUpFinds
    <2>2. CASE ~GiveUp
      <3>1. PICK p \in partials :
              /\ p.stamp = file
              /\ shards' = shards \cup {[stamp |-> file, rows |-> p.rows, aged |-> FALSE]}
        BY <1>5, <2>2 DEF Seal
      <3>2. p.rows = wal
        BY <1>0, <1>5, <3>1 DEF Files, Seal
      <3>3. PICK s : s = [stamp |-> file, rows |-> p.rows, aged |-> FALSE]
        OBVIOUS
      <3>4. shards' = shards \cup {s} /\ s.rows = wal
        BY <3>1, <3>2, <3>3
      <3>5. wal' = wal /\ left' = left
        BY <1>5, <2>2 DEF Seal
      <3>6. Found' = Found
        BY <3>4, <3>5, FoundIs
      <3>7. QED BY <1>1, <1>2, <3>5, <3>6
    <2>3. QED BY <2>1, <2>2
  <1>6. CASE Delete
    <2>1. wal' \subseteq wal /\ shards' = shards /\ Leaves
      BY <1>6 DEF Delete
    <2>2. \A r \in wal : \E s \in shards : r \in s.rows
      BY <1>0, <1>6 DEF Files, Delete
    <2>3. Found' = Found
      BY <2>1, <2>2, FoundIs
    <2>4. OnDisk' = OnDisk
      BY <2>3, OnDiskIsFound
    <2>5. QED BY <1>1, <1>3, <2>1, <2>3, <2>4
  <1>7. CASE Prune
    <2>1. wal' = wal /\ shards' \subseteq shards /\ Leaves
      BY <1>7 DEF Prune
    <2>2. Found' \subseteq Found
      BY <2>1, FoundIs
    <2>3. ~(Copy \/ Seal \/ Delete \/ List \/ Rewrite \/ ForgetDone)
      BY <1>7 DEF Copy, Seal, Delete, List, Rewrite, ForgetDone, Prune
    <2>4. QED BY <1>1, <1>3, <2>1, <2>2, <2>3
  <1>8. CASE Erase
    <2>1. wal' \subseteq wal /\ shards' = shards /\ Leaves
      BY <1>8 DEF Erase
    <2>2. Found' \subseteq Found
      BY <2>1, FoundIs
    <2>3. ~(Copy \/ Seal \/ Delete \/ List \/ Rewrite \/ ForgetDone)
      BY <1>8 DEF Copy, Seal, Delete, List, Rewrite, ForgetDone, Erase
    <2>4. QED BY <1>1, <1>3, <2>1, <2>2, <2>3
  <1>9. CASE Rewrite
    <2>1. CASE GiveUp
      BY <1>1, <1>2, <2>1, GiveUpFinds
    <2>2. CASE ~GiveUp
      BY <1>1, <1>2, <1>9, <2>2 DEF Rewrite, Found
    <2>3. QED BY <2>1, <2>2
  <1>10. CASE Replace
    <2>0. ~(Copy \/ Seal \/ Delete \/ List \/ Rewrite \/ ForgetDone)
      BY <1>10 DEF Copy, Seal, Delete, List, Rewrite, ForgetDone, Replace
    <2>1. CASE GiveUp
      BY <1>1, <1>2, <2>0, <2>1, GiveUpFinds
    <2>2. CASE ~GiveUp
      <3>1. PICK s \in shards, p \in partials :
              /\ s.stamp = file /\ p.stamp = file
              /\ shards' = (shards \ {s}) \cup
                                {[s EXCEPT !.rows = p.rows, !.aged = @ /\ job.dated]}
        BY <1>10, <2>2 DEF Replace
      <3>2. p.rows = s.rows \ OfKey(s.rows)
        BY <1>0, <1>10, <3>1 DEF Files, Replace
      <3>3. PICK x : x = [s EXCEPT !.rows = p.rows, !.aged = @ /\ job.dated]
        OBVIOUS
      <3>4. shards' = (shards \ {s}) \cup {x} /\ x.rows \subseteq s.rows
        BY <1>0, <3>1, <3>2, <3>3 DEF TypeOK, Shard
      <3>5. wal' = wal /\ Leaves
        BY <1>10, <2>2 DEF Replace
      <3>6. Found' \subseteq Found
        BY <3>4, <3>5, FoundIs
      <3>7. QED BY <1>1, <1>3, <2>0, <3>5, <3>6
    <2>3. QED BY <2>1, <2>2
  <1>11. CASE List \/ ForgetDone
    <2>1. Found' = Found /\ left' = left /\ wal' \subseteq wal
      BY <1>11 DEF List, ForgetDone, diskVars, Found
    <2>2. QED BY <1>1, <1>2, <2>1
  <1>12. QED
    BY <1>4, <1>5, <1>6, <1>7, <1>8, <1>9, <1>10, <1>11

\* A disk with fewer rows on it keeps what is said of places and of ids.
LEMMA ShrunkIsPlaced ==
    ASSUME ReqlogInv,
           Copy \/ Seal \/ Delete \/ Prune \/ Erase \/ List \/ Rewrite \/ Replace \/ ForgetDone
    PROVE  Placed' /\ Identified'
  <1>1. /\ Found' \subseteq Found /\ OnDisk' \subseteq OnDisk /\ wal' \subseteq wal
        /\ left' = left \cup (OnDisk \ OnDisk')
        /\ UNCHANGED <<queue, buf, dropped, nextId, clock, ts, lost, old, due, named>>
    BY FilesShrink
  <1>2. InFlight' = InFlight
    BY <1>1 DEF InFlight
  <1>3. Placed'
    BY <1>1, <1>2, PlacedLeaves
  <1>4. Identified'
    BY <1>1 DEF ReqlogInv, Identified
  <1>5. QED BY <1>3, <1>4

\* The files of a rotation and of a Forget.
LEMMA FilesStep ==
    ASSUME ReqlogInv,
           Copy \/ Seal \/ Delete \/ Prune \/ Erase \/ List \/ Rewrite \/ Replace \/ ForgetDone
    PROVE  Files'
  <1>0. TypeOK /\ Files /\ old' = old
    BY FilesShrink DEF ReqlogInv
  <1>a. /\ stamp \in Nat /\ shards \subseteq Shard /\ partials \subseteq Partial
        /\ \A s \in shards : s.stamp \in Nat
        /\ \A p \in partials : p.stamp \in Nat
    BY <1>0 DEF TypeOK, Shard, Partial
  <1>b. ASSUME shards' \subseteq shards, partials' \subseteq partials, stamp' = stamp,
               at' \notin {"seal", "delete", "replace"}
        PROVE  Files'
    BY <1>0, <1>b DEF Files
  <1>1. ASSUME GiveUp PROVE Files'
    BY <1>1, <1>b, GiveUpFinds
  <1>2. CASE Copy
    <2>1. CASE ~GiveUp
      <3>1. /\ stamp' = stamp + 1 /\ file' = stamp + 1 /\ at' = "seal" /\ wal' = wal
            /\ shards' = shards
            /\ partials' = partials \cup {[stamp |-> stamp + 1, rows |-> wal]}
        BY <1>2, <2>1 DEF Copy
      <3>2. PICK q : q = [stamp |-> stamp + 1, rows |-> wal]
        OBVIOUS
      <3>3. partials' = partials \cup {q} /\ q.stamp = stamp + 1 /\ q.rows = wal
        BY <3>1, <3>2
      <3>4. \A s \in shards : s.stamp <= stamp /\ s.stamp # stamp + 1 /\ s.stamp <= stamp + 1
        BY <1>0, <1>a DEF Files
      <3>5. \A p \in partials : p.stamp <= stamp /\ p.stamp # stamp + 1 /\ p.stamp <= stamp + 1
        BY <1>0, <1>a DEF Files
      <3>6. stamp + 1 <= stamp + 1
        BY <1>a
      <3>7. QED BY <1>0, <3>1, <3>3, <3>4, <3>5, <3>6 DEF Files
    <2>2. QED BY <1>1, <2>1
  <1>3. CASE Seal
    <2>1. CASE ~GiveUp
      <3>1. PICK p \in partials :
              /\ p.stamp = file
              /\ shards' = shards \cup {[stamp |-> file, rows |-> p.rows, aged |-> FALSE]}
              /\ partials' = partials \ {p}
        BY <1>3, <2>1 DEF Seal
      <3>2. /\ \A s \in shards : s.stamp # file
            /\ file <= stamp /\ p.rows = wal
        BY <1>0, <1>3, <3>1 DEF Files, Seal
      <3>3. at' = "delete" /\ wal' = wal /\ stamp' = stamp
        BY <1>3, <2>1 DEF Seal
      <3>4. PICK s : s = [stamp |-> file, rows |-> p.rows, aged |-> FALSE]
        OBVIOUS
      <3>5. shards' = shards \cup {s} /\ s.rows = wal /\ s.stamp = file /\ ~s.aged
        BY <3>1, <3>2, <3>4
      <3>6. QED BY <1>0, <3>1, <3>2, <3>3, <3>5 DEF Files
    <2>2. QED BY <1>1, <2>1
  <1>4. CASE Delete
    BY <1>4, <1>b DEF Delete, Return
  <1>5. CASE Prune
    BY <1>5, <1>b DEF Prune, Return
  <1>6. CASE Erase
    BY <1>6, <1>b DEF Erase, Return
  <1>7. CASE Rewrite
    <2>1. CASE ~GiveUp
      <3>1. PICK s \in shards :
              /\ partials' = {p \in partials : p.stamp # s.stamp} \cup
                                {[stamp |-> s.stamp, rows |-> s.rows \ OfKey(s.rows)]}
              /\ file' = s.stamp
              /\ at' = "replace"
              /\ UNCHANGED <<wal, shards, stamp>>
              /\ job' = [job EXCEPT !.dated = TRUE] \/ job' = [job EXCEPT !.dated = FALSE]
        BY <1>7, <2>1 DEF Rewrite, Listed
      <3>a. job'.key = job.key
        BY <1>0, <3>1 DEF TypeOK, Jobs
      <3>2. PICK q : q = [stamp |-> s.stamp, rows |-> s.rows \ OfKey(s.rows)]
        OBVIOUS
      <3>3. /\ partials' = {p \in partials : p.stamp # s.stamp} \cup {q}
            /\ q.stamp = s.stamp /\ q.rows = s.rows \ OfKey(s.rows)
        BY <3>1, <3>2
      <3>4. \A p \in partials' : p.stamp <= stamp'
        BY <1>0, <3>1, <3>3 DEF Files
      <3>5. ASSUME NEW p \in partials', NEW x \in shards', p.stamp = file', x.stamp = file'
            PROVE  p.rows = x.rows \ OfKey(x.rows)'
        <4>1. p = q
          BY <3>1, <3>3, <3>5
        <4>2. x = s
          BY <1>0, <3>1, <3>5 DEF Files
        <4>3. OfKey(x.rows)' = OfKey(x.rows)
          BY <3>a DEF OfKey
        <4>4. QED BY <3>3, <4>1, <4>2, <4>3
      <3>6. QED BY <1>0, <3>1, <3>4, <3>5 DEF Files
    <2>2. QED BY <1>1, <1>7, <2>1
  <1>8. CASE Replace
    <2>1. CASE ~GiveUp
      <3>1. PICK s \in shards, p \in partials :
              /\ s.stamp = file /\ p.stamp = file
              /\ shards' = (shards \ {s}) \cup
                                {[s EXCEPT !.rows = p.rows, !.aged = @ /\ job.dated]}
              /\ partials' = partials \ {p}
        BY <1>8, <2>1 DEF Replace
      <3>2. p.rows = s.rows \ OfKey(s.rows)
        BY <1>0, <1>8, <3>1 DEF Files, Replace
      <3>3. PICK x : x = [s EXCEPT !.rows = p.rows, !.aged = @ /\ job.dated]
        OBVIOUS
      <3>4. /\ shards' = (shards \ {s}) \cup {x} /\ x.rows \subseteq s.rows
            /\ x.stamp = s.stamp /\ (x.aged => s.aged)
        BY <1>a, <3>1, <3>2, <3>3 DEF Shard
      <3>5. stamp' = stamp /\ at' = "rewrite"
        BY <1>8, <2>1 DEF Replace
      <3>6. \A y, z \in shards' : y.stamp = z.stamp => y = z
        BY <1>0, <3>4 DEF Files
      <3>7. \A y \in shards' : y.stamp <= stamp'
        BY <1>0, <3>4, <3>5 DEF Files
      <3>8. \A y \in shards' : y.aged => TurnsIn(y.rows) \subseteq old'
        <4>1. TurnsIn(x.rows) \subseteq TurnsIn(s.rows)
          BY <3>4 DEF TurnsIn
        <4>2. QED BY <1>0, <3>4, <4>1 DEF Files
      <3>9. \A y \in partials' : y.stamp <= stamp'
        BY <1>0, <3>1, <3>5 DEF Files
      <3>10. QED BY <3>5, <3>6, <3>7, <3>8, <3>9 DEF Files
    <2>2. QED BY <1>1, <2>1
  <1>9. CASE List \/ ForgetDone
    BY <1>9, <1>b DEF List, ForgetDone, Return, diskVars
  <1>10. QED
    BY <1>2, <1>3, <1>4, <1>5, <1>6, <1>7, <1>8, <1>9


\* The steps of the worker make a shard of the table, or leave one fewer rows.
LEMMA ShardsShrink ==
    ASSUME ReqlogInv,
           Copy \/ Seal \/ Delete \/ Prune \/ Erase \/ List \/ Rewrite \/ Replace \/ ForgetDone,
           NEW s \in shards'
    PROVE  \E y \in shards \cup {[stamp |-> file, rows |-> wal, aged |-> FALSE]} :
              y.stamp = s.stamp /\ s.rows \subseteq y.rows
  <1>0. TypeOK /\ Files
    BY DEF ReqlogInv
  <1>1. ASSUME s \in shards
        PROVE  \E y \in shards \cup {[stamp |-> file, rows |-> wal, aged |-> FALSE]} :
                  y.stamp = s.stamp /\ s.rows \subseteq y.rows
    BY <1>1
  <1>2. CASE GiveUp
    BY <1>1, <1>2, GiveUpFinds
  <1>3. CASE Copy \/ Delete \/ Prune \/ Erase \/ List \/ Rewrite \/ ForgetDone
    <2>1. CASE ~GiveUp
      <3>1. shards' \subseteq shards
        BY <1>3, <2>1 DEF Copy, Delete, Prune, Erase, List, Rewrite, ForgetDone, diskVars
      <3>2. QED BY <1>1, <3>1
    <2>2. QED BY <1>2, <2>1
  <1>4. CASE Seal /\ ~GiveUp
    <2>1. PICK p \in partials :
            /\ p.stamp = file
            /\ shards' = shards \cup {[stamp |-> file, rows |-> p.rows, aged |-> FALSE]}
      BY <1>4 DEF Seal
    <2>2. p.rows = wal
      BY <1>0, <1>4, <2>1 DEF Files, Seal
    <2>3. QED BY <1>1, <2>1, <2>2
  <1>5. CASE Replace /\ ~GiveUp
    <2>1. PICK y \in shards, p \in partials :
            /\ y.stamp = file /\ p.stamp = file
            /\ shards' = (shards \ {y}) \cup
                            {[y EXCEPT !.rows = p.rows, !.aged = @ /\ job.dated]}
      BY <1>5 DEF Replace
    <2>2. p.rows = y.rows \ OfKey(y.rows)
      BY <1>0, <1>5, <2>1 DEF Files, Replace
    <2>3. PICK x : x = [y EXCEPT !.rows = p.rows, !.aged = @ /\ job.dated]
      OBVIOUS
    <2>4. x.stamp = y.stamp /\ x.rows \subseteq y.rows
      BY <1>0, <2>1, <2>2, <2>3 DEF TypeOK, Shard
    <2>5. s \in shards \/ s = x
      BY <2>1, <2>3
    <2>6. QED BY <1>1, <2>4, <2>5
  <1>6. QED BY <1>2, <1>3, <1>4, <1>5

\* What a Forget has done so far.
LEMMA ForgettingFiles ==
    ASSUME ReqlogInv,
           Copy \/ Seal \/ Delete \/ Prune \/ Erase \/ List \/ Rewrite \/ Replace \/ ForgetDone
    PROVE  Forgetting'
  <1>0. TypeOK /\ Forgetting
    BY DEF ReqlogInv
  <1>1. /\ OnDisk' \subseteq OnDisk /\ wal' \subseteq wal
        /\ UNCHANGED <<queue, buf, ts, due, named>>
    BY FilesShrink
  <1>2. InFlight' = InFlight /\ Queued' = Queued /\ Buffered' = Buffered
    BY <1>1 DEF InFlight, Queued, Buffered
  <1>3. /\ at' \in {"list", "rewrite", "replace"} =>
             /\ at \in {"erase", "list", "rewrite", "replace"} /\ job'.key = job.key
             /\ at = "erase" => wal' = wal \ OfKey(wal)
        /\ at' # "erase"
    <2>1. CASE GiveUp
      BY <2>1 DEF GiveUp, Return
    <2>2. CASE Return /\ ~GiveUp
      BY <2>2 DEF Return, Copy, Seal, Delete, Prune, Erase, List, Rewrite, Replace, ForgetDone
    <2>3. CASE ~Return /\ ~GiveUp
      <3>1. CASE Copy \/ Seal \/ Delete \/ Prune
        BY <2>3, <3>1 DEF Copy, Seal, Delete, Prune
      <3>2. CASE Erase
        BY <1>0, <2>3, <3>2 DEF Erase, TypeOK, Jobs
      <3>3. CASE Rewrite
        BY <1>0, <2>3, <3>3 DEF Rewrite, TypeOK, Jobs
      <3>4. CASE Replace
        BY <1>0, <2>3, <3>4 DEF Replace, TypeOK, Jobs
      <3>5. CASE ForgetDone
        BY <2>3, <3>5 DEF ForgetDone
      <3>6. CASE List
        BY <1>0, <2>3, <3>6 DEF List, TypeOK, Jobs
      <3>7. QED BY <3>1, <3>2, <3>3, <3>4, <3>5, <3>6
    <2>4. QED BY <2>1, <2>2, <2>3
  <1>4. at' \in {"list", "rewrite", "replace"} =>
          /\ job'.key \in named'
          /\ due'[job'.key] \cap (Queued' \cup Buffered') = {}
          /\ OfKey(wal)' = {}
    <2>1. ASSUME at' \in {"list", "rewrite", "replace"}
          PROVE  OfKey(wal)' = {}
      <3>1. CASE at = "erase"
        BY <1>3, <2>1, <3>1 DEF OfKey
      <3>2. CASE at \in {"list", "rewrite", "replace"}
        BY <1>0, <1>1, <1>3, <2>1, <3>2 DEF OfKey, Forgetting
      <3>3. QED BY <1>3, <2>1, <3>1, <3>2
    <2>2. QED BY <1>0, <1>1, <1>2, <1>3, <2>1 DEF Forgetting
  <1>5. (\A t \in erased' : ts'[t] # 0) /\ ErasedIsGone'
    <2>1. CASE UNCHANGED <<missed, erased>>
      <3>1. erased \cap TurnsIn(wal') = {}
        BY <1>0, <1>1 DEF Forgetting, ErasedIsGone, TurnsIn
      <3>2. ASSUME NEW s \in shards', NEW t \in erased, t \in TurnsIn(s.rows)
            PROVE  s.stamp \in missed[KeyOf[t]]
        <4>1. PICK y \in shards \cup {[stamp |-> file, rows |-> wal, aged |-> FALSE]} :
                y.stamp = s.stamp /\ s.rows \subseteq y.rows
          BY <3>2, ShardsShrink
        <4>2. t \in TurnsIn(y.rows)
          BY <3>2, <4>1 DEF TurnsIn
        <4>3. y \in shards
          BY <1>0, <3>2, <4>1, <4>2 DEF Forgetting, ErasedIsGone
        <4>4. QED BY <1>0, <3>2, <4>1, <4>2, <4>3 DEF Forgetting, ErasedIsGone
      <3>3. QED BY <1>0, <1>1, <1>2, <2>1, <3>1, <3>2 DEF Forgetting, ErasedIsGone
    <2>2. ASSUME NEW M \in SUBSET Nat, Answers(M), UNCHANGED <<wal, shards>>,
                 at \in {"list", "rewrite"},
                 \A s \in shards : s.stamp \in M \/ OfKey(s.rows) = {}
          PROVE  (\A t \in erased' : ts'[t] # 0) /\ ErasedIsGone'
      <3>1. /\ erased' = erased \cup due[job.key]
            /\ missed' = [missed EXCEPT ![job.key] = @ \cup M]
        BY <2>2 DEF Answers
      <3>2. /\ job.key \in Keys /\ OfKey(wal) = {}
            /\ due[job.key] \cap InFlight = {}
        BY <1>0, <2>2, InFlightIs DEF Forgetting, TypeOK
      <3>3. \A t \in due[job.key] : KeyOf[t] = job.key /\ ts[t] # 0
        BY <1>0, <3>2 DEF Forgetting
      <3>4. /\ missed'[job.key] = missed[job.key] \cup M
            /\ \A k \in Keys : missed[k] \subseteq missed'[k]
        BY <1>0, <3>1, <3>2 DEF TypeOK
      <3>5. \A t \in erased : KeyOf[t] \in Keys
        BY <1>0, KeyOfAssumption DEF TypeOK
      <3>6. due[job.key] \cap TurnsIn(wal) = {}
        BY <3>2, <3>3 DEF OfKey, TurnsIn
      <3>7. ASSUME NEW s \in shards, NEW t \in due[job.key], t \in TurnsIn(s.rows)
            PROVE  s.stamp \in missed'[KeyOf[t]]
        <4>1. OfKey(s.rows) # {}
          BY <3>3, <3>7 DEF OfKey, TurnsIn
        <4>2. QED BY <2>2, <3>3, <3>4, <3>7, <4>1
      <3>8. ASSUME NEW s \in shards, NEW t \in erased, t \in TurnsIn(s.rows)
            PROVE  s.stamp \in missed'[KeyOf[t]]
        BY <1>0, <3>4, <3>5, <3>8 DEF Forgetting, ErasedIsGone
      <3>9. ErasedIsGone'
        BY <1>0, <1>2, <2>2, <3>1, <3>2, <3>6, <3>7, <3>8 DEF Forgetting, ErasedIsGone
      <3>10. \A t \in erased' : ts'[t] # 0
        BY <1>0, <1>1, <3>1, <3>3 DEF Forgetting
      <3>11. QED BY <3>9, <3>10
    <2>3. CASE List
      <3>1. UNCHANGED <<wal, shards>> /\ at = "list"
        BY <2>3 DEF List, diskVars
      <3>2. CASE Answers(Stamps)
        <4>1. Stamps \in SUBSET Nat /\ \A s \in shards : s.stamp \in Stamps
          BY <1>0 DEF Stamps, TypeOK, Shard
        <4>2. QED BY <2>2, <3>1, <3>2, <4>1
      <3>3. QED BY <2>1, <2>3, <3>2 DEF List
    <2>4. CASE ForgetDone
      <3>1. UNCHANGED <<wal, shards>> /\ at = "rewrite"
        BY <2>4 DEF ForgetDone, diskVars
      <3>2. CASE Answers(job.missed)
        <4>1. /\ job.missed \in SUBSET Nat
              /\ \A s \in shards : s.stamp \in job.missed \/ OfKey(s.rows) = {}
          BY <1>0, <2>4 DEF ForgetDone, Listed, TypeOK, Jobs
        <4>2. QED BY <2>2, <3>1, <3>2, <4>1
      <3>3. QED BY <2>1, <2>4, <3>2 DEF ForgetDone
    <2>5. CASE Copy \/ Seal \/ Delete \/ Prune \/ Erase \/ Rewrite \/ Replace
      <3>1. UNCHANGED <<missed, erased>>
        <4>1. CASE GiveUp
          BY <4>1, GiveUpFinds
        <4>2. CASE ~GiveUp
          BY <2>5, <4>2 DEF Copy, Seal, Delete, Prune, Erase, Rewrite, Replace
        <4>3. QED BY <4>1, <4>2
      <3>2. QED BY <2>1, <3>1
    <2>6. QED BY <2>3, <2>4, <2>5
  <1>6. \A k \in Keys : \A t \in due'[k] : KeyOf[t] = k /\ ts'[t] # 0
    BY <1>0, <1>1 DEF Forgetting
  <1>7. QED BY <1>3, <1>4, <1>5, <1>6 DEF Forgetting

-----------------------------------------------------------------------------
(* The other steps.                                                        *)

\* A step that leaves the files and the worker alone.
LEMMA FilesStay ==
    ASSUME ReqlogInv, UNCHANGED <<wal, shards, partials, stamp, at, file, job, old>>
    PROVE  Files'
  BY DEF ReqlogInv, Files, OfKey

\* A step that moves no turn.
LEMMA PlacedStays ==
    ASSUME ReqlogInv, Queued' = Queued, Buffered' = Buffered,
           UNCHANGED <<ts, wal, shards, dropped, lost, left, nextId, clock>>
    PROVE  Placed' /\ Identified' /\ OnDisk' = OnDisk /\ InFlight' = InFlight
  <1>1. OnDisk' = OnDisk /\ InFlight' = InFlight /\ Found' = Found
    BY InFlightIs DEF OnDisk, Found
  <1>2. Placed'
    BY <1>1 DEF ReqlogInv, Placed, Accounted, Whereabouts
  <1>3. Identified'
    BY <1>1 DEF ReqlogInv, Identified
  <1>4. QED BY <1>1, <1>2, <1>3

\* A step that has nothing to do with forgetting.
LEMMA ForgettingStays ==
    ASSUME ReqlogInv, Queued' = Queued, Buffered' = Buffered,
           UNCHANGED <<ts, wal, shards, at, job, due, named, missed, erased>>
    PROVE  Forgetting'
  <1>1. OnDisk' = OnDisk /\ InFlight' = InFlight
    BY InFlightIs DEF OnDisk
  <1>2. QED BY <1>1 DEF ReqlogInv, Forgetting, OfKey, ErasedIsGone

\* A turn is logged.
LEMMA LogKeeps ==
    ASSUME ReqlogInv, NEW t \in Turns, Log(t)
    PROVE  Placed' /\ Identified' /\ Files' /\ Forgetting'
  <1>0. TypeOK /\ Channel /\ Placed /\ Identified /\ Forgetting /\ Apart
    BY AccountedIs DEF ReqlogInv, Placed
  <1>1. /\ ts[t] = 0 /\ ts' = [ts EXCEPT ![t] = clock]
        /\ UNCHANGED <<buf, clock, named, due, wal, shards, partials, stamp, at, file, job,
                       nextId, lost, left, old, missed, erased>>
    BY DEF Log, diskVars, forgetVars
  <1>2. /\ ts \in [Turns -> Nat] /\ clock \in Nat /\ clock # 0
        /\ \A u \in Turns : ts'[u] = IF u = t THEN clock ELSE ts[u]
    BY <1>0, <1>1 DEF TypeOK
  <1>3. OnDisk' = OnDisk /\ Found' = Found /\ OnDisk \subseteq Turns
    BY <1>0, <1>1, FoundTyped DEF OnDisk, Found
  <1>4. /\ t \notin dropped /\ t \notin lost /\ t \notin left /\ t \notin OnDisk
        /\ t \notin erased /\ t \notin InFlight
        /\ \A k \in Keys : t \notin due[k]
    BY <1>0, <1>1, <1>2, InFlightIs DEF Placed, Forgetting, Channel
  <1>5. \/ InFlight' = InFlight \cup {t} /\ dropped' = dropped
        \/ InFlight' = InFlight /\ dropped' = dropped \cup {t}
    <2>1. CASE at # "stopped" /\ Len(queue) < QueueSize
      <3>1. queue' = Append(queue, Record(t)) /\ dropped' = dropped
        BY <2>1 DEF Log
      <3>2. Queued' = Queued \cup {t} /\ Buffered' = Buffered
        BY <1>1, <2>1, <3>1, ChannelLogs
      <3>3. QED BY <3>1, <3>2, InFlightIs
    <2>2. CASE ~(at # "stopped" /\ Len(queue) < QueueSize)
      BY <1>1, <2>2 DEF Log, InFlight
    <2>3. QED BY <2>1, <2>2
  <1>6. Placed'
    <2>1. dropped \subseteq Turns /\ lost \subseteq Turns /\ left \subseteq Turns
      BY <1>0 DEF TypeOK
    <2>2. \A u \in dropped' \cup lost' \cup left' \cup OnDisk' : ts'[u] # 0
      BY <1>0, <1>1, <1>2, <1>3, <1>5, <2>1 DEF Placed
    <2>3. Apart'
      <3>1. \A u \in Turns : ts'[u] # 0 => u = t \/ ts[u] # 0
        BY <1>2
      <3>2. \A u \in Turns : ts'[u] # 0 =>
              u \in InFlight' \/ u \in OnDisk' \/ u \in dropped' \/ u \in lost' \/ u \in left'
        BY <1>0, <1>1, <1>3, <1>5, <3>1 DEF Apart
      <3>3. QED BY <1>0, <1>1, <1>3, <1>4, <1>5, <3>2 DEF Apart
    <2>4. QED BY <2>2, <2>3, AccountedIs DEF Placed
  <1>7. Identified'
    <2>1. \A x \in Found : x.turn \in Turns /\ x.turn # t /\ ts'[x.turn] = ts[x.turn]
      BY <1>0, <1>2, <1>4, FoundTyped, OnDiskIsFound DEF Rows
    <2>2. \A u \in Turns : ts'[u] <= clock
      BY <1>0, <1>2 DEF Identified
    <2>3. QED BY <1>0, <1>1, <1>3, <2>1, <2>2 DEF Identified
  <1>8. Files'
    BY <1>1, FilesStay
  <1>9. Forgetting'
    <2>1. erased \subseteq Turns /\ named \subseteq Keys /\ \A k \in Keys : due[k] \subseteq Turns
      BY <1>0 DEF TypeOK
    <2>2. \A k \in Keys : \A u \in due'[k] : KeyOf[u] = k /\ ts'[u] # 0
      BY <1>0, <1>1, <1>2, <2>1 DEF Forgetting
    <2>3. (\A u \in erased' : ts'[u] # 0) /\ ErasedIsGone'
      BY <1>0, <1>1, <1>2, <1>3, <1>4, <1>5, <2>1 DEF Forgetting, ErasedIsGone
    <2>4. at' \in {"erase", "list", "rewrite", "replace"} =>
             /\ job'.key \in named'
             /\ due'[job'.key] \cap (Queued' \cup Buffered') = {}
      BY <1>0, <1>1, <1>4, <1>5, <2>1, InFlightIs DEF Forgetting
    <2>5. at' \in {"list", "rewrite", "replace"} => OfKey(wal)' = {}
      BY <1>0, <1>1 DEF Forgetting, OfKey
    <2>6. QED BY <2>2, <2>3, <2>4, <2>5 DEF Forgetting
  <1>10. QED BY <1>6, <1>7, <1>8, <1>9

\* A Forget is asked for.
LEMMA SendForgetKeeps ==
    ASSUME ReqlogInv, NEW k \in Keys, SendForget(k)
    PROVE  Placed' /\ Identified' /\ Files' /\ Forgetting'
  <1>0. TypeOK /\ Ordered /\ Forgetting
    BY DEF ReqlogInv
  <1>1. /\ k \notin named /\ named' = named \cup {k}
        /\ due' = [due EXCEPT ![k] = {t \in Turns : KeyOf[t] = k /\ ts[t] # 0}]
        /\ queue' = Append(queue, ForgetMsg(k)) /\ Len(queue) < QueueSize
        /\ UNCHANGED <<buf, clock, ts, wal, shards, partials, stamp, at, file, job,
                       dropped, nextId, lost, left, old, missed, erased>>
    BY DEF SendForget, Send, diskVars
  <1>2. \A i \in Keys : due'[i] = IF i = k THEN {t \in Turns : KeyOf[t] = k /\ ts[t] # 0}
                                           ELSE due[i]
    BY <1>0, <1>1 DEF TypeOK
  <1>3. Queued' = Queued /\ Buffered' = Buffered
    <2>1. PICK m \in Messages : m = ForgetMsg(k)
      BY DEF Messages
    <2>2. m.op = "forget" /\ m.arg = k
      BY <2>1, KindsApart
    <2>3. \A i \in 1..Len(queue) : queue[i].op = "forget" =>
              due'[queue[i].arg] = due[queue[i].arg]
      BY <1>0, <1>1, <1>2 DEF Ordered, TypeOK
    <2>4. QED BY <1>1, <2>1, <2>2, <2>3, ChannelSends
  <1>4. Placed' /\ Identified' /\ OnDisk' = OnDisk /\ InFlight' = InFlight
    BY <1>1, <1>3, PlacedStays
  <1>5. Files'
    BY <1>1, FilesStay
  <1>6. \A i \in Keys : \A t \in due'[i] : KeyOf[t] = i /\ ts'[t] # 0
    BY <1>0, <1>1, <1>2 DEF Forgetting
  <1>7. at' \in {"erase", "list", "rewrite", "replace"} =>
          /\ job'.key \in named'
          /\ due'[job'.key] \cap (Queued' \cup Buffered') = {}
    BY <1>0, <1>1, <1>2, <1>3 DEF Forgetting, TypeOK
  <1>8. at' \in {"list", "rewrite", "replace"} => OfKey(wal)' = {}
    BY <1>0, <1>1 DEF Forgetting, OfKey
  <1>9. (\A t \in erased' : ts'[t] # 0) /\ ErasedIsGone'
    BY <1>0, <1>1, <1>4 DEF Forgetting, ErasedIsGone
  <1>10. QED BY <1>4, <1>5, <1>6, <1>7, <1>8, <1>9 DEF Forgetting


\* A shard grows old.
LEMMA AgeKeeps ==
    ASSUME ReqlogInv, Age
    PROVE  /\ Placed' /\ Identified' /\ Files' /\ Forgetting'
           /\ OnDisk' = OnDisk /\ old' \subseteq old \cup OnDisk
  <1>0. TypeOK /\ Files /\ Placed /\ Identified /\ Forgetting
    BY DEF ReqlogInv
  <1>1. PICK s \in shards :
          /\ shards' = (shards \ {s}) \cup {[s EXCEPT !.aged = TRUE]}
          /\ old' = old \cup TurnsIn(s.rows)
    BY DEF Age
  <1>2. PICK x : x = [s EXCEPT !.aged = TRUE]
    OBVIOUS
  <1>3. shards' = (shards \ {s}) \cup {x} /\ x.rows = s.rows /\ x.stamp = s.stamp
    BY <1>0, <1>1, <1>2 DEF TypeOK, Shard
  <1>4. UNCHANGED <<queue, buf, ts, clock, nextId, wal, partials, stamp, at, file, job,
                    dropped, lost, left, due, named, missed, erased>>
    BY DEF Age, chanVars, forgetVars
  <1>5. Found' = Found
    BY <1>3, <1>4, FoundIs
  <1>6. OnDisk' = OnDisk /\ InFlight' = InFlight /\ Queued' = Queued /\ Buffered' = Buffered
    BY <1>4, <1>5, OnDiskIsFound DEF InFlight, Queued, Buffered
  <1>7. Placed'
    BY <1>0, <1>4, <1>6 DEF Placed, Accounted, Whereabouts
  <1>8. Identified'
    BY <1>0, <1>4, <1>5 DEF Identified
  <1>9. Forgetting'
    <2>1. \A y \in shards' : \A t \in erased \cap TurnsIn(y.rows) :
            y.stamp \in missed[KeyOf[t]]
      BY <1>0, <1>3 DEF Forgetting, ErasedIsGone
    <2>2. erased \cap (TurnsIn(wal) \cup InFlight') = {}
      BY <1>0, <1>6 DEF Forgetting, ErasedIsGone
    <2>3. ErasedIsGone'
      BY <1>4, <2>1, <2>2 DEF ErasedIsGone
    <2>4. QED BY <1>0, <1>4, <1>6, <2>3 DEF Forgetting, OfKey
  <1>10. Files'
    <2>1. \A y, z \in shards' : y.stamp = z.stamp => y = z
      BY <1>0, <1>3 DEF Files
    <2>2. \A y \in shards' : y.aged => TurnsIn(y.rows) \subseteq old'
      BY <1>0, <1>1, <1>3 DEF Files
    <2>3. (\A y \in shards' : y.stamp <= stamp') /\ (\A p \in partials' : p.stamp <= stamp')
      BY <1>0, <1>3, <1>4 DEF Files
    <2>4. at' = "seal" => /\ \A y \in shards' : y.stamp # file'
                          /\ file' <= stamp'
                          /\ \A p \in partials' : p.stamp = file' => p.rows = wal'
      BY <1>0, <1>3, <1>4 DEF Files
    <2>5. at' = "delete" => \A r \in wal' : \E y \in shards' : r \in y.rows
      BY <1>0, <1>3, <1>4 DEF Files
    <2>6. at' = "replace" => \A p \in partials' : \A y \in shards' :
                               p.stamp = file' /\ y.stamp = file'
                                  => p.rows = y.rows \ OfKey(y.rows)'
      <3>1. ASSUME at = "replace", NEW p \in partials, NEW y \in shards',
                   p.stamp = file, y.stamp = file
            PROVE  p.rows = y.rows \ OfKey(y.rows)'
        <4>1. PICK z \in shards : z.stamp = y.stamp /\ z.rows = y.rows
          BY <1>3
        <4>2. p.rows = z.rows \ OfKey(z.rows)
          BY <1>0, <3>1, <4>1 DEF Files
        <4>3. OfKey(y.rows)' = OfKey(z.rows)
          BY <1>4, <4>1 DEF OfKey
        <4>4. QED BY <4>1, <4>2, <4>3
      <3>2. QED BY <1>4, <3>1
    <2>7. QED BY <2>1, <2>2, <2>3, <2>4, <2>5, <2>6 DEF Files
  <1>11. old' \subseteq old \cup OnDisk
    BY <1>1, OnDiskIs DEF TurnsIn
  <1>12. QED BY <1>6, <1>7, <1>8, <1>9, <1>10, <1>11

\* The process dies and a new one starts.
LEMMA CrashKeeps ==
    ASSUME ReqlogInv, Crash
    PROVE  Placed' /\ Identified' /\ Files' /\ Forgetting'
  <1>0. TypeOK /\ Files /\ Placed /\ Identified /\ Forgetting
    BY DEF ReqlogInv
  <1>1. /\ queue' = <<>> /\ buf' = <<>> /\ clock' = clock + 1 /\ nextId' = FirstId
        /\ lost' = lost \cup InFlight /\ at' = "idle"
        /\ UNCHANGED <<dropped, wal, shards, partials, stamp, ts, left, old, due, named,
                       missed, erased>>
    BY DEF Crash, Return, diskVars, forgetVars
  <1>2. OnDisk' = OnDisk /\ Found' = Found
    BY <1>1 DEF OnDisk, Found
  <1>3. InFlight' = {} /\ Queued' = {} /\ Buffered' = {}
    BY <1>1, ChannelEmpties, InFlightIs
  <1>4. Placed'
    <2>1. InFlight' = InFlight \ ({} \cup InFlight) /\ OnDisk' = OnDisk \cup {}
      BY <1>2, <1>3
    <2>2. {} \cup InFlight \subseteq InFlight
      OBVIOUS
    <2>3. QED BY <1>1, <2>1, <2>2, PlacedMoves
  <1>5. Identified'
    <2>1. ts \in [Turns -> Nat] /\ clock \in Nat /\ Found \subseteq Rows
      BY <1>0, FoundTyped DEF TypeOK
    <2>2. \A t \in Turns : ts'[t] <= clock' /\ ts'[t] # clock'
      BY <1>0, <1>1, <2>1 DEF Identified
    <2>3. \A x \in Found : x.turn \in Turns
      BY <2>1 DEF Rows
    <2>4. \A x \in wal' : x.id < nextId'
      BY <1>0, <1>1, FirstIdIs DEF Identified
    <2>5. QED BY <1>0, <1>1, <1>2, <2>2, <2>3, <2>4 DEF Identified
  <1>6. Files'
    BY <1>0, <1>1 DEF Files
  <1>7. Forgetting'
    BY <1>0, <1>1, <1>2, <1>3 DEF Forgetting, ErasedIsGone
  <1>8. QED BY <1>4, <1>5, <1>6, <1>7

\* Every step keeps what is said of places, ids, files and forgetting.
LEMMA DiskStep ==
    ASSUME ReqlogInv, Next
    PROVE  Placed' /\ Identified' /\ Files' /\ Forgetting'
  <1>1. CASE \E t \in Turns : Log(t)
    BY <1>1, LogKeeps
  <1>2. CASE \E k \in Keys : SendForget(k)
    BY <1>2, SendForgetKeeps
  <1>3. CASE SendControl \/ SendExport
    <2>1. PICK m \in Messages : /\ Send(m) /\ m.op \in {"flush", "rotate", "shutdown", "export"}
                                /\ m.op = "export" => ex.at = "off"
      <3>1. CASE \E o \in Calls \cap {"flush", "rotate"} : Send(Control(o))
        BY <3>1, KindsApart DEF Messages
      <3>2. CASE Send(Control("shutdown"))
        BY <3>2, KindsApart DEF Messages
      <3>3. CASE Send(Control("export")) /\ ex.at = "off"
        BY <3>3, KindsApart DEF Messages
      <3>4. QED BY <1>3, <3>1, <3>2, <3>3 DEF SendControl, SendExport
    <2>2. /\ queue' = Append(queue, m) /\ Len(queue) < QueueSize
          /\ UNCHANGED <<buf, clock, ts, named, due, missed, erased, wal, shards, partials, stamp, at,
                         file, job, dropped, nextId, lost, left, old>>
      BY <1>3, <2>1 DEF SendControl, SendExport, Send, forgetVars, diskVars
    <2>3. Queued' = Queued /\ Buffered' = Buffered
      BY <2>1, <2>2, ChannelSends
    <2>4. QED BY <2>2, <2>3, PlacedStays, FilesStay, ForgettingStays
  <1>4. CASE ApplyPolicy \/ ExportSteps \/ Stopped
    <2>1. UNCHANGED <<queue, buf, clock, ts, named, due, missed, erased, wal, shards, partials, stamp,
                      at, file, job, dropped, nextId, lost, left, old>>
      BY <1>4 DEF ApplyPolicy, ExportSteps, ExportList, ExportBind, ExportRead, ExportStep,
                  Stopped, vars, forgetVars, diskVars, chanVars
    <2>2. Queued' = Queued /\ Buffered' = Buffered
      BY <2>1 DEF Queued, Buffered
    <2>3. QED BY <2>1, <2>2, PlacedStays, FilesStay, ForgettingStays
  <1>5. CASE \/ \E t \in Turns : TakeRecord(t)
             \/ \E k \in Keys : TakeForget(k)
             \/ IdleTick \/ TakeFlush \/ TakeRotate \/ TakeExport \/ TakeShutdown
    BY <1>5, TakesSettle, PlacedSettles, IdentifiedSettles, FilesSettle, ForgettingSettles
  <1>6. CASE Copy \/ Seal \/ Delete \/ Prune \/ Erase \/ List \/ Rewrite \/ Replace \/ ForgetDone
    BY <1>6, ShrunkIsPlaced, FilesStep, ForgettingFiles
  <1>7. CASE Age
    BY <1>7, AgeKeeps
  <1>8. CASE Crash
    BY <1>8, CrashKeeps
  <1>9. QED
    BY <1>1, <1>2, <1>3, <1>4, <1>5, <1>6, <1>7, <1>8 DEF Next, WorkerStep

\* A fresh log.
LEMMA InitInv == Init => ReqlogInv
  <1> SUFFICES ASSUME Init PROVE ReqlogInv
    OBVIOUS
  <1>1. /\ OnDisk = {} /\ Found = {} /\ Queued = {} /\ Buffered = {} /\ InFlight = {}
    BY InFlightIs DEF Init, OnDisk, Found, TurnsIn, RowsOn, Queued, Buffered
  <1>2. TypeOK
    <2>1. job \in Jobs
      BY JobTyped DEF Init
    <2>2. ex \in [at : ExportPlaces, has : BOOLEAN, glob : SUBSET Nat, tries : 0..2,
                  due : SUBSET Turns, got : SUBSET Rows]
      BY DEF Init, NoExport, ExportPlaces
    <2>3. answer \in [count : Nat, held : SUBSET Turns]
      BY DEF Init
    <2>4. queue \in Seq(Messages) /\ buf \in Seq(Turns)
            /\ Len(queue) <= QueueSize /\ Len(buf) < BatchFlush
      BY EmptyBatch DEF Init
    <2>5. ts \in [Turns -> Nat] /\ due \in [Keys -> SUBSET Turns]
      BY DEF Init
    <2>6. enabled \in BOOLEAN /\ retains \in BOOLEAN
      BY DEF Init
    <2>7. /\ nextId \in Nat \ {0} /\ stamp \in Nat /\ file \in Nat
          /\ clock \in Nat \ {0} /\ faults \in Nat /\ at \in Places
      BY DEF Init, Places
    <2>8. /\ wal \subseteq Rows /\ shards \subseteq Shard /\ partials \subseteq Partial
          /\ dropped \subseteq Turns /\ lost \subseteq Turns /\ left \subseteq Turns
          /\ old \subseteq Turns /\ named \subseteq Keys /\ erased \subseteq Turns
          /\ missed \in [Keys -> SUBSET Nat]
      BY DEF Init
    <2>9. QED BY <2>1, <2>2, <2>3, <2>4, <2>5, <2>6, <2>7, <2>8 DEF TypeOK
  <1>3. Finite
    BY FS_EmptySet DEF Init, Finite
  <1>4. Channel /\ Ordered /\ Exporting
    BY <1>1 DEF Init, Channel, Ordered, Exporting, NoExport
  <1>5. Placed
    BY <1>1, AccountedIs DEF Init, Placed, Apart
  <1>6. Identified /\ Files /\ Forgetting
    BY <1>1 DEF Init, Identified, Files, Forgetting, ErasedIsGone
  <1>7. QED BY <1>2, <1>3, <1>4, <1>5, <1>6 DEF ReqlogInv

-----------------------------------------------------------------------------
(* Theorems.                                                               *)

\* The inductive invariant holds.
THEOREM ReqlogInvHolds == Spec => []ReqlogInv
  <1>1. ReqlogInv /\ [Next]_vars => ReqlogInv'
    BY TypeStep, ChannelStep, DiskStep, InvStutters DEF ReqlogInv
  <1>2. QED BY <1>1, InitInv, PTL DEF Spec

\* The variables keep their types: the channel its bound, the buffer its size,
\* and an export its two attempts.
THEOREM TypeCorrect == Spec => []TypeOK
  <1>1. ReqlogInv => TypeOK
    BY DEF ReqlogInv
  <1>2. QED BY <1>1, ReqlogInvHolds, PTL

\* Every turn handed to log is in exactly one of the five places, through every
\* rotation, forgetting, fault and restart.
THEOREM AccountedHolds == Spec => []Accounted
  <1>1. ReqlogInv => Accounted
    BY DEF ReqlogInv, Placed
  <1>2. QED BY <1>1, ReqlogInvHolds, PTL

\* What PARTITION BY compares names the turn, whatever request ids callers give.
THEOREM DedupKeyNamesTurnHolds == Spec => []DedupKeyNamesTurn
  <1>1. ReqlogInv => DedupKeyNamesTurn
    <2> SUFFICES ASSUME ReqlogInv, NEW x \in Found, NEW y \in Found
                 PROVE  DedupKey(x) = DedupKey(y) <=> x.turn = y.turn
      BY DEF DedupKeyNamesTurn, Found
    <2>1. x.turn = y.turn => x = y
      BY DEF ReqlogInv, Identified
    <2>2. x.id = y.id /\ ts[x.turn] = ts[y.turn] => x = y
      BY DEF ReqlogInv, Identified
    <2>3. QED BY <2>1, <2>2 DEF DedupKey
  <1>2. QED BY <1>1, ReqlogInvHolds, PTL

\* Once a Forget answered Ok, what it had to erase is neither in the table, nor
\* on its way there, nor in a shard whose listing that Forget was shown: not
\* after any rotation, restart, Forget of another key or fault that follows.
THEOREM ErasedIsGoneHolds == Spec => []ErasedIsGone
  <1>1. ReqlogInv => ErasedIsGone
    BY DEF ReqlogInv, Forgetting
  <1>2. QED BY <1>1, ReqlogInvHolds, PTL


\* No step makes a shard younger, but the replacement of one whose time could
\* not be read: a shard is replaced under its own stamp, and a stamp is given
\* once.
THEOREM AgeIsKeptHolds == Spec => AgeIsKept
  <1> DEFINE Kept == \A s \in shards : \A x \in shards' :
                        s.stamp = x.stamp /\ s.aged
                           => \/ x.aged
                              \/ at = "replace" /\ file = s.stamp /\ ~job.dated
  <1>1. ASSUME ReqlogInv, [Next]_vars PROVE Kept
    <2>0. TypeOK /\ Files
      BY <1>1 DEF ReqlogInv
    <2>1. ASSUME shards' \subseteq shards PROVE Kept
      BY <2>0, <2>1 DEF Files
    <2>2. ASSUME NEW s \in shards, NEW x, shards' = (shards \ {s}) \cup {x},
                 x.stamp = s.stamp,
                 s.aged => x.aged \/ (at = "replace" /\ file = s.stamp /\ ~job.dated)
          PROVE  Kept
      BY <2>0, <2>2 DEF Files
    <2>3. CASE Seal
      <3>1. CASE GiveUp
        BY <2>1, <3>1, GiveUpFinds
      <3>2. CASE ~GiveUp
        <4>1. PICK p \in partials :
                shards' = shards \cup {[stamp |-> file, rows |-> p.rows, aged |-> FALSE]}
          BY <2>3, <3>2 DEF Seal
        <4>2. PICK x : x = [stamp |-> file, rows |-> p.rows, aged |-> FALSE]
          OBVIOUS
        <4>3. shards' = shards \cup {x} /\ x.stamp = file
          BY <4>1, <4>2
        <4>4. \A s \in shards : s.stamp # file
          BY <2>0, <2>3 DEF Files, Seal
        <4>5. QED BY <2>0, <4>3, <4>4 DEF Files
      <3>3. QED BY <3>1, <3>2
    <2>4. CASE Replace
      <3>1. CASE GiveUp
        BY <2>1, <3>1, GiveUpFinds
      <3>2. CASE ~GiveUp
        <4>1. PICK s \in shards, p \in partials :
                /\ s.stamp = file
                /\ shards' = (shards \ {s}) \cup
                                {[s EXCEPT !.rows = p.rows, !.aged = @ /\ job.dated]}
          BY <2>4, <3>2 DEF Replace
        <4>2. PICK x : x = [s EXCEPT !.rows = p.rows, !.aged = @ /\ job.dated]
          OBVIOUS
        <4>3. /\ shards' = (shards \ {s}) \cup {x} /\ x.stamp = s.stamp
              /\ x.aged = (s.aged /\ job.dated) /\ at = "replace"
          BY <2>0, <2>4, <4>1, <4>2 DEF TypeOK, Shard, Replace
        <4>a. s.aged => x.aged \/ (at = "replace" /\ file = s.stamp /\ ~job.dated)
          BY <4>1, <4>3
        <4>4. QED BY <2>2, <4>3, <4>a
      <3>3. QED BY <3>1, <3>2
    <2>5. CASE Age
      <3>1. PICK s \in shards : shards' = (shards \ {s}) \cup {[s EXCEPT !.aged = TRUE]}
        BY <2>5 DEF Age
      <3>2. PICK x : x = [s EXCEPT !.aged = TRUE]
        OBVIOUS
      <3>3. shards' = (shards \ {s}) \cup {x} /\ x.stamp = s.stamp /\ x.aged = TRUE
        BY <2>0, <3>1, <3>2 DEF TypeOK, Shard
      <3>4. QED BY <2>2, <3>3
    <2>6. CASE Copy \/ Delete \/ Prune \/ Erase \/ List \/ Rewrite \/ ForgetDone
      <3>1. CASE GiveUp
        BY <2>1, <3>1, GiveUpFinds
      <3>2. CASE ~GiveUp
        <4>1. shards' \subseteq shards
          BY <2>6, <3>2 DEF Copy, Delete, Prune, Erase, List, Rewrite, ForgetDone, diskVars
        <4>2. QED BY <2>1, <4>1
      <3>3. QED BY <3>1, <3>2
    <2>7. CASE \/ \E t \in Turns : TakeRecord(t)
               \/ \E k \in Keys : TakeForget(k)
               \/ IdleTick \/ TakeFlush \/ TakeRotate \/ TakeExport \/ TakeShutdown
      <3>1. shards' = shards
        BY <1>1, <2>7, TakesSettle DEF Settles
      <3>2. QED BY <2>1, <3>1
    <2>8. CASE \/ \E t \in Turns : Log(t)
               \/ \E k \in Keys : SendForget(k)
               \/ ApplyPolicy \/ SendControl \/ SendExport \/ ExportSteps \/ Crash \/ Stopped
               \/ UNCHANGED vars
      <3>1. shards' = shards
        BY <2>8 DEF Log, SendForget, ApplyPolicy, SendControl, SendExport, Send, Stopped,
                    ExportSteps, ExportList, ExportBind, ExportRead, ExportStep, Crash,
                    vars, diskVars
      <3>2. QED BY <2>1, <3>1
    <2>9. QED
      BY <1>1, <2>3, <2>4, <2>5, <2>6, <2>7, <2>8 DEF Next, WorkerStep
  <1>2. QED BY <1>1, ReqlogInvHolds, PTL DEF Spec, AgeIsKept

\* The request log implements the Archive: a turn on the disk stays there until
\* the forgetting of its key was asked for or its shard outlived the retention
\* period, and one that left never comes back. Rotation, a fault in the middle of
\* one and a restart are stutters of the archive.
THEOREM ArchiveHolds == Spec => ImplementsArchive
  <1>1. Init => ArchiveOf!Init
    BY DEF Init, ArchiveOf!Init, OnDisk, TurnsIn, RowsOn
  <1>2. ASSUME ReqlogInv, [Next]_vars
        PROVE  ArchiveOf!Next \/ UNCHANGED ArchiveOf!archiveVars
    <2>0. TypeOK /\ Files /\ Forgetting /\ Apart
      BY <1>2, AccountedIs DEF ReqlogInv, Placed
    <2>a. ASSUME UNCHANGED <<wal, shards, left, old, named>>
          PROVE  UNCHANGED ArchiveOf!archiveVars
      BY <2>a DEF ArchiveOf!archiveVars, OnDisk
    <2>1. CASE \E k \in Keys : SendForget(k)
      <3>1. PICK k \in Keys : SendForget(k)
        BY <2>1
      <3>2. named' = named \cup {k} /\ OnDisk' = OnDisk /\ left' = left /\ old' = old
        BY <3>1 DEF SendForget, Send, diskVars, OnDisk
      <3>3. QED BY <3>1, <3>2 DEF ArchiveOf!Next, ArchiveOf!Name
    <2>2. CASE \/ \E t \in Turns : TakeRecord(t)
               \/ \E k \in Keys : TakeForget(k)
               \/ IdleTick \/ TakeFlush \/ TakeRotate \/ TakeExport \/ TakeShutdown
      <3>1. PICK b \in Seq(Turns), G \in SUBSET Turns : Settles(b, G)
        BY <1>2, <2>2, TakesSettle
      <3>2. left' = left /\ old' = old /\ named' = named
        BY <3>1 DEF Settles
      <3>3. CASE OnDisk' = OnDisk \cup Elems(b)
        <4>1. Elems(b) \in SUBSET Turns
          BY <3>1 DEF Elems
        <4>2. Elems(b) \cap (OnDisk \cup left) = {}
          BY <2>0, <3>1 DEF Settles, Apart
        <4>3. ArchiveOf!Keep(Elems(b))
          BY <3>2, <3>3, <4>2 DEF ArchiveOf!Keep
        <4>4. QED BY <4>1, <4>3 DEF ArchiveOf!Next
      <3>4. CASE OnDisk' = OnDisk
        BY <3>2, <3>4 DEF ArchiveOf!archiveVars
      <3>5. QED BY <1>2, <3>1, <3>3, <3>4, SettledDisk
    <2>3. CASE Copy \/ Seal \/ Delete \/ List \/ Rewrite \/ ForgetDone
      <3>1. /\ OnDisk' = OnDisk /\ UNCHANGED <<old, named>>
            /\ left' = left \cup (OnDisk \ OnDisk')
        BY <1>2, <2>3, FilesShrink
      <3>2. left' = left
        BY <3>1
      <3>3. QED BY <3>1, <3>2 DEF ArchiveOf!archiveVars
    <2>4. CASE Prune \/ Erase \/ Replace
      <3>1. /\ OnDisk' \subseteq OnDisk /\ left' = left \cup (OnDisk \ OnDisk')
            /\ UNCHANGED <<old, named>>
        BY <1>2, <2>4, FilesShrink
      <3>2. PICK S : S = OnDisk \ OnDisk'
        OBVIOUS
      <3>3. S \in SUBSET Turns /\ S \subseteq OnDisk /\ OnDisk' = OnDisk \ S
        BY <2>0, <3>1, <3>2, FoundTyped
      <3>4. (\A t \in S : KeyOf[t] \in named) \/ S \subseteq old
        <4>1. CASE Prune
          <5>1. ASSUME NEW t \in S PROVE t \in old
            <6>1. wal' = wal /\ \A s \in shards : s \in shards' \/ s.aged
              BY <4>1 DEF Prune, Expired
            <6>2. \/ \E r \in wal : r.turn = t
                  \/ \E s \in shards : \E r \in s.rows : r.turn = t
              BY <3>2, OnDiskIs
            <6>3. /\ ~ \E r \in wal' : r.turn = t
                  /\ ~ \E s \in shards' : \E r \in s.rows : r.turn = t
              BY <3>2, OnDiskIsNext
            <6>4. PICK s \in shards : s.aged /\ \E r \in s.rows : r.turn = t
              BY <6>1, <6>2, <6>3
            <6>5. QED BY <2>0, <6>4 DEF Files, TurnsIn
          <5>2. QED BY <5>1
        <4>2. CASE Erase
          <5>1. job.key \in named
            BY <2>0, <4>2 DEF Forgetting, Erase
          <5>2. ASSUME NEW t \in S PROVE KeyOf[t] = job.key
            <6>1. shards' = shards /\ \A r \in wal : r \in wal' \/ KeyOf[r.turn] = job.key
              BY <4>2 DEF Erase, OfKey
            <6>2. \/ \E r \in wal : r.turn = t
                  \/ \E s \in shards : \E r \in s.rows : r.turn = t
              BY <3>2, OnDiskIs
            <6>3. /\ ~ \E r \in wal' : r.turn = t
                  /\ ~ \E s \in shards' : \E r \in s.rows : r.turn = t
              BY <3>2, OnDiskIsNext
            <6>4. QED BY <6>1, <6>2, <6>3
          <5>3. QED BY <5>1, <5>2
        <4>3. CASE Replace
          <5>1. job.key \in named
            BY <2>0, <4>3 DEF Forgetting, Replace
          <5>2. CASE GiveUp
            BY <3>2, <5>2, GiveUpFinds DEF OnDisk
          <5>3. CASE ~GiveUp
            <6>1. PICK s \in shards, p \in partials :
                    /\ s.stamp = file /\ p.stamp = file
                    /\ shards' = (shards \ {s}) \cup
                                {[s EXCEPT !.rows = p.rows, !.aged = @ /\ job.dated]}
              BY <4>3, <5>3 DEF Replace
            <6>2. p.rows = s.rows \ OfKey(s.rows)
              BY <2>0, <4>3, <6>1 DEF Files, Replace
            <6>3. PICK x : x = [s EXCEPT !.rows = p.rows, !.aged = @ /\ job.dated]
              OBVIOUS
            <6>4. shards' = (shards \ {s}) \cup {x} /\ x.rows = s.rows \ OfKey(s.rows)
              BY <2>0, <6>1, <6>2, <6>3 DEF TypeOK, Shard
            <6>5. wal' = wal
              BY <4>3, <5>3 DEF Replace
            <6>6. ASSUME NEW t \in S PROVE KeyOf[t] = job.key
              <7>1. \/ \E r \in wal : r.turn = t
                    \/ \E y \in shards : \E r \in y.rows : r.turn = t
                BY <3>2, OnDiskIs
              <7>2. /\ ~ \E r \in wal' : r.turn = t
                    /\ ~ \E y \in shards' : \E r \in y.rows : r.turn = t
                BY <3>2, OnDiskIsNext
              <7>3. PICK r \in s.rows : r.turn = t /\ r \notin x.rows
                BY <6>4, <6>5, <7>1, <7>2
              <7>4. QED BY <6>4, <7>3 DEF OfKey
            <6>7. QED BY <5>1, <6>6
          <5>4. QED BY <5>2, <5>3
        <4>4. QED BY <2>4, <4>1, <4>2, <4>3
      <3>5. ArchiveOf!Leave(S)
        BY <3>1, <3>2, <3>3, <3>4 DEF ArchiveOf!Leave
      <3>6. QED BY <3>3, <3>5 DEF ArchiveOf!Next
    <2>5. CASE Age
      <3>1. PICK s \in shards : old' = old \cup TurnsIn(s.rows)
        BY <2>5 DEF Age
      <3>2. TurnsIn(s.rows) \in SUBSET Turns /\ TurnsIn(s.rows) \subseteq OnDisk
        BY <2>0, OnDiskIs, FoundTyped DEF TurnsIn
      <3>3. OnDisk' = OnDisk
        BY <1>2, <2>5, AgeKeeps
      <3>4. left' = left /\ named' = named
        BY <2>5 DEF Age, forgetVars
      <3>5. ArchiveOf!Age(TurnsIn(s.rows))
        BY <3>1, <3>2, <3>3, <3>4 DEF ArchiveOf!Age
      <3>6. QED BY <3>2, <3>5 DEF ArchiveOf!Next
    <2>6. CASE \/ \E t \in Turns : Log(t)
               \/ ApplyPolicy \/ SendControl \/ SendExport \/ ExportSteps \/ Crash \/ Stopped
               \/ UNCHANGED vars
      <3>1. UNCHANGED <<wal, shards, left, old, named>>
        BY <2>6 DEF Log, ApplyPolicy, SendControl, SendExport, Send, Stopped,
                    ExportSteps, ExportList, ExportBind, ExportRead, ExportStep, Crash,
                    vars, diskVars, forgetVars
      <3>2. QED BY <2>a, <3>1
    <2>7. QED
      BY <1>2, <2>1, <2>2, <2>3, <2>4, <2>5, <2>6 DEF Next, WorkerStep
  <1>3. QED
    BY <1>1, <1>2, ReqlogInvHolds, PTL DEF Spec, ImplementsArchive, ArchiveOf!Spec

=============================================================================
