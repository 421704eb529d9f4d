------------------------------- MODULE Reqlog -------------------------------
(***************************************************************************)
(* The request log: DuckLogger's bounded queue, the worker thread that     *)
(* flushes to the write-ahead table and rotates it into shards, forgetting *)
(* and export, with a crash between any two steps of the worker.           *)
(*                                                                         *)
(* Code: yb-reqlog/src/lib.rs.                                             *)
(*                                                                         *)
(* A flush is one DuckDB transaction and so one step. Rotation and         *)
(* forgetting touch several files: each file operation is a step. An       *)
(* export runs on its caller's thread, beside the worker.                  *)
(***************************************************************************)
EXTENDS Integers, Sequences, FiniteSets

CONSTANTS
    Turns,       \* turns that may be logged, each once
    Keys,        \* api keys
    KeyOf,       \* the key a turn was made with
    RequestOf,   \* the request id a turn's caller gave, maybe not unique
    QueueSize,   \* ReqlogConfig::queue_size
    BatchFlush,  \* BATCH_FLUSH
    Policies,    \* capture policies an operator applies: [enabled, retains]
    Calls,       \* bound: the other calls made, of those below
    MaxFaults,   \* bound: operations on the disk that fail
    MaxCrashes,  \* bound: crashes
    MaxForgets   \* bound: keys forgotten, each once

ASSUME KeyOfAssumption == KeyOf \in [Turns -> Keys]
ASSUME SizesAssumption == QueueSize \in Nat \ {0} /\ BatchFlush \in Nat \ {0}
ASSUME PoliciesAssumption == Policies \subseteq [enabled : BOOLEAN, retains : BOOLEAN]
ASSUME CallsAssumption == Calls \subseteq {"export", "flush", "forget", "rotate", "shutdown"}
ASSUME BoundsAssumption ==
    MaxFaults \in Nat /\ MaxCrashes \in Nat /\ MaxForgets \in Nat

\* Messages. A record names its turn, a Forget its key.
Record(t) == [op |-> "record", arg |-> t]
Control(o) == [op |-> o, arg |-> "-"]
ForgetMsg(k) == [op |-> "forget", arg |-> k]
Messages ==
    {Record(t) : t \in Turns} \cup {ForgetMsg(k) : k \in Keys}
       \cup {Control(o) : o \in {"export", "flush", "rotate", "shutdown"}}

\* Where the worker is: at the top of run, in rotate, in forget, or gone.
Places == {"idle", "copy", "seal", "delete", "prune",
           "erase", "list", "rewrite", "replace", "stopped"}

VARIABLES
    enabled,   \* CapturePolicy::enabled
    retains,   \* CapturePolicy::retention_days > 0
    queue,     \* the channel
    buf,       \* Worker::buf
    nextId,    \* Worker::next_id
    wal,       \* rows of the table turns
    shards,    \* sealed shards: [stamp, rows, aged]
    partials,  \* files ending in .parquet.partial: [stamp, rows]
    stamp,     \* the last shard stamp given
    at,        \* where the worker is
    file,      \* the stamp of the shard it is writing
    job,       \* what forget works on: [key, count, held, missed, dated]
    ex,        \* the export: [at, has, glob, tries, due, got]
    dropped,   \* turns DuckLogger::dropped counted
    clock,     \* the time, which advances over a restart
    faults,    \* operations on the disk that failed
    ts,        \* RequestLogRecord::ts of a logged turn, 0 before
    lost,      \* history: turns lost in flight, uncounted
    left,      \* history: turns that were on the disk and are not any more
    old,       \* history: turns that were in a shard past retention
    due,       \* history: due[k] is what the last Forget of k is to erase
    named,     \* history: keys whose forgetting was asked for
    missed,    \* history: missed[k] is the shards no listing showed to a Forget
               \*          of k that answered Ok
    erased,    \* history: turns of Forgets that answered Ok
    answer     \* history: the last Ok answer of a Forget: [count, held]


policyVars == <<enabled, retains>>
chanVars   == <<queue, buf, dropped>>
diskVars   == <<wal, shards, partials, stamp>>
forgetVars == <<due, named, missed, erased, answer>>
vars == <<policyVars, chanVars, nextId, diskVars, at, file, job, ex, clock,
          faults, ts, lost, left, old, forgetVars>>

Rows == [id : Nat \ {0}, turn : Turns]
Shard == [stamp : Nat, rows : SUBSET Rows, aged : BOOLEAN]
Partial == [stamp : Nat, rows : SUBSET Rows]

\* The export: on the caller's side of its message, then listing the shards,
\* preparing the query and running it, at most twice.
ExportPlaces == {"off", "asked", "list", "bind", "read", "done", "failed"}
NoExport == [at |-> "off", has |-> FALSE, glob |-> {}, tries |-> 0,
             due |-> {}, got |-> {}]

\* What a Forget of k, whose turns on the disk are H, knows as it goes: the
\* rows it deleted, the shards its listing did not show, and whether the time
\* of the shard it is writing again could be read.
Job(k, H) == [key |-> k, count |-> 0, held |-> H, missed |-> {}, dated |-> TRUE]
NoJob == Job("-", {})
Jobs == [key : Keys \cup {"-"}, count : Nat, held : SUBSET Turns,
         missed : SUBSET Nat, dated : BOOLEAN]

TurnsIn(rows) == {r.turn : r \in rows}
RowsOn(w, s) == w \cup UNION {x.rows : x \in s}

\* Turns an export can find: in the table, or in a sealed shard.
OnDisk == TurnsIn(RowsOn(wal, shards))

\* Turns accepted by log and not flushed.
InFlight == {t \in Turns : \/ \E i \in 1..Len(queue) : queue[i] = Record(t)
                           \/ \E i \in 1..Len(buf) : buf[i] = t}

\* Mutant: rows are told apart by their time and request alone.
DedupKeyNoId(r) == <<ts[r.turn], RequestOf[r.turn]>>

\* What PARTITION BY compares to find the two rows of one turn.
DedupKey(r) == <<r.id, ts[r.turn], RequestOf[r.turn]>>

TypeOK ==
    /\ enabled \in BOOLEAN /\ retains \in BOOLEAN
    /\ queue \in Seq(Messages) /\ Len(queue) <= QueueSize
    /\ buf \in Seq(Turns) /\ Len(buf) < BatchFlush
    /\ nextId \in Nat \ {0}
    /\ wal \subseteq Rows /\ shards \subseteq Shard /\ partials \subseteq Partial
    /\ stamp \in Nat /\ file \in Nat
    /\ at \in Places
    /\ job \in Jobs
    /\ ex \in [at : ExportPlaces, has : BOOLEAN, glob : SUBSET Nat, tries : 0..2,
               due : SUBSET Turns, got : SUBSET Rows]
    /\ dropped \subseteq Turns
    /\ clock \in Nat \ {0} /\ faults \in Nat
    /\ ts \in [Turns -> Nat]
    /\ lost \subseteq Turns /\ left \subseteq Turns /\ old \subseteq Turns
    /\ due \in [Keys -> SUBSET Turns]
    /\ missed \in [Keys -> SUBSET Nat]
    /\ named \subseteq Keys /\ erased \subseteq Turns
    /\ answer \in [count : Nat, held : SUBSET Turns]

Init ==
    /\ enabled = FALSE /\ retains = TRUE
    /\ queue = <<>> /\ buf = <<>> /\ dropped = {}
    /\ nextId = 1
    /\ wal = {} /\ shards = {} /\ partials = {} /\ stamp = 0
    /\ at = "idle" /\ file = 0
    /\ job = NoJob
    /\ ex = NoExport
    /\ clock = 1 /\ faults = 0
    /\ ts = [t \in Turns |-> 0]
    /\ lost = {} /\ left = {} /\ old = {}
    /\ due = [k \in Keys |-> {}]
    /\ missed = [k \in Keys |-> {}]
    /\ named = {} /\ erased = {}
    /\ answer = [count |-> 0, held |-> {}]

-----------------------------------------------------------------------------
(* Callers of DuckLogger.                                                  *)

\* Mutant: a full queue drops the record without a trace.
LogSilently(t) ==
    /\ enabled /\ ts[t] = 0
    /\ ts' = [ts EXCEPT ![t] = clock]
    /\ queue' = IF at # "stopped" /\ Len(queue) < QueueSize
                  THEN Append(queue, Record(t)) ELSE queue
    /\ UNCHANGED <<policyVars, buf, dropped, nextId, diskVars, at, file, job, ex,
                   clock, faults, lost, left, old, forgetVars>>

\* log: nothing while capture is off; try_send, and count what did not fit.
Log(t) ==
    /\ enabled /\ ts[t] = 0
    /\ ts' = [ts EXCEPT ![t] = clock]
    /\ IF at # "stopped" /\ Len(queue) < QueueSize
         THEN queue' = Append(queue, Record(t)) /\ UNCHANGED dropped
         ELSE dropped' = dropped \cup {t} /\ UNCHANGED queue
    /\ UNCHANGED <<policyVars, buf, nextId, diskVars, at, file, job, ex, clock,
                   faults, lost, left, old, forgetVars>>

ApplyPolicy ==
    /\ \E p \in Policies : enabled' = p.enabled /\ retains' = p.retains
    /\ UNCHANGED <<chanVars, nextId, diskVars, at, file, job, ex, clock, faults,
                   ts, lost, left, old, forgetVars>>

\* The blocking send of a control message: it waits for room.
Send(m) ==
    /\ at # "stopped"
    /\ Len(queue) < QueueSize
    /\ queue' = Append(queue, m)
    /\ UNCHANGED <<policyVars, buf, dropped, nextId, diskVars, at, file, job,
                   clock, faults, ts, lost, left, old>>

\* flush or turns_count, force_rotate; and shutdown, which takes the thread's
\* handle and so is sent once.
SendControl ==
    /\ \/ \E o \in Calls \cap {"flush", "rotate"} : Send(Control(o))
       \/ /\ "shutdown" \in Calls
          /\ \A i \in 1..Len(queue) : queue[i] # Control("shutdown")
          /\ Send(Control("shutdown"))
    /\ UNCHANGED <<ex, forgetVars>>

SendExport ==
    /\ "export" \in Calls /\ ex.at = "off"
    /\ Send(Control("export"))
    /\ ex' = [NoExport EXCEPT !.at = "asked"]
    /\ UNCHANGED forgetVars

\* forget: what was captured so far is to go.
SendForget(k) ==
    /\ "forget" \in Calls /\ Cardinality(named) < MaxForgets /\ k \notin named
    /\ Send(ForgetMsg(k))
    /\ named' = named \cup {k}
    /\ due' = [due EXCEPT ![k] = {t \in Turns : KeyOf[t] = k /\ ts[t] # 0}]
    /\ UNCHANGED <<ex, missed, erased, answer>>

-----------------------------------------------------------------------------
(* The worker: flush.                                                      *)

Elems(b) == {b[i] : i \in 1..Len(b)}
Fault == faults < MaxFaults /\ faults' = faults + 1

\* The batch is committed in one transaction.
FlushOk(b) ==
    /\ buf' = <<>>
    /\ wal' = wal \cup {[id |-> nextId + i - 1, turn |-> b[i]] : i \in 1..Len(b)}
    /\ nextId' = nextId + Len(b)
    /\ UNCHANGED <<lost, faults>>

\* BEGIN, an insert or COMMIT fails: the batch was taken from buf and is gone,
\* some ids with it.
FlushFails(b) ==
    /\ b # <<>> /\ Fault
    /\ buf' = <<>>
    /\ lost' = lost \cup Elems(b)
    /\ \E n \in 0..Len(b) : nextId' = nextId + n
    /\ UNCHANGED wal

\* rotate has flushed: an empty table is not copied.
Rotating == at' = IF wal' = {} THEN "delete" ELSE "copy"

\* flush_logged, then maybe_rotate on a timer, the date or the table's size.
FlushMaybeRotate(b) ==
    /\ FlushOk(b) \/ FlushFails(b)
    /\ Rotating \/ at' = "idle"

\* The head of the queue, at the top of the loop of run.
Taken(m) ==
    /\ at = "idle" /\ queue # <<>>
    /\ m = Head(queue)
    /\ queue' = Tail(queue)
    /\ UNCHANGED <<policyVars, dropped, shards, partials, stamp, file, clock, ts,
                   left, old, due, named, missed, erased, answer>>

TakeRecord(t) ==
    /\ Taken(Record(t))
    /\ LET b == Append(buf, t) IN
         IF Len(b) < BatchFlush
           THEN buf' = b /\ UNCHANGED <<wal, nextId, lost, faults, at>>
           ELSE FlushMaybeRotate(b)
    /\ UNCHANGED <<job, ex>>

\* Mutant: the timer no longer flushes.
IdleTickNoFlush == at = "idle" /\ queue = <<>> /\ UNCHANGED vars

\* recv_timeout ran out.
IdleTick ==
    /\ at = "idle" /\ queue = <<>>
    /\ FlushMaybeRotate(buf)
    /\ UNCHANGED <<policyVars, queue, dropped, shards, partials, stamp, file, job,
                   ex, clock, ts, left, old, forgetVars>>

TakeFlush ==
    /\ Taken(Control("flush"))
    /\ FlushOk(buf) \/ FlushFails(buf)
    /\ UNCHANGED <<at, job, ex>>

TakeRotate ==
    /\ Taken(Control("rotate"))
    /\ \/ FlushOk(buf) /\ Rotating
       \/ FlushFails(buf) /\ UNCHANGED at
    /\ UNCHANGED <<job, ex>>

\* Flush, and hand a connection to the export.
TakeExport ==
    /\ Taken(Control("export"))
    /\ \/ FlushOk(buf) /\ ex' = [ex EXCEPT !.at = "list",
                                    !.due = TurnsIn(RowsOn(wal', shards))]
       \/ FlushFails(buf) /\ ex' = [ex EXCEPT !.at = "failed"]
    /\ UNCHANGED <<at, job>>

\* Mutant: the buffer is not flushed before the table is searched.
TakeForgetUnflushed(k) ==
    /\ Taken(ForgetMsg(k))
    /\ at' = "erase"
    /\ job' = Job(k, {})
    /\ UNCHANGED <<buf, wal, nextId, lost, faults, ex>>

TakeForget(k) ==
    /\ Taken(ForgetMsg(k))
    /\ \/ /\ FlushOk(buf)
          /\ at' = "erase"
          /\ job' = Job(k, {t \in TurnsIn(RowsOn(wal', shards)) : KeyOf[t] = k})
       \/ FlushFails(buf) /\ UNCHANGED <<at, job>>
    /\ UNCHANGED ex

\* Flush and leave the loop: the receiver is gone with what is still queued.
TakeShutdown ==
    /\ at = "idle" /\ queue # <<>>
    /\ Head(queue) = Control("shutdown")
    /\ queue' = <<>>
    /\ LET behind == {t \in Turns : \E i \in 1..Len(queue) : queue[i] = Record(t)} IN
         \/ /\ wal' = wal \cup {[id |-> nextId + i - 1, turn |-> buf[i]] : i \in 1..Len(buf)}
            /\ nextId' = nextId + Len(buf)
            /\ lost' = lost \cup behind
            /\ UNCHANGED faults
         \/ /\ buf # <<>> /\ Fault
            /\ lost' = lost \cup behind \cup Elems(buf)
            /\ UNCHANGED <<wal, nextId>>
    /\ buf' = <<>>
    /\ at' = "stopped"
    /\ ex' = IF ex.at = "asked" THEN [ex EXCEPT !.at = "failed"] ELSE ex
    /\ UNCHANGED <<policyVars, dropped, shards, partials, stamp, file, job, clock,
                   ts, left, old, forgetVars>>

-----------------------------------------------------------------------------
(* The worker: rotate.                                                     *)

\* What every step on the files leaves alone.
FileStep ==
    UNCHANGED <<policyVars, chanVars, nextId, ex, clock, ts, lost, old, due, named>>

\* rotate or forget returns: its locals are gone.
Return == at' = "idle" /\ file' = 0 /\ job' = NoJob

\* An operation on the files failed: the partial files are removed, as far as
\* they can be.
GiveUp ==
    /\ Fault
    /\ partials' \in SUBSET partials
    /\ Return
    /\ UNCHANGED <<wal, shards, stamp, left, missed, erased, answer>>

\* What leaves the disk in this step (history).
Leaves ==
    left' = left \cup (OnDisk \ TurnsIn(RowsOn(wal', shards')))

\* Mutant: the table is emptied before the shard has its name.
CopyUnsealed ==
    /\ at = "copy" /\ FileStep
    /\ stamp' = stamp + 1 /\ file' = stamp + 1
    /\ partials' = partials \cup {[stamp |-> stamp + 1, rows |-> wal]}
    /\ at' = "delete"
    /\ UNCHANGED <<wal, shards, job, faults, left, missed, erased, answer>>

\* COPY under a name no export reads.
Copy ==
    /\ at = "copy" /\ FileStep
    /\ \/ /\ stamp' = stamp + 1 /\ file' = stamp + 1
          /\ partials' = partials \cup {[stamp |-> stamp + 1, rows |-> wal]}
          /\ at' = "seal"
          /\ UNCHANGED <<wal, shards, job, faults, left, missed, erased, answer>>
       \/ GiveUp

\* Rename it into place.
Seal ==
    /\ at = "seal" /\ FileStep
    /\ \/ /\ \E p \in partials :
                /\ p.stamp = file
                /\ shards' = shards \cup
                      {[stamp |-> file, rows |-> p.rows, aged |-> FALSE]}
                /\ partials' = partials \ {p}
          /\ at' = "delete"
          /\ UNCHANGED <<wal, stamp, file, job, faults, left, missed, erased, answer>>
       \/ GiveUp

\* DELETE FROM turns; CHECKPOINT. Either may fail.
Delete ==
    /\ at = "delete" /\ FileStep
    /\ \/ wal' = {} /\ at' = "prune" /\ UNCHANGED <<file, job, faults>>
       \/ wal' \in {wal, {}} /\ Return /\ Fault
    /\ UNCHANGED <<shards, partials, stamp, missed, erased, answer>>
    /\ Leaves

\* Shards past retention, when there is one.
Expired == {s \in shards : retains /\ s.aged}

\* prune: partial files, then the shards past retention. What cannot be listed
\* or removed stays.
Prune ==
    /\ at = "prune" /\ FileStep
    /\ \/ partials' = {} /\ shards' = shards \ Expired /\ UNCHANGED faults
       \/ /\ partials' \in SUBSET partials
          /\ \E S \in SUBSET Expired : shards' = shards \ S
          /\ Fault
    /\ Return
    /\ UNCHANGED <<wal, stamp, missed, erased, answer>>
    /\ Leaves

-----------------------------------------------------------------------------
(* The worker: forget.                                                     *)

OfKey(rows) == {r \in rows : KeyOf[r.turn] = job.key}

\* Delete the key's rows from the table.
Erase ==
    /\ at = "erase" /\ FileStep
    /\ \/ /\ wal' = wal \ OfKey(wal)
          /\ job' = [job EXCEPT !.count = Cardinality(OfKey(wal))]
          /\ at' = "list" /\ UNCHANGED <<file, faults>>
       \/ wal' = wal /\ Return /\ Fault
    /\ UNCHANGED <<shards, partials, stamp, missed, erased, answer>>
    /\ Leaves

\* forget answers Ok. The listing did not show it the shards M (history).
Answers(M) ==
    /\ erased' = erased \cup due[job.key]
    /\ answer' = [count |-> job.count, held |-> job.held]
    /\ missed' = [missed EXCEPT ![job.key] = @ \cup M]

Stamps == {s.stamp : s \in shards}

\* List the shards. An entry that cannot be read is passed over; when the
\* directory cannot be read at all, forget answers with what it deleted so far.
List ==
    /\ at = "list" /\ FileStep
    /\ \/ at' = "rewrite" /\ UNCHANGED <<file, job, faults, missed, erased, answer>>
       \/ /\ \E M \in SUBSET Stamps : job' = [job EXCEPT !.missed = M]
          /\ Fault
          /\ at' = "rewrite" /\ UNCHANGED <<file, missed, erased, answer>>
       \/ Fault /\ Answers(Stamps) /\ Return
    /\ UNCHANGED <<diskVars, left>>

\* The shards the listing showed.
Listed == {s \in shards : s.stamp \notin job.missed}

\* Write a shard that holds any of the key's rows again without them. Its time
\* is read first, and an error then is passed over.
Rewrite ==
    /\ at = "rewrite" /\ FileStep
    /\ \E s \in Listed :
          /\ OfKey(s.rows) # {}
          /\ \/ /\ partials' = {p \in partials : p.stamp # s.stamp} \cup
                      {[stamp |-> s.stamp, rows |-> s.rows \ OfKey(s.rows)]}
                /\ file' = s.stamp
                /\ at' = "replace"
                /\ \/ job' = [job EXCEPT !.dated = TRUE] /\ UNCHANGED faults
                   \/ job' = [job EXCEPT !.dated = FALSE] /\ Fault
                /\ UNCHANGED <<wal, shards, stamp, left, missed, erased, answer>>
             \/ GiveUp

\* Mutant: the rewritten shard counts as new.
ReplaceAsNew ==
    /\ at = "replace" /\ FileStep
    /\ \E s \in shards, p \in partials :
          /\ s.stamp = file /\ p.stamp = file
          /\ shards' = (shards \ {s}) \cup {[s EXCEPT !.rows = p.rows, !.aged = FALSE]}
          /\ partials' = partials \ {p}
          /\ job' = [job EXCEPT !.count = @ + Cardinality(OfKey(s.rows))]
    /\ at' = "rewrite"
    /\ UNCHANGED <<wal, stamp, file, faults, missed, erased, answer>>
    /\ Leaves

\* Rename it over the shard, with the shard's own modification time where that
\* is known: else the shard counts as new.
Replace ==
    /\ at = "replace" /\ FileStep
    /\ \/ /\ \E s \in shards, p \in partials :
                /\ s.stamp = file /\ p.stamp = file
                /\ shards' = (shards \ {s}) \cup
                      {[s EXCEPT !.rows = p.rows, !.aged = @ /\ job.dated]}
                /\ partials' = partials \ {p}
                /\ job' = [job EXCEPT !.count = @ + Cardinality(OfKey(s.rows))]
          /\ at' = "rewrite"
          /\ UNCHANGED <<wal, stamp, file, faults, missed, erased, answer>>
          /\ Leaves
       \/ GiveUp

\* No shard the listing showed holds the key any more: CHECKPOINT, and answer.
ForgetDone ==
    /\ at = "rewrite" /\ FileStep
    /\ \A s \in Listed : OfKey(s.rows) = {}
    /\ Return
    /\ \/ Answers(job.missed) /\ UNCHANGED faults
       \/ Fault /\ UNCHANGED <<missed, erased, answer>>
    /\ UNCHANGED <<diskVars, left>>

-----------------------------------------------------------------------------
(* The export, on its caller's thread.                                     *)

ExportStep ==
    UNCHANGED <<policyVars, chanVars, nextId, diskVars, at, file, job, clock,
                ts, lost, left, old, forgetVars>>

\* A failed attempt is made once more.
TryAgain ==
    ex' = [ex EXCEPT !.at = IF ex.tries = 0 THEN "list" ELSE "failed",
                     !.tries = @ + 1]

\* Is there any shard? None is, when the directory cannot be read.
ExportList ==
    /\ ex.at = "list" /\ ExportStep
    /\ \/ ex' = [ex EXCEPT !.at = "bind", !.has = (shards # {})] /\ UNCHANGED faults
       \/ ex' = [ex EXCEPT !.at = "bind", !.has = FALSE] /\ Fault

\* Mutant: a pattern that matches nothing is waited for.
ExportBindWaits ==
    /\ ex.at = "bind" /\ ExportStep
    /\ ex.has => shards # {}
    /\ ex' = [ex EXCEPT !.at = "read", !.glob = IF ex.has THEN Stamps ELSE {}]
    /\ UNCHANGED faults

\* Prepare: read_parquet expands its pattern, and fails when nothing matches.
ExportBind ==
    /\ ex.at = "bind" /\ ExportStep
    /\ \/ /\ IF ex.has /\ shards = {}
               THEN TryAgain
               ELSE ex' = [ex EXCEPT !.at = "read",
                                     !.glob = IF ex.has THEN Stamps ELSE {}]
          /\ UNCHANGED faults
       \/ TryAgain /\ Fault

\* Run: a shard pruned since then fails the query.
ExportRead ==
    /\ ex.at = "read" /\ ExportStep
    /\ \/ /\ IF ex.glob \subseteq Stamps
               THEN ex' = [ex EXCEPT !.at = "done",
                       !.got = RowsOn(wal, {s \in shards : s.stamp \in ex.glob})]
               ELSE TryAgain
          /\ UNCHANGED faults
       \/ TryAgain /\ Fault

-----------------------------------------------------------------------------
(* The world.                                                              *)

\* A shard's modification time falls behind the retention window.
Age ==
    /\ \E s \in shards :
          /\ ~s.aged
          /\ shards' = (shards \ {s}) \cup {[s EXCEPT !.aged = TRUE]}
          /\ old' = old \cup TurnsIn(s.rows)
    /\ UNCHANGED <<policyVars, chanVars, nextId, wal, partials, stamp, at, file, job,
                   ex, clock, faults, ts, lost, left, forgetVars>>

\* Mutant: the ids of a new process start at the last one of the table.
FirstIdNotPast == IF wal = {} THEN 0 ELSE CHOOSE n \in {r.id : r \in wal} :
                                             \A r \in wal : r.id <= n

\* Worker::open: past the ids of the rows left in the table.
FirstId == IF wal = {} THEN 1 ELSE 1 + CHOOSE n \in {r.id : r \in wal} :
                                             \A r \in wal : r.id <= n

\* The process dies and a new one opens the directory. The policy is off until
\* it is applied again.
Crash ==
    /\ clock <= MaxCrashes
    /\ clock' = clock + 1
    /\ lost' = lost \cup InFlight
    /\ queue' = <<>> /\ buf' = <<>> /\ dropped' = dropped
    /\ nextId' = FirstId
    /\ Return
    /\ enabled' = FALSE
    /\ ex' = IF ex.at \in {"asked", "list", "bind", "read"}
               THEN [NoExport EXCEPT !.at = "failed"] ELSE ex
    /\ UNCHANGED <<retains, diskVars, faults, ts, left, old, forgetVars>>

\* A stopped worker stays so.
Stopped == at = "stopped" /\ UNCHANGED vars

WorkerStep ==
    \/ \E t \in Turns : TakeRecord(t)
    \/ \E k \in Keys : TakeForget(k)
    \/ IdleTick \/ TakeFlush \/ TakeRotate \/ TakeExport \/ TakeShutdown
    \/ Copy \/ Seal \/ Delete \/ Prune
    \/ Erase \/ List \/ Rewrite \/ Replace \/ ForgetDone

ExportSteps == ExportList \/ ExportBind \/ ExportRead

Next ==
    \/ \E t \in Turns : Log(t)
    \/ \E k \in Keys : SendForget(k)
    \/ ApplyPolicy \/ SendControl \/ SendExport
    \/ WorkerStep \/ ExportSteps \/ Age \/ Crash \/ Stopped

Spec == Init /\ [][Next]_vars

\* The worker's thread and the export's are scheduled; nothing makes a caller
\* call or time pass.
FairSpec == Spec /\ WF_vars(WorkerStep) /\ WF_vars(ExportSteps)

-----------------------------------------------------------------------------
(* Properties.                                                             *)

\* Where a logged turn can be.
Whereabouts == <<InFlight, OnDisk, dropped, lost, left>>

\* Every turn handed to log while capture was on is in exactly one place: on
\* its way (queue or buffer), on the disk, counted as dropped, lost with a
\* crash or a failed flush, or gone from the disk again. No rotation, restart
\* or forgetting makes one vanish or be in flight twice.
Accounted ==
    /\ \A t \in Turns : ts[t] # 0 => \E i \in 1..5 : t \in Whereabouts[i]
    /\ \A i, j \in 1..5 : i # j => Whereabouts[i] \cap Whereabouts[j] = {}

\* What PARTITION BY compares tells turns apart, even after a restart gave an
\* id again and when callers reuse a request id, and it is the same for both
\* rows of a turn that a cut-off rotation left in the table and in a shard.
DedupKeyNamesTurn ==
    \A x, y \in RowsOn(wal, shards) : DedupKey(x) = DedupKey(y) <=> x.turn = y.turn

\* Once a Forget answered Ok, no turn captured before it was sent is in the
\* table, on its way there, or in a shard whose listing it was shown, through
\* every later rotation, restart and Forget (Msg::Forget, Worker::forget). A
\* shard the listing of that Forget did not show is left as it is, although the
\* answer is Ok: ErasedIsFoundNowhere, below, is refuted by it.
ErasedIsGone ==
    /\ erased \cap (TurnsIn(wal) \cup InFlight) = {}
    /\ \A s \in shards : \A t \in erased \cap TurnsIn(s.rows) :
          s.stamp \in missed[KeyOf[t]]

\* The retention of a shard counts from when it was sealed: no step makes a
\* shard younger ("given the shard's own modification time"), but the
\* replacement of one whose time could not be read when it was written again.
AgeIsKept ==
    [][\A s \in shards : \A x \in shards' :
          s.stamp = x.stamp /\ s.aged
             => \/ x.aged
                \/ at = "replace" /\ file = s.stamp /\ ~job.dated]_vars

\* A turn accepted by log leaves the queue and the buffer, whatever fails.
InFlightSettles == \A t \in Turns : t \in InFlight ~> t \notin InFlight

\* An export always ends.
ExportEnds == ex.at = "asked" ~> ex.at \in {"done", "failed"}

\* The disk is an archive: what is kept leaves it only with its key or its age,
\* and never comes back; rotation and restart change nothing of it.
ArchiveOf == INSTANCE Archive WITH kept <- OnDisk
ImplementsArchive == ArchiveOf!Spec

-----------------------------------------------------------------------------
(* What comments of the code claim and the model refutes.                  *)

\* lib.rs:328 export_turns returns "The captured turns the filter takes, from
\* the write-ahead table and every shard".
ExportIsComplete ==
    ex.at = "done" => ex.due \cap OnDisk \subseteq TurnsIn(ex.got)

\* yb-server capture.rs:152-153 "every captured turn made with these keys,
\* deleted from the request log, as when a person's data is erased".
ErasedFromEveryFile ==
    erased \cap UNION {TurnsIn(p.rows) : p \in partials} = {}

\* The same claim, of the shards: they are searched only when they can be listed.
ErasedIsFoundNowhere == erased \cap OnDisk = {}

\* lib.rs:704-705 "given the shard's own modification time so the retention
\* window still counts from when it was sealed": whenever it can be read.
NoShardGrowsYounger ==
    [][\A s \in shards : \A x \in shards' :
          s.stamp = x.stamp /\ s.aged => x.aged]_vars

\* yb-server capture.rs:153-154: a Forget "answers how many there were".
ForgetCountsTurns == answer.count = Cardinality(answer.held)
=============================================================================
