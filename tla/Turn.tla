-------------------------------- MODULE Turn --------------------------------
(***************************************************************************)
(* The life of an attempted turn in the gateway: dispatch over the         *)
(* candidates of a route with failover, the TurnGuard that records turns   *)
(* no upstream answered, RecordCtx::finish that records the others, and    *)
(* the translated stream with its own guard in Drop.                       *)
(*                                                                         *)
(* Code: yb-gateway/src/service.rs (chat), embed.rs, media.rs.             *)
(*                                                                         *)
(* A handler is a future: it runs without interruption between two awaits, *)
(* and a client that hangs up drops it at an await, wherever that is.      *)
(* Work given to tokio::spawn is not dropped.                              *)
(***************************************************************************)
EXTENDS Integers, Sequences

CONSTANTS
    Requests,      \* inbound calls
    Deployments,   \* upstream deployments
    KindOf,        \* the universe a deployment serves: KindOf[d] \in Kinds
    Routes,        \* candidate lists the router may return after filter_access
    HasTeam,       \* HasTeam[r]: the request's key belongs to a team
    BodyKinds,     \* bodies a 2xx to a streaming request may carry
    MaxTokens,     \* bound: tokens an upstream reports for one turn
    MaxRefusals    \* bound: store writes that fail in one behaviour

\* A media deployment stands for one that serves the request's own endpoint.
Kinds == {"chat", "embed", "media"}

ASSUME KindOfAssumption == KindOf \in [Deployments -> Kinds]
\* The router drops duplicate deployments (Router::collect).
ASSUME RoutesAssumption ==
    /\ Routes \subseteq Seq(Deployments)
    /\ \A c \in Routes : \A i, j \in 1..Len(c) : c[i] = c[j] => i = j
ASSUME HasTeamAssumption == HasTeam \in [Requests -> BOOLEAN]
ASSUME BodyKindsAssumption == BodyKinds \subseteq {"stream", "full"}
ASSUME BoundsAssumption == MaxTokens \in Nat /\ MaxRefusals \in Nat

(***************************************************************************)
(* Who runs a RecordCtx::finish: the handler or the body stream itself     *)
(* (inline, dropped with it), or the task StreamState::drop spawns.        *)
(***************************************************************************)
Writers == {"inline", "spawned"}

\* Where one finish writes, in the order of the code.
StoreSinks == {"telemetry", "key", "user", "team"}
Sinks == StoreSinks \cup {"observer", "log"}

\* "start": spawned but not yet polled. "off": not running.
Stages == StoreSinks \cup {"off", "start", "log"}

Locations == {"idle", "dispatch", "send", "resend", "errbody", "failing",
              "aggregate", "streaming", "recording", "done"}

Outcomes == {"none", "rejected", "answered", "error", "gone"}

VARIABLES
    pc,         \* where each request's handler, or its stream, is
    kind,       \* the surface it came in on
    wantStream, \* the client asked for a stream
    route,      \* the candidates dispatch goes through
    at,         \* the index in route of the current candidate
    asked,      \* asked[r][d]: times r was sent to d (history)
    armed,      \* TurnGuard.armed
    guardTask,  \* a TurnGuard record is being inserted by a spawned task
    guardRows,  \* telemetry rows written by the TurnGuard
    guardAs,    \* the status class the TurnGuard told the observer and files
    committed,  \* some upstream's answer was taken as the turn's own (history)
    errAs,      \* how the error answer being read will count
    usage,      \* tokens the upstream has reported so far
    unrecorded, \* a StreamState exists whose `recorded` is still false
    stage,      \* stage[r][w]: the next write of writer w
    note,       \* note[r][w]: what that writer writes
    book,       \* book[r][s]: rows of r's finishes in sink s
    spent,      \* spent[r][s]: tokens of r's finishes in sink s
    charged,    \* tokens charged to the key's token meter
    refused,    \* refused[r][s]: writes to s the store failed
    marks,      \* marks of r's telemetry rows written by finish
    outcome     \* what the client got (history)

vars == <<pc, kind, wantStream, route, at, asked, armed, guardTask, guardRows,
          guardAs, committed, errAs, usage, unrecorded, stage, note, book,
          spent, charged, refused, marks, outcome>>

\* Groups for UNCHANGED.
callVars   == <<kind, wantStream>>
routeVars  == <<route, at, asked, errAs>>
guardVars  == <<armed, guardTask, guardRows, guardAs>>
ledgerVars == <<book, spent, charged, refused, marks>>
finishVars == <<stage, note, ledgerVars>>

\* An answer outside 2xx fails over when is_retryable or is_model_not_found.
ErrorClasses == {"failover", "final"}

Note == [tokens : Nat, mark : {"ok", "error", "499"}]

TypeOK ==
    /\ pc \in [Requests -> Locations]
    /\ kind \in [Requests -> Kinds]
    /\ wantStream \in [Requests -> BOOLEAN]
    /\ route \in [Requests -> Seq(Deployments)]
    /\ at \in [Requests -> Nat \ {0}]
    /\ asked \in [Requests -> [Deployments -> Nat]]
    /\ armed \in [Requests -> BOOLEAN]
    /\ guardTask \in [Requests -> BOOLEAN]
    /\ guardRows \in [Requests -> Nat]
    /\ guardAs \in [Requests -> {"none", "status", "499"}]
    /\ committed \in [Requests -> BOOLEAN]
    /\ errAs \in [Requests -> ErrorClasses]
    /\ usage \in [Requests -> Nat]
    /\ unrecorded \in [Requests -> BOOLEAN]
    /\ stage \in [Requests -> [Writers -> Stages]]
    /\ note \in [Requests -> [Writers -> Note]]
    /\ book \in [Requests -> [Sinks -> Nat]]
    /\ spent \in [Requests -> [Sinks -> Nat]]
    /\ charged \in [Requests -> Nat]
    /\ refused \in [Requests -> [Sinks -> Nat]]
    /\ marks \in [Requests -> SUBSET {"ok", "error", "499"}]
    /\ outcome \in [Requests -> Outcomes]

Init ==
    /\ pc = [r \in Requests |-> "idle"]
    /\ kind = [r \in Requests |-> "chat"]
    /\ wantStream = [r \in Requests |-> FALSE]
    /\ route = [r \in Requests |-> <<>>]
    /\ at = [r \in Requests |-> 1]
    /\ asked = [r \in Requests |-> [d \in Deployments |-> 0]]
    /\ armed = [r \in Requests |-> FALSE]
    /\ guardTask = [r \in Requests |-> FALSE]
    /\ guardRows = [r \in Requests |-> 0]
    /\ guardAs = [r \in Requests |-> "none"]
    /\ committed = [r \in Requests |-> FALSE]
    /\ errAs = [r \in Requests |-> "final"]
    /\ usage = [r \in Requests |-> 0]
    /\ unrecorded = [r \in Requests |-> FALSE]
    /\ stage = [r \in Requests |-> [w \in Writers |-> "off"]]
    /\ note = [r \in Requests |->
                  [w \in Writers |-> [tokens |-> 0, mark |-> "ok"]]]
    /\ book = [r \in Requests |-> [s \in Sinks |-> 0]]
    /\ spent = [r \in Requests |-> [s \in Sinks |-> 0]]
    /\ charged = [r \in Requests |-> 0]
    /\ refused = [r \in Requests |-> [s \in Sinks |-> 0]]
    /\ marks = [r \in Requests |-> {}]
    /\ outcome = [r \in Requests |-> "none"]

-----------------------------------------------------------------------------
(* The TurnGuard.                                                          *)

\* The handler's future goes away, by return or by being dropped: an armed
\* guard tells the observer of a 499 and hands its row to the runtime.
DropGuard(r) ==
    /\ armed' = [armed EXCEPT ![r] = FALSE]
    /\ guardTask' = [guardTask EXCEPT ![r] = @ \/ armed[r]]
    /\ guardAs' = [guardAs EXCEPT ![r] = IF armed[r] THEN "499" ELSE @]
    /\ UNCHANGED guardRows

\* Mutant: the guard stays armed past a committed answer.
DisarmForgotten(r) == UNCHANGED <<armed, guardTask, guardRows, guardAs>>

\* TurnGuard::disarm: a committed answer takes over.
Disarm(r) ==
    /\ armed' = [armed EXCEPT ![r] = FALSE]
    /\ UNCHANGED <<guardTask, guardRows, guardAs>>

\* TurnGuard::fail disarms, tells the observer, then awaits its insert.
BeginFail(r) ==
    /\ armed' = [armed EXCEPT ![r] = FALSE]
    /\ guardAs' = [guardAs EXCEPT ![r] = "status"]
    /\ pc' = [pc EXCEPT ![r] = "failing"]
    /\ UNCHANGED <<guardTask, guardRows>>

\* One insert_telemetry of a guard row: it lands, or fails and is only logged.
InsertGuardRow(r) ==
    \/ /\ guardRows' = [guardRows EXCEPT ![r] = @ + 1]
       /\ UNCHANGED refused
    \/ /\ refused[r]["telemetry"] < MaxRefusals
       /\ refused' = [refused EXCEPT ![r]["telemetry"] = @ + 1]
       /\ UNCHANGED guardRows

FailInsert(r) ==
    /\ pc[r] = "failing"
    /\ InsertGuardRow(r)
    /\ pc' = [pc EXCEPT ![r] = "done"]
    /\ outcome' = [outcome EXCEPT ![r] = "error"]
    /\ UNCHANGED <<callVars, routeVars, armed, guardTask, guardAs, committed,
                   usage, unrecorded, stage, note, book, spent, charged, marks>>

\* The task spawned by TurnGuard::drop.
GuardTaskInsert(r) ==
    /\ guardTask[r]
    /\ InsertGuardRow(r)
    /\ guardTask' = [guardTask EXCEPT ![r] = FALSE]
    /\ UNCHANGED <<pc, callVars, routeVars, armed, guardAs, committed, usage,
                   unrecorded, stage, note, book, spent, charged, marks,
                   outcome>>

-----------------------------------------------------------------------------
(* RecordCtx::finish.                                                      *)

\* What runs before the first await: the meter is charged and the observer
\* told.
FinishStart(r, w, tokens, mark) ==
    /\ stage' = [stage EXCEPT ![r][w] = "telemetry"]
    /\ note' = [note EXCEPT ![r][w] = [tokens |-> tokens, mark |-> mark]]
    /\ charged' = [charged EXCEPT ![r] = @ + tokens]
    /\ book' = [book EXCEPT ![r]["observer"] = @ + 1]
    /\ spent' = [spent EXCEPT ![r]["observer"] = @ + tokens]
    /\ UNCHANGED <<refused, marks>>

\* Mutant: the team's rollup is left out.
AfterSinkNoTeam(r, s) ==
    CASE s = "telemetry" -> "key"
      [] s = "key"       -> "user"
      [] OTHER           -> "log"

\* The stage after a store write: telemetry, then a rollup per subject, then
\* the request log.
AfterSink(r, s) ==
    CASE s = "telemetry" -> "key"
      [] s = "key"       -> "user"
      [] s = "user"      -> IF HasTeam[r] THEN "team" ELSE "log"
      [] OTHER           -> "log"

\* insert_telemetry or upsert_rollup: a failure is logged and the finish
\* goes on.
FinishWrite(r, w) ==
    LET s == stage[r][w]
        n == note[r][w]
    IN  /\ s \in StoreSinks
        /\ \/ /\ book' = [book EXCEPT ![r][s] = @ + 1]
              /\ spent' = [spent EXCEPT ![r][s] = @ + n.tokens]
              /\ marks' = [marks EXCEPT ![r] =
                              IF s = "telemetry" THEN @ \cup {n.mark} ELSE @]
              /\ UNCHANGED refused
           \/ /\ refused[r][s] < MaxRefusals
              /\ refused' = [refused EXCEPT ![r][s] = @ + 1]
              /\ UNCHANGED <<book, spent, marks>>
        /\ stage' = [stage EXCEPT ![r][w] = AfterSink(r, s)]
        /\ UNCHANGED <<pc, callVars, routeVars, guardVars, committed, usage,
                       unrecorded, note, charged, outcome>>

\* Mutant: a streamed turn is recorded without setting `done` and `recorded`.
FinishLogGoesOn(r, w) ==
    /\ stage[r][w] = "log"
    /\ stage' = [stage EXCEPT ![r][w] = "off"]
    /\ book' = [book EXCEPT ![r]["log"] = @ + 1]
    /\ spent' = [spent EXCEPT ![r]["log"] = @ + note[r][w].tokens]
    /\ IF w = "inline"
         THEN /\ pc' = [pc EXCEPT ![r] =
                    IF unrecorded[r] THEN "streaming" ELSE "done"]
              /\ outcome' = [outcome EXCEPT ![r] =
                    IF note[r][w].mark = "ok" THEN "answered" ELSE "error"]
              /\ UNCHANGED unrecorded
              /\ DropGuard(r)
         ELSE UNCHANGED <<pc, outcome, unrecorded, guardVars>>
    /\ UNCHANGED <<callVars, routeVars, committed, usage, note, charged,
                   refused, marks>>

\* logger.log, which never waits; an inline finish then returns to the
\* handler or the stream, which is over: `recorded` and `done` are set.
FinishLog(r, w) ==
    /\ stage[r][w] = "log"
    /\ stage' = [stage EXCEPT ![r][w] = "off"]
    /\ book' = [book EXCEPT ![r]["log"] = @ + 1]
    /\ spent' = [spent EXCEPT ![r]["log"] = @ + note[r][w].tokens]
    /\ IF w = "inline"
         THEN /\ pc' = [pc EXCEPT ![r] = "done"]
              /\ outcome' = [outcome EXCEPT ![r] =
                    IF note[r][w].mark = "ok" THEN "answered" ELSE "error"]
              /\ unrecorded' = [unrecorded EXCEPT ![r] = FALSE]
              /\ DropGuard(r)
         ELSE UNCHANGED <<pc, outcome, unrecorded, guardVars>>
    /\ UNCHANGED <<callVars, routeVars, committed, usage, note, charged,
                   refused, marks>>

\* First poll of the task spawned by StreamState::drop.
SpawnedStart(r) ==
    /\ stage[r]["spawned"] = "start"
    /\ FinishStart(r, "spawned", usage[r], "499")
    /\ UNCHANGED <<pc, callVars, routeVars, guardVars, committed, usage,
                   unrecorded, outcome>>

-----------------------------------------------------------------------------
(* The handler up to a committed answer.                                   *)

\* A body that does not parse is answered before it counts as a turn.
Reject(r) ==
    /\ pc[r] = "idle"
    /\ pc' = [pc EXCEPT ![r] = "done"]
    /\ outcome' = [outcome EXCEPT ![r] = "rejected"]
    /\ UNCHANGED <<callVars, routeVars, guardVars, committed, usage,
                   unrecorded, finishVars>>

\* Parse, arm the guard, resolve, filter_access. Only chat streams.
Start(r) ==
    /\ pc[r] = "idle"
    /\ \E k \in Kinds, s \in BOOLEAN :
          /\ s => k = "chat"
          /\ kind' = [kind EXCEPT ![r] = k]
          /\ wantStream' = [wantStream EXCEPT ![r] = s]
    /\ \E c \in Routes : route' = [route EXCEPT ![r] = c]
    /\ armed' = [armed EXCEPT ![r] = TRUE]
    /\ pc' = [pc EXCEPT ![r] = "dispatch"]
    /\ UNCHANGED <<at, asked, errAs, guardTask, guardRows, guardAs, committed,
                   usage, unrecorded, finishVars, outcome>>

HasCandidate(r) == at[r] <= Len(route[r])
Candidate(r) == route[r][at[r]]

\* Mutant: `continue` without moving to the next candidate.
SkipStays(r) ==
    /\ pc[r] = "dispatch"
    /\ HasCandidate(r)
    /\ KindOf[Candidate(r)] # kind[r]
    /\ UNCHANGED vars

\* A candidate of another universe is passed over.
Skip(r) ==
    /\ pc[r] = "dispatch"
    /\ HasCandidate(r)
    /\ KindOf[Candidate(r)] # kind[r]
    /\ at' = [at EXCEPT ![r] = @ + 1]
    /\ UNCHANGED <<pc, callVars, route, asked, errAs, guardVars, committed, usage,
                   unrecorded, finishVars, outcome>>

\* No candidate is left: none was eligible, or each one failed.
Exhausted(r) ==
    /\ pc[r] = "dispatch"
    /\ ~HasCandidate(r)
    /\ BeginFail(r)
    /\ UNCHANGED <<callVars, routeVars, committed, usage, unrecorded,
                   finishVars, outcome>>

\* The request cannot be written in the candidate's dialect: no failover.
EmitError(r) ==
    /\ pc[r] = "dispatch"
    /\ HasCandidate(r)
    /\ KindOf[Candidate(r)] = kind[r]
    /\ BeginFail(r)
    /\ UNCHANGED <<callVars, routeVars, committed, usage, unrecorded,
                   finishVars, outcome>>

Ask(r, loc) ==
    /\ asked' = [asked EXCEPT ![r][Candidate(r)] = @ + 1]
    /\ pc' = [pc EXCEPT ![r] = loc]
    /\ UNCHANGED <<route, at>>

Send(r) ==
    /\ pc[r] = "dispatch"
    /\ HasCandidate(r)
    /\ KindOf[Candidate(r)] = kind[r]
    /\ Ask(r, "send")
    /\ UNCHANGED <<callVars, errAs, guardVars, committed, usage, unrecorded,
                   finishVars, outcome>>

\* Mutants: an index that starts over at zero, and one that skips a candidate.
NextCandidateZero(r) ==
    /\ at' = [at EXCEPT ![r] = 0]
    /\ pc' = [pc EXCEPT ![r] = "dispatch"]
    /\ UNCHANGED <<route, asked>>

NextCandidateSkips(r) ==
    /\ at' = [at EXCEPT ![r] = @ + 2]
    /\ pc' = [pc EXCEPT ![r] = "dispatch"]
    /\ UNCHANGED <<route, asked>>

\* Give this candidate up and go on with the next one.
NextCandidate(r) ==
    /\ at' = [at EXCEPT ![r] = @ + 1]
    /\ pc' = [pc EXCEPT ![r] = "dispatch"]
    /\ UNCHANGED <<route, asked>>

\* A transport failure. An embedding whose connection was lost is sent to the
\* same deployment once more.
SendFails(r) ==
    /\ pc[r] \in {"send", "resend"}
    /\ \/ kind[r] = "embed" /\ pc[r] = "send" /\ Ask(r, "resend")
       \/ NextCandidate(r)
    /\ UNCHANGED <<callVars, errAs, guardVars, committed, usage, unrecorded,
                   finishVars, outcome>>

\* Mutant: a final answer is recorded, and the loop continues.
ErrorReadContinues(r, class) ==
    /\ NextCandidate(r)
    /\ IF class = "final"
         THEN /\ Disarm(r)
              /\ committed' = [committed EXCEPT ![r] = TRUE]
              /\ FinishStart(r, "inline", 0, "error")
         ELSE UNCHANGED <<guardVars, committed, finishVars>>

\* What an answer outside 2xx means once its body was read: a retryable status
\* or a 404 fails over, any other one is the turn's answer.
ErrorRead(r, class) ==
    IF class = "final"
      THEN /\ Disarm(r)
           /\ committed' = [committed EXCEPT ![r] = TRUE]
           /\ FinishStart(r, "inline", 0, "error")
           /\ pc' = [pc EXCEPT ![r] = "recording"]
           /\ UNCHANGED <<route, at, asked>>
      ELSE /\ NextCandidate(r)
           /\ UNCHANGED <<guardVars, committed, finishVars>>

\* An embed or media answer is already buffered; a chat error body is drained
\* from the stream first.
AnswerError(r) ==
    /\ pc[r] \in {"send", "resend"}
    /\ \E c \in ErrorClasses :
          IF kind[r] = "chat"
            THEN /\ pc' = [pc EXCEPT ![r] = "errbody"]
                 /\ errAs' = [errAs EXCEPT ![r] = c]
                 /\ UNCHANGED <<route, at, asked, guardVars, committed, finishVars>>
            ELSE ErrorRead(r, c) /\ UNCHANGED errAs
    /\ UNCHANGED <<callVars, usage, unrecorded, outcome>>

ErrBodyRead(r) ==
    /\ pc[r] = "errbody"
    /\ ErrorRead(r, errAs[r])
    /\ UNCHANGED <<callVars, errAs, usage, unrecorded, outcome>>

-----------------------------------------------------------------------------
(* A committed 2xx answer.                                                 *)

Commit(r) ==
    /\ Disarm(r)
    /\ committed' = [committed EXCEPT ![r] = TRUE]

\* The usual chat answer, an SSE body: folded into one response for a client
\* that did not ask for a stream, else handed over as a StreamState.
AnswerStream(r) ==
    /\ pc[r] = "send"
    /\ kind[r] = "chat"
    /\ "stream" \in BodyKinds
    /\ Commit(r)
    /\ pc' = [pc EXCEPT ![r] =
                 IF wantStream[r] THEN "streaming" ELSE "aggregate"]
    /\ unrecorded' = [unrecorded EXCEPT ![r] = wantStream[r]]
    /\ UNCHANGED <<callVars, routeVars, usage, finishVars, outcome>>

\* A chat answer the client handed over whole. One that does not parse is
\* returned as an error by `?`, after the guard was disarmed.
AnswerFull(r) ==
    /\ pc[r] = "send"
    /\ kind[r] = "chat"
    /\ "full" \in BodyKinds
    /\ Commit(r)
    /\ \/ /\ \E u \in 0..MaxTokens : FinishStart(r, "inline", u, "ok")
          /\ pc' = [pc EXCEPT ![r] = "recording"]
          /\ UNCHANGED outcome
       \/ /\ pc' = [pc EXCEPT ![r] = "done"]
          /\ outcome' = [outcome EXCEPT ![r] = "error"]
          /\ UNCHANGED finishVars
    /\ UNCHANGED <<callVars, routeVars, usage, unrecorded>>

\* An embed answer is parsed before the guard is disarmed.
AnswerEmbed(r) ==
    /\ pc[r] \in {"send", "resend"}
    /\ kind[r] = "embed"
    /\ \/ /\ Commit(r)
          /\ \E u \in 0..MaxTokens : FinishStart(r, "inline", u, "ok")
          /\ pc' = [pc EXCEPT ![r] = "recording"]
          /\ UNCHANGED outcome
       \/ /\ DropGuard(r)
          /\ pc' = [pc EXCEPT ![r] = "done"]
          /\ outcome' = [outcome EXCEPT ![r] = "error"]
          /\ UNCHANGED <<committed, finishVars>>
    /\ UNCHANGED <<callVars, routeVars, usage, unrecorded>>

\* A media answer is forwarded unread and reports no tokens.
AnswerMedia(r) ==
    /\ pc[r] = "send"
    /\ kind[r] = "media"
    /\ Commit(r)
    /\ FinishStart(r, "inline", 0, "ok")
    /\ pc' = [pc EXCEPT ![r] = "recording"]
    /\ UNCHANGED <<callVars, routeVars, usage, unrecorded, outcome>>

-----------------------------------------------------------------------------
(* Reading an SSE answer: aggregate_stream and the unfold of               *)
(* translate_stream.                                                       *)

Reading(r) == pc[r] \in {"aggregate", "streaming"}

\* A chunk whose usage delta raises the running total (field-wise max).
Chunk(r) ==
    /\ Reading(r)
    /\ \E u \in (usage[r] + 1)..MaxTokens :
          usage' = [usage EXCEPT ![r] = u]
    /\ UNCHANGED <<pc, callVars, routeVars, guardVars, committed, unrecorded,
                   finishVars, outcome>>

\* The upstream closes, or the bytes that end the client's answer go out.
StreamEnd(r) ==
    /\ Reading(r)
    /\ FinishStart(r, "inline", usage[r], "ok")
    /\ pc' = [pc EXCEPT ![r] = "recording"]
    /\ UNCHANGED <<callVars, routeVars, guardVars, committed, usage,
                   unrecorded, outcome>>

\* The body breaks, or is silent for UPSTREAM_IDLE_TIMEOUT. An aggregated turn
\* is then recorded with no usage, a streamed one with what it had reported.
StreamBreak(r) ==
    /\ Reading(r)
    /\ FinishStart(r, "inline", IF pc[r] = "streaming" THEN usage[r] ELSE 0,
                   "error")
    /\ pc' = [pc EXCEPT ![r] = "recording"]
    /\ UNCHANGED <<callVars, routeVars, guardVars, committed, usage,
                   unrecorded, outcome>>

-----------------------------------------------------------------------------
(* The client hangs up.                                                    *)

\* Where a handler or a stream waits, and can be dropped.
Awaits == {"send", "resend", "errbody", "failing", "aggregate", "streaming",
           "recording"}

\* StreamState::drop spawns a finish unless `recorded` was set.
DropStream(r) ==
    /\ stage' = [stage EXCEPT ![r] =
          [inline  |-> "off",
           spawned |-> IF unrecorded[r] THEN "start" ELSE @["spawned"]]]
    /\ unrecorded' = [unrecorded EXCEPT ![r] = FALSE]

\* The future is dropped with everything it was running inline.
Hangup(r) ==
    /\ pc[r] \in Awaits
    /\ DropGuard(r)
    /\ DropStream(r)
    /\ pc' = [pc EXCEPT ![r] = "done"]
    /\ outcome' = [outcome EXCEPT ![r] = "gone"]
    /\ UNCHANGED <<callVars, routeVars, committed, usage, note, ledgerVars>>

-----------------------------------------------------------------------------
\* No future and no task is left that works for r.
Quiet(r) ==
    /\ pc[r] = "done"
    /\ ~guardTask[r]
    /\ \A w \in Writers : stage[r][w] = "off"

\* Every call was served: the workload is over.
Served == (\A r \in Requests : Quiet(r)) /\ UNCHANGED vars

\* Steps the gateway and its store take by themselves.
GatewayStep(r) ==
    \/ Skip(r) \/ Exhausted(r) \/ EmitError(r) \/ Send(r)
    \/ FailInsert(r) \/ GuardTaskInsert(r) \/ SpawnedStart(r)
    \/ \E w \in Writers : FinishWrite(r, w) \/ FinishLog(r, w)

\* The outcome of a send: the upstream's headers, or a transport failure.
SendReturns(r) ==
    \/ SendFails(r) \/ AnswerError(r) \/ AnswerStream(r) \/ AnswerFull(r)
    \/ AnswerEmbed(r) \/ AnswerMedia(r)

Step(r) ==
    \/ Reject(r) \/ Start(r) \/ GatewayStep(r) \/ SendReturns(r)
    \/ ErrBodyRead(r) \/ Chunk(r) \/ StreamEnd(r) \/ StreamBreak(r)
    \/ Hangup(r)

Next == (\E r \in Requests : Step(r)) \/ Served

Spec == Init /\ [][Next]_vars

-----------------------------------------------------------------------------
(* Fairness. The gateway's own steps and its store's answers always come.  *)
(* A stream is finite or falls silent, which next_or_stall turns into a    *)
(* break. That an upstream answers a send, and sends an error body to its  *)
(* end, is an assumption about the upstream: nothing in the code times     *)
(* them out.                                                               *)

GatewayFairness ==
    \A r \in Requests :
       /\ WF_vars(GatewayStep(r))
       /\ WF_vars(StreamEnd(r) \/ StreamBreak(r))

FairSpec ==
    /\ Spec
    /\ GatewayFairness
    /\ \A r \in Requests : WF_vars(SendReturns(r)) /\ WF_vars(ErrBodyRead(r))

\* The upstream answers, but may fall silent in the middle of any body.
SilentBodySpec ==
    /\ Spec
    /\ GatewayFairness
    /\ \A r \in Requests : WF_vars(SendReturns(r))

-----------------------------------------------------------------------------
(* Properties.                                                             *)

\* A turn has one author. The TurnGuard files at most one row, and once it has
\* filed or is filing one, RecordCtx::finish never runs for the turn: no token
\* is charged, no rollup counts it (service.rs TurnGuard, `disarm`).
OneAuthor ==
    \A r \in Requests :
       /\ guardRows[r] + (IF guardTask[r] THEN 1 ELSE 0) <= 1
       /\ guardRows[r] > 0 \/ guardTask[r] =>
             /\ \A s \in Sinks : book[r][s] = 0
             /\ \A w \in Writers : stage[r][w] = "off"
             /\ charged[r] = 0

\* The sinks a finish of r writes to.
SinksOf(r) == IF HasTeam[r] THEN Sinks ELSE Sinks \ {"team"}

\* A client that stayed to the end of its answer is accounted for exactly once:
\* one telemetry row, one rollup per subject, one log record and one observer
\* call, all for the tokens its meter was charged, whatever failed before and
\* except for a write the store refused (RecordCtx::finish and its callers).
AnsweredIsFiledOnce ==
    \A r \in Requests : outcome[r] = "answered" =>
       /\ \A s \in SinksOf(r) : book[r][s] + refused[r][s] = 1
       /\ \A s \in SinksOf(r) :
             spent[r][s] = IF book[r][s] = 1 THEN charged[r] ELSE 0
       /\ marks[r] \subseteq {"ok"}
       /\ guardRows[r] = 0

\* A turn is filed by finish twice only if it was streamed and its client hung
\* up, and never three times; the second filing is the 499 of StreamState::drop.
FiledTwiceOnlyOnHangup ==
    \A r \in Requests :
       /\ book[r]["telemetry"] <= 2
       /\ book[r]["telemetry"] = 2 =>
             outcome[r] = "gone" /\ wantStream[r] /\ "499" \in marks[r]

\* Failover goes through the route in order: each candidate of the turn's
\* universe before the current one was asked, none after it, and none is asked
\* twice but an embedding's, once more (the dispatch loops of handle,
\* handle_embed and handle_media).
AskedInOrder ==
    \A r \in Requests : \A i \in 1..Len(route[r]) :
       LET d == route[r][i] IN
       /\ KindOf[d] # kind[r] \/ i > at[r] => asked[r][d] = 0
       /\ KindOf[d] = kind[r] /\ i < at[r] => asked[r][d] >= 1
       /\ asked[r][d] <= (IF kind[r] = "embed" THEN 2 ELSE 1)

\* No upstream is asked once an answer was committed to, or the client left:
\* the turn cannot run twice upstream (comment "we cannot fail over now").
NoAskAfterCommit ==
    [][\A r \in Requests :
          committed[r] \/ outcome[r] # "none" => asked'[r] = asked[r]]_vars

\* Every turn that starts ends, and all it spawned ends too (fairness above).
EveryTurnEnds ==
    \A r \in Requests : pc[r] = "dispatch" ~> Quiet(r)

-----------------------------------------------------------------------------
(* What comments of the code claim and the model refutes.                  *)

\* service.rs:1181 "Set once telemetry has been recorded (exactly once)." and
\* 1237 "telemetry / rollup / reqlog are written exactly once".
StreamFiledAtMostOnce ==
    \A r \in Requests : wantStream[r] => book[r]["telemetry"] <= 1

\* service.rs:409-411: the guard makes sure the turn "is recorded even when no
\* upstream response ever commits (routing failure, every candidate failing, or
\* the client hanging up)".
UncommittedIsFiled ==
    \A r \in Requests :
       Quiet(r) /\ outcome[r] # "rejected" /\ ~committed[r]
          => guardRows[r] + refused[r]["telemetry"] = 1

\* service.rs:48-49: the guard is "Disarmed once a committed response takes over
\* (RecordCtx handles it, or the stream's own guards do)".
CommittedIsFiled ==
    \A r \in Requests :
       Quiet(r) /\ committed[r]
          => book[r]["telemetry"] + refused[r]["telemetry"] >= 1

\* service.rs:45-46: a 499 row means "the client disconnected during dispatch".
GuardFiles499OnlyOnHangup ==
    \A r \in Requests : guardAs[r] = "499" => outcome[r] = "gone"

\* service.rs:1021-1023: a silent upstream is "treated as a transport failure
\* [...] instead of hanging forever on a stalled upstream".
SilenceEndsTheTurn ==
    \A r \in Requests : pc[r] = "errbody" ~> pc[r] # "errbody"
=============================================================================
