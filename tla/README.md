# SovereignGateway in TLA+

SovereignGateway is an LLM gateway written in Rust (`src/crates/`): it takes chat, embedding and media
calls in the dialects of several vendors, admits them against a virtual key's limits and budgets, routes
them to upstream deployments with failover, translates the answer back, and keeps the books: telemetry,
spend, a captured request log.

This directory models the parts of it in which several things happen at once, and the translations of
requests and answers between dialects. Each module is a translation of the code it names; the configurations check it with TLC on small instances, and
the `...Proofs` modules prove the central properties of the turn, the request log, the admission, the
catalog, the accounts, the router, the embeddings and the relayed answers with TLAPS, for every value of the
constants.
`PROJECT.json` says which lines each definition stands for.

    tlc -config MCTurn.cfg MCTurn        # a run: the table below names module and configuration
    tlapm TurnProofs.tla                 # the proofs about Turn, and so for the others: section 6

## 1. The system

| Part | Code | State | Operations | Module |
|---|---|---|---|---|
| Turn | `yb-gateway/src/{service,embed,media}.rs` | a future per call, `TurnGuard`, `RecordCtx`, `StreamState` | dispatch over candidates, failover, aggregate or translate a stream, record | `Turn` |
| Request log | `yb-reqlog/src/lib.rs` | bounded channel, `Worker` (buffer, ids), DuckDB table, parquet shards, policy | log, flush, rotate, prune, forget, export, shutdown, open | `Reqlog` |
| Admission | `yb-core/src/ratelimit.rs`, `yb-server/src/lib.rs` (`run_call`, `enforce_budgets`) | buckets and in-flight count per key; limits, budgets, spend rollups in the store | check, tpm_exhausted, charge_tokens, guard drop, enforce_budgets, rollup | `Admission` |
| Catalog | `yb-server/src/{admin,state}.rs`, `yb-store/src/sqlite.rs`, `yb-gateway/src/router.rs` (`Snapshot`) | models, aliases, providers, deployments; the installed routing table | create, rename, delete, alias; `reload_models`; `canonical` | `Catalog` |
| Answers | `yb-wire/src/{ir,openai_chat,openai_responses,anthropic,gemini}.rs`, `yb-gateway/src/service.rs` (`translate_stream`, `aggregate_stream`), `yb-core/src/catalog.rs` (`cost_micros`) | line buffer, decoder, encoder, aggregator, usage of a stream | decode, encode, aggregate, fold usage, record | `ChatIR`, `Decoders`, `Encoders`, `Relay` |
| Requests | the same codecs (`parse_request`, `emit_request`, `parse_response`) | the client's history | write, parse, emit, answer | `Requests`, `Conversation` |
| Embeddings | `yb-wire/src/embed/`, `yb-gateway/src/{embed,wire}.rs` | none | parse and emit in five dialects, walk through the candidates | `Embeddings` |
| Router and access | `yb-gateway/src/router.rs`, `yb-core/src/{model,routing}.rs`, `yb-server/src/lib.rs` (`effective_access`, discovery) | strategy counters | merge of grants, resolve (filter, order, fallbacks), `filter_access`, list | `Routing` |
| Accounts | `yb-server/src/{admin,sso}.rs`, `yb-core/src/rbac.rs`, `yb-store/src/{sqlite,keys}.rs`, `yb-bin/src/main.rs` (setup, set-role, start) | users, roles, sessions, keys, the control token | log in, sign on, invite, create, set role, delete, password, keys, start | `Accounts`, `Identity` |
| Settings | `yb-server/src/{capture,logging}.rs` | stored against applied policy and log level | get, put | left out (section 8); applying a policy is in `Reqlog` |
| Health | `yb-gateway/src/health.rs` | none | probe a deployment on request | left out |
| Spend periods | `yb-core/src/spend.rs` | none | `bucket_start` | left out |
| Telemetry | `yb-otel/src/` | metric registry, exporter thread | observe, export | left out |
| Store | `yb-store/src/` | SQL tables | statements, migrations, hashing, encryption | its statements are steps of the modules that use them |
| Upstream client, redaction, configuration, console | `yb-providers`, `yb-redact`, `yb-bin`, `frontend` | | I/O, text scanning, start-up, presentation | left out |

How they meet. An axum handler is one future per call. `run_call` verifies the key, asks the `Limiter`
(a mutex over all keys), reads the budgets from the store, and hands the call with a `TokenMeter` to the
gateway, which resolves the name in the installed routing table and dispatches. Whatever ends the turn
calls `RecordCtx::finish`: it charges the meter, tells the observer, writes telemetry and one rollup per
subject, and passes a record to the request log's channel. Operators change the catalog through handlers
that write to the store and then reload the routing table. A chat request is parsed from the client's
dialect into one intermediate form (`ir.rs`), emitted in the upstream's for each candidate, and its answer
comes back the same way, event by event when it is streamed. Shared state is the store, the limiter, the
routing table behind its lock, and the request log's channel and files.

What is hard in it:

* **A client that hangs up drops the handler's future at whatever await it has reached.** Everything run
  inline goes with it, everything in `tokio::spawn` does not, and the two `Drop` implementations
  (`TurnGuard`, `StreamState`) decide who keeps the books. That one mechanism is behind four of the
  findings.
* Check, then act, over separate store statements: budgets, names, providers, roles.
* Two threads over the same files: the worker rotates and prunes while an export reads.
* A crash between two file operations of a rotation or of a forgetting.
* Read the clock, then take the lock.
* A stream is translated while it is read: what the client was told, what is recorded and what is billed
  depend on where a chunk ends, and on what an encoder holds back or an upstream says last.
* Sixteen pairs of chat dialects, each with rules of its own for instructions, calls and results; a history
  outlives the upstream that made it.
* A credential is found in one statement and its account read in another.
* Failover must not run a turn twice, and must not skip a candidate.

## 2. What makes it correct

* Turn: one author per turn; an answered turn is filed exactly once, everywhere, for the same tokens;
  upstreams are asked in the order of the route, each at most once (an embedding twice on a lost
  connection), none after an answer was committed to; every turn ends.
* Request log: a captured turn is never silently lost or doubled, nor found again in what a Forget has searched;
  rotation and restart change nothing a reader sees; a shard whose time can be read does not grow younger.
* Admission: slots are neither leaked nor returned twice; the cap holds; a spent budget refuses; the lazy
  buckets are, but for what is left of a millisecond at each look, what an eager bucket would be.
* Catalog: the table is the store's; a name is a model's or an alias's; a name never reaches a model that
  did not bear it; a rename loses no name; a provider that is deleted
  takes no deployment with it that was there when it was looked at.
* Answers: frames open and close in turn and are numbered; a client that sees an end has the whole answer;
  the log is what the client was sent; what the gateway waited to be told is what it bills.
* Requests: nothing said or called is lost, leaks into another role or changes its order, nor are the words of a result, but for
  one marked for caching; instructions and settings
  reach every upstream that knows them; a result follows its call by the upstream's rules.
* Embeddings: each vector is of the input at its place, made as the client asked, encoded as it asked.
* Router and access: the grants of key and team decide alone; discovery and routing agree; strategies spread
  the load evenly.
* Accounts: nobody acts with an authority that had ended before the request came in; an administrator
  remains; after a start the control key is the token that was given, and no other.

## 3. The modules and the code

**Turn.** One record of state per request: `pc` names the await the handler or its stream is at; between
two awaits the code runs without interruption and is one action. `Start` is parsing, arming the guard,
`resolve` and `filter_access`; the routes are a constant, duplicate-free as `Router::collect` makes them.
`Skip`, `EmitError`, `Send`, `SendFails`, `AnswerError`, `ErrBodyRead` are the dispatch loops of `handle`,
`handle_embed` and `handle_media`, told apart by `kind`. `AnswerStream`, `AnswerFull`, `AnswerEmbed` and
`AnswerMedia` commit; they differ in when the guard is disarmed relative to parsing, as the code does.
`Chunk`, `StreamEnd`, `StreamBreak` are `aggregate_stream` and the unfold of `translate_stream`.
`FinishStart`, `FinishWrite`, `FinishLog` are `RecordCtx::finish` up to its first await and then one step
per write; it runs inline or in the task that `StreamState::drop` spawns (`SpawnedStart`), and each keeps its
own `stage`. `Hangup` drops the future at any await. A store write may fail (`refused`), which the code
logs and passes over. `guardAs` is the status the guard gives the observer.
Data: bodies, names and statuses are classes (does it fail over or not); tokens are numbers; one media
deployment kind stands for those that serve the request's own endpoint.

**Reqlog** and **Archive.** The channel is a sequence, the worker's place `at` is the statement of `rotate`
or `forget` it is at; a flush is one DuckDB transaction and one step, every file operation is its own. A
record is its turn; a row is its id and turn; `DedupKey` is what `PARTITION BY` compares, with the time
and a request id callers may repeat. `Crash` loses the channel, the buffer and the locals and opens the
directory again (`Worker::open`, `FirstId`). Disk operations may fail (`Fault`). `Age` lets a shard's
modification time pass the retention window. `Archive` is the promise: turns are kept, and leave only with
their key or their age, never to return; `ImplementsArchive` is refinement under `kept <- OnDisk`.

**Admission** and **TokenBucket.** `Verify` to `Forward` are `run_call`; each `Limiter` method holds the
lock and is one step, each store query is one step, and `at` is the time read before the lock. A bucket
counts `Window`-ths of a token, so that the refill of a tick is whole; `Elapsed` cuts the time since the last
look down to whole milliseconds (`Grain` ticks), as `Bucket::refill` does before it sets `last` to now. `Release` is
`ConcurrencyGuard::drop`, with its clamp at zero. A finished turn charges the meter before its first await (`Finish`) and
then adds to the rollups one by one, any of which may fail: in the handler (`filing`), in the body of a stream
that ends (`closing`), or in the task `StreamState::drop` spawned (`detached`). `Hangup` drops the handler at any of
its awaits, also of its own record, and `HangupStream` a stream's body, also while its record is being filed, which
charges a second time. `TokenBucket` is the eager bucket: full at first, refilled at every tick, in debt if charged;
`ImplementsBuckets` relates both of a key's buckets to it, step by step, wherever a step is `Timely` and the
bucket was made for the limit that stands; a look may cost it up to a millisecond's refill (`Losses`). A key without
a limit has no bucket, and its calls are not among the passed. A token costs one micro. Weekly and
monthly budgets are the daily one with another start and are not separate cases.

**Catalog.** One step per statement of the store, as in `ensure_model`, `ensure_provider`, `create_alias`,
`delete_provider`; `rename_model` is a transaction and one step. After its write each handler reloads in
three steps, the two queries and the installation, so two reloads interleave. `Canonical` is the bounded
walk of `Snapshot::canonical`. A provider that is deleted and made again has another id (`provider` counts both), and
`delete_provider` deletes by the id it was given. A deployment is its model and provider, so a deletion by the id of a row
that was deleted and made again meanwhile is not told from one of the new row. `Abandoned` is a
failed query of the reload, or a client that hung up.

**ChatIR, Decoders, Encoders** and **Relay.** `ChatIR` is `ir.rs`: blocks, stream events, `Usage::merge`, the
`Aggregator`, `IrResponse`. `Decoders` are the four `decode_sse` and `parse_response`, `Encoders` the four
`StreamEncoder`s and `emit_response`; both are operators from a state and an event to a state and frames,
without recursive operators (a loop of the code is a recursive function or a fold). `Relay` is one answered chat turn: the upstream's lines are a function of its answer
(`ChatLines` and so on, external), a read ends anywhere, also inside a line (`read` counts half-lines), and
`TranslateChunk`, `TranslateEnd`, `AggregateChunk`, `AggregateEnd`, `FullToStream`, `EmitFull`, `Break`, `Hangup`
are the paths of `translate_stream` and `handle`. `EndsStream` is the search of the encoded batch for the
dialect's terminal bytes, which also finds them in a text, a thought, or the id, name or arguments of a call (`Words`). `ReadFrames` is how a client of a dialect reads what it gets; the properties
compare that with what the upstream said. Texts are fragments, tokens small numbers, prices three numbers.

**Requests** and **Conversation.** `Requests` has `parse_request` and `emit_request` of the four dialects as
operators over bodies of records and sequences. A tool result is a list of blocks, as `ContentBlock::ToolResult` is; only the
Anthropic emitter writes all of them, the others join its texts. `Conversation` is a client that keeps a history in its own
dialect: it says something, instructs in the middle, recalls an earlier answer, returns results of words, words and an image, or marked words, and sends the whole to
any upstream at each turn (which is also what failover does); the answer goes back into the history as the
client's dialect writes it. `Read` is how each upstream reads a request.

**Accounts** and **Identity.** `Accounts` are the tables and the store's statements on them. In `Identity` a
request is presented with a key, a session cookie or a vouched name; finding the credential, reading the
account, provisioning, counting the administrators and writing are steps of their own, as they are
awaits in `admin.rs`. The start is its steps: first run, the control owner, revoking earlier control keys one
by one, issuing the new one, with a stop between any two. `run_setup` and `run_set_role` are commands of another
process on the same database; they are taken not to run while the gateway starts. Passwords and
hashes are who knows them.

**Routing.** `ReadGrants` is `effective_access` (the team's read may fail, and then counts for nothing).
`Resolve` takes the installed `Snapshot`; `Collect` is one model of the chain in `collect`: the filters, the
strategy's order, the deduplication. Round robin's `fetch_add` counts as it reads; least-busy reads the loads,
and `CountBusy` is its `fetch_add` after that, so two requests may read the same loads. `Route` is
`filter_access` and the refusal of an empty list, `Finish` the end of the turn, `Edit` and `Reload` the
table's change in store and memory. A new `Snapshot` starts with fresh counters; a request that is collecting goes
on with the table it took (`gone`), whose counters are not followed, so that it may be given any order. The loads of one
model are read in one step. A deployment is its model and provider, by which the code drops duplicates.
`ListModels` is discovery (`/v1/models` and its like): it reads the grants and the database, and when `list_deployments`
fails it answers an empty list with 200. `shown` is what a client has from it until its next call is routed, with the
table and the access it came from; between the two an edit, a late reload and other requests may come, and
`ListedIsServed` compares them. It asks for the same access at both ends and for deployments of the name that are what
discovery read: the database may be ahead of the router, and a key or team may be changed, and then nothing makes the two
agree. Discovery that cannot read the key answers an error and shows nothing.

**Embeddings.** The five codecs and the loop of `handle_embed`. A body keeps the form of each item (a
string, a part, a content, a base64 or linked image), because the dialects differ in which they accept and carry. An upstream
answers with a row per input, in any order if its rows are numbered. What the turn records is in `Turn`. Its
names (`EmbedInit`, `EmbedNext`) are its own because `RoutingProofs` has the proofs about it too: both are of a
request's way to an upstream.

## 4. The runs

| Run | Configuration | Checks | Distinct states |
|---|---|---|---|
| `turn` | `MCTurn.cfg` | `TypeOK`, `OneAuthor`, `AnsweredIsFiledOnce`, `FiledTwiceOnlyOnHangup`, `AskedInOrder`, `NoAskAfterCommit`, `EveryTurnEnds` | 22 k |
| `reqlog` | `MCReqlog.cfg` | `Accounted`, `DedupKeyNamesTurn`, `ErasedIsGone`, `AgeIsKept`, `ImplementsArchive` | 374 k |
| `reqlog_calls` | `MCReqlogCalls.cfg` | `InFlightSettles`, `ExportEnds` | 120 k |
| `admission` | `MCAdmission.cfg` | `SlotsBalance`, `HandlersWithinCap`, `SpentOutIsRefused` | 4865 k |
| `admission_rate` | `MCAdmissionRate.cfg` | `WindowBound`, `ImplementsBuckets` | 1838 k |
| `catalog` | `MCCatalog.cfg` | `SerialTable`, `SerialNames`, `SerialRoutes`, `RenameKeepsNames`, `OwnWriteIsServed`, `ReapsOnlyUnseen` | 1006 k |
| `relay` | `MCRelay.cfg` | `FramesWellFormed`, `EndMeansAll`, `LogIsClientsAnswer`, `AwaitedIsBilled` | 16 k |
| `conversation` | `MCConversation.cfg` | `DialogueKept`, `InstructionsReach`, `AnswersFollowCalls`, `KnobsReach` | 427 k |
| `identity` | `MCIdentity.cfg` | `AuthorityIsFresh`, `LastAdminGoesUnguarded`, `ControlKeyIsTheKey` | 2410 k |
| `routing` | `MCRouting.cfg` | `ListedIsServed`, `GrantDecides`, `RotationIsEven` | 1482 k |
| `embeddings` | `MCEmbeddings.cfg` | `VectorsAreOfInputs` | 1016 k |
| `turn_commit_lost` | `MCTurnCommitLost.cfg` | `CommittedIsFiled`, which the model refutes (section 7) | |

The other state machines except `Conversation` state a `TypeOK` as well; it holds on the same instances, and the
runs spend their properties elsewhere.

What they show, and why the bounds are enough:

* `turn`: one request, because turns share no state in this module (the limiter and the log are
  `Admission` and `Reqlog`) and the proofs cover any number. Routes of up to two candidates hold a failover
  target, a candidate to pass over before or after it, and none; two tokens let a usage grow between
  chunks; one refused write per sink reaches each error path.
* `reqlog`: two turns of two keys with one request id, so that the deduplication key is really needed, with
  a batch of two, a crash, a failing disk operation (a directory or a time that cannot be read is one) and a forgotten
  key in one behaviour. Two turns make a
  row survive next to one that is forgotten. `reqlog_calls` has every other call of `DuckLogger` and every
  policy with one turn; a queue of two lets a control message wait behind a record and a full queue drop.
* `admission`: two turns of one key that overlap in every way and are hung up on at every await, under caps of one
  and two, a day's and a lifetime's budget of the key and of its team, midnight, and one change of a limit or a budget
  at any point, so that a lowered cap meets calls already in and a budget runs out between two calls. No time passes
  for the buckets here: that is `admission_rate`, where two turns and a video lookup share a window of two ticks and
  a millisecond of two ticks over four points in time, so that a bucket is emptied, refilled in part, driven into debt and
  loses a tick at a look; a call may be overtaken between the clock and the lock, and the limits change once.
* `catalog`: two operators, all sequences and overlaps of three operations over three models, four names and
  two providers, with one abandoned handler, from two deployed models with an alias; the shortest misrouting a stale table
  can cause takes three operations, and a provider without deployments can be deleted while one is being made. `alone` is history: it is true while no two operations have overlapped
  and none was abandoned, and the three `Serial` properties are what the docs say, under that condition.
* `relay`: six answers (empty, cut off with a cached prompt, thinking before and after text, two calls at once, a call between
  two texts) through all pairs of dialects, streamed or not on each side, with and without `include_usage`; every split into reads
  and every place to close, break or hang up. Each answer holds a change of block that some encoder has to
  close and open for; more blocks repeat those changes.
* `conversation`: every history of up to five messages, which is a call, its results, an answer, and a
  further pair, with the upstream chosen anew at each turn. A result is words, an image beside them, or words with a cache mark, and one that
  is more than words is not also an error, marked as a whole or of a type its client alone knows. One setting forces a call and asks for
  reasoning, the other names the tool and limits the answer.
* `identity`: two requests in flight, three in all, two starts and a command, over a person, the control
  user and the default administrator, with up to three accounts and two keys made. Two requests are what a
  race of check and act takes, the third ends a session or deletes an account before both; two starts are a
  rotated token.
* `routing`: two requests at once, three in all, two tables and a reload from one to the other at any step, a chain
  that returns to its own name. Four policies for key and team, which between them allow and deny models and
  providers, meet in a merge, or allow disjoint things; of two requests at work only one has a grant that denies it something
  or a team that cannot be read, or was shown a list (`OneNarrow`), the other is there for the counters; who was shown a list
  uses it with the access it had, which `ListedIsServed` is about, and a list counts as one of the three. Two requests read the same loads before
  either adds to one, so least-busy's bound, the number of requests, is reached.
* `embeddings`: three inputs make every permutation of rows; five kinds of input are one for each
  distinction a codec makes; the four chains hold every upstream dialect, one that is passed over and one behind
  another.

Where a run says `CHECK_DEADLOCK FALSE` its requests, answers or messages are used up; nothing waits.

Symmetry is used in safety runs only, over calls, handlers and requests, none of which any definition tells
apart. `MCCatalog` starts from one of the starts that differ in the names of things alone.

## 5. Fairness

* `Turn!FairSpec`: the gateway's own steps and its store's answers come (the runtime polls ready futures; the
  store is local or answers with an error), a body that is being read ends or breaks
  (`next_or_stall` times out). That an upstream answers a send, and sends an error body to its end, is an
  assumption about the upstream: no code bounds either. `SilentBodySpec` drops the second, and `MCTurnSilence.cfg`
  shows what then happens.
* `Reqlog!FairSpec`: the worker's thread and the export's are scheduled. No caller is made to call, and no
  time to pass.
* The other modules state no liveness and no fairness: their requests come when clients and operators like.

## 6. What is proved

For any sets of requests, keys, names and so on, and any bounds, from nothing but the named assumptions of each
module (the types of its constants, routes without duplicates, finite sets of calls and names).

| Module | Theorem | States |
|---|---|---|
| `TurnProofs` | `TypeCorrect` | `Spec => []TypeOK` |
| | `OneAuthorHolds` | `Spec => []OneAuthor` |
| | `AskedInOrderHolds` | `Spec => []AskedInOrder` |
| | `AnsweredIsFiledOnceHolds` | `Spec => []AnsweredIsFiledOnce` |
| | `NoAskAfterCommitHolds` | `Spec => NoAskAfterCommit` |
| | `FiledTwiceOnlyOnHangupHolds` | `Spec => []FiledTwiceOnlyOnHangup` |
| `ReqlogProofs` | `TypeCorrect` | `Spec => []TypeOK` |
| | `AccountedHolds` | `Spec => []Accounted` |
| | `DedupKeyNamesTurnHolds` | `Spec => []DedupKeyNamesTurn` |
| | `ErasedIsGoneHolds` | `Spec => []ErasedIsGone` |
| | `AgeIsKeptHolds` | `Spec => AgeIsKept` |
| | `ArchiveHolds` | `Spec => ImplementsArchive`, a refinement |
| `AdmissionProofs` | `TypeCorrect` | `Spec => []TypeOK` |
| | `SlotsBalanceHolds` | `Spec => []SlotsBalance` |
| | `HandlersWithinCapHolds` | `Spec => []HandlersWithinCap` |
| | `SpentOutIsRefusedHolds` | `Spec => []SpentOutIsRefused` |
| | `WindowBoundHolds` | `Spec => []WindowBound` |
| | `BucketsHold` | `Spec => ImplementsBuckets`, a refinement of the timely steps |
| `CatalogProofs` | `TypeCorrect` | `Spec => []TypeOK` |
| | `SerialTableHolds`, `SerialNamesHolds`, `SerialRoutesHolds` | `Spec => []SerialTable` and so on |
| | `ReapsOnlyUnseenHolds` | `Spec => ReapsOnlyUnseen` |
| | `RenameKeepsNamesHolds` | `Spec => RenameKeepsNames` |
| | `OwnWriteIsServedHolds` | `Spec => OwnWriteIsServed` |
| `IdentityProofs` | `TypeCorrect` | `Spec => []TypeOK` |
| | `AuthorityIsFreshHolds` | `Spec => AuthorityIsFresh` |
| | `LastAdminGoesUnguardedHolds` | `Spec => LastAdminGoesUnguarded` |
| | `ControlKeyIsTheKeyHolds` | `Spec => ControlKeyIsTheKey` |
| `RoutingProofs` | `TypesHold` | `Spec => []TypeOK` |
| | `ListedIsServedHolds` | `Spec => ListedIsServed` |
| | `GrantDecidesHolds` | `Spec => GrantDecides` |
| | `RotationIsEvenHolds` | `Spec => []RotationIsEven` |
| | `EmbeddingsTyped` | `EmbedSpec => []EmbedTypeOK` |
| | `VectorsOfInputs` | `EmbedSpec => []VectorsAreOfInputs` |
| `RelayProofs`, on `CodecProofs` | `TurnIsFollowed` | `Spec => []RelayInv` |
| | `TypeCorrect` | `Spec => []TypeOK` |
| | `ClientsFrames` | `Spec => []FramesWellFormed` |
| | `AnswerIsWhole` | `Spec => []EndMeansAll` |
| | `LoggedIsSent` | `Spec => []LogIsClientsAnswer` |
| | `AwaitedTurnsAreBilled` | `Spec => []AwaitedIsBilled`, if no answer mentions an end marker |

`WindowBoundHolds` and `BucketsHold` hold whatever lag and changes there are. What the code does not give is part of the
properties themselves, where a reader sees it (section 7): `WindowBound` speaks of windows that saw no change of the
limit and no call that moved the bucket back in time, and not of a bucket whose limit was lowered, which keeps its old
refill rate; `ImplementsBuckets` of the timely steps on a bucket made for the limit that stands.

None of the properties is inductive as stated: from an arbitrary state in which it holds, a step may break it.
Each module states the invariant that is, as a conjunction of named parts, and the theorems follow from it. A proof
has a lemma per action or per part, and under it a step per conjunct that the action can disturb.

**`TurnProofs`.** Every request's variables change only in its own steps (`StepFrame`), so each invariant is proved
for one request and the others follow by framing.

* `AuthorInv`: the guard is armed only before a commit, a guard row or task excludes any finish, and where the
  handler is bounds what the guard can have filed. Without the part about places `OneAuthor` would allow a state
  with an armed guard beside a finish, whose drop would file a second time.
* `AskInv`: while the current candidate is being asked it has been asked once (twice on a resend), and not at
  all before `Send`; the candidates behind and ahead of it as in `AskedInOrder`. That routes hold no
  duplicates makes "the candidates ahead" disjoint from "the ones behind".
* `FileInv`: at each stage of a finish exactly the sinks before it are filed, each once or refused, each for
  the tokens charged; until an inline finish begins nothing is; once it has ended all are.
* `TwiceInv`: a `StreamState` not yet recorded is one the client asked for, only a hang-up spawns a finish, that
  finish files a 499, and until it has written its row there is at most one.

**`ReqlogProofs`: `ReqlogInv`.** `Placed` has every logged turn in one of its places (`Accounted`), and `Files` says what the
table, the partial and the finished shards hold at each statement of `rotate` and `forget`: a sealed shard has every row
before the table is emptied, a replacement all but the rows of the key. Only with it is a stop between two file
operations harmless. `Identified`: a turn has one row, ids are not given twice in a process, and the clock tells processes
apart. `Channel` and `Ordered` are the channel's order: no record that a `Forget` has to erase is behind it, so
`Forgetting`, with `ErasedIsGone`, survives every step between the request and the answer; the shards a listing did not show
stay apart from those it did, since a replaced shard keeps its name. `ArchiveHolds` takes
the steps one by one: a flush keeps turns, a prune or a forget drops them, every other step, a rotation that stops
half-way and a restart included, is a stutter.

**`AdmissionProofs`: `AdmissionInv`** has `Verified` (a call's limits are its key's, until an operator sets others),
`Slotted` (the in-flight count is the number of guards, and every handler past the limiter has one or no
limit), `Capped` (no more guards than the largest cap that may have stood) and `Doomed` (a call that is to be
refused has not yet read the budget that is used up, and what it listed of the budgets is what they are). `BucketInv` adds
`Past` (a bucket is never over full and was last refilled in the past), `Known` (a call that knows other limits than its
key's read the clock before they were changed) and `Paid`: for any moment since the bucket was last upset, the calls let
pass since and what the bucket held at the last look are no more than a full bucket and the refill up to that look. A
millisecond cut off at a look only makes that less. `WindowBound` is it for the moment the window begins. `BucketsHold`
takes each look apart into the ticks the eager bucket had and what the look lost of them. The sums are
cardinalities of sets of calls.

**`CatalogProofs`: `CatalogInv`.** `NamesApart` and `Named` are what the store's unique columns, references and transactions
keep whoever overlaps; `Recorded` says that the history has every name and alias there is; `ClaimHolds` that the
deployment a handler wrote or deleted is in the store as it left it, unless another took it back, and in what
it has read since, which gives `OwnWriteIsServed`; `Watched` that the ids of a provider only grow, and that while
the one a handler is about to delete is still there, each of its deployments is among those made since the handler looked,
which gives `ReapsOnlyUnseen`. `Serial` holds while operations have come one at a time: what the one
handler at work checked is still so when it writes, what it read for the reload is the store's, and outside of a reload
the table is. `Canonical`'s bounded walk is then a single hop (`CanonicalIsHop`).

**`IdentityProofs`: `IdentityInv`.** `Presented`: the key or session a request came with was good when it came, though
its account is read later. `UsernamesApart`: live accounts have different names. `ControlRows`: a key of a control
token is good for everything and belongs to the account the control key acts as. `Starting`: requests are handled only
while the gateway is up, and between the steps of its start nobody takes that account away.

**`RoutingProofs`: `RoutingInv`.** `Granting`: the merged grant stays with the request until it is routed. `Collecting`: what
was collected is, at each place of the chain, what survives of the models passed, each deployment once. `Showing`: until it is
used, a list is what discovery makes of the table it read, and `OwnAreServed` says which deployments of the model itself a routed
request is given; the two meet in `ListedStep`. The lemmas on
`merge`, `Survivors`, `Extend` and `filter_access` make that what both grants permit. `Owing`: a deployment's firsts
are its load and the requests that chose it and have yet to add to it. `Level`: the firsts of two deployments of a whole
model differ by at most the number of requests, since a new choice has the smallest load. `Rotating`: under round
robin they are as even as the counter's place in the rotation makes them (`Balanced`). The operators that order
finite sets are reached through least elements.

**`RoutingProofs`, of `Embeddings`: `EmbedIInv`.** Between the awaits of `handle_embed` the request is what `parse` made of
the body and what was sent is what `emit` made of that for the candidate at hand; nothing of a candidate that was
passed over or failed is left. The codecs are lemmas: `ParseUnderstands` (the inputs, one for one, and the
settings), `EmitTells`, `TaskIsMeant` (a task name survives the two translations), `SortedByNumber` (rows numbered in any
order come out in the order of their numbers; `SortedRows` is the one function that puts each row at its rank) and
`AnswerLists`.

**`CodecProofs` and `RelayProofs`: `RelayInv`.** The hard part is that a codec computes over streams of any length, by
recursion over lines and events, and the provers cannot induct over data for a formula that is a parameter. So each
recursion is unrolled into a run: `RunOf(t)` has the decoder's state and the point reached (`Points`: what the events so far
amount to, and whether they may still go on) before each line of the answer, and `RunLeads`, `DecodeRun`, `EncodeRun`,
`PushRun`, `HearRun` and their like say that the model's recursive functions and folds compute the last state of such a
run. An induction is then the plain fact `UpTo` about a set of numbers, once for each relation.

* Decoders: `Right` says that where a stream is over, the events amount to the text, thinking, calls and stop reason
  of the upstream's blocks, and to its usage if that was read; a lemma per dialect takes its lines block by block to there
  (`ChatTail`, `AnthropicTail`, `ResponsesTail`, `GeminiTail` are the ends).
* Encoders: `Keeps` holds of an encoder, the frames sent before and the point of the events it was given: the frames are
  well formed and leave exactly the block open that the encoder has open (`AnthropicFrames`, `ResponsesFrames`,
  `ChatSaid`), and a client that reads them has heard what the events amount to (`HeardIn`), but for a Gemini call that
  waits for its arguments. Every legal event, and every flush of the output, keeps it (`KeepsSteps`, `KeepsFlushes`). It is
  the open block that makes `FramesWellFormed` inductive.
* The turn: `RelayInv` ties both together at every half-line: the decoder is where the run is after the lines read, the
  encoder `Keeps` at that point, the client was `Told`, and the log, if there is one, has the aggregator's answer.
* `AnswerIsWhole`: an end in the frames means the point is over (`Late`), so what was heard is what is `Right`. For bodies,
  `Amounts` follows a list of blocks through `emit_response` and `parse_response`, `Tells` and `Piled` through the
  items of a Responses body. Stop reasons are an algebra of their own: each dialect forgets some, streams and bodies not
  the same ones, and `StopsMeet` shows that forgetting on both sides gives what `Sayable` asks, whichever way it went.
* `LoggedIsSent`: the log is `into_response` of the aggregator at the moment of the cut. It equals what the client heard as
  far as the two dialects can say it because an aggregator only grows (`Under`): what an upstream never says at the end, it
  has not said in the middle (`Fits`).
* `AwaitedTurnsAreBilled` has a hypothesis, `Plain`: no text, thought, or call (its id, name or input) of an answer holds
  the words the code looks for to see the end; `PlainRuns` takes it from the answers to every event of their runs, the pieces of serialised
  arguments included. Without it the property is false, which is a finding (section 7, `EndIsSent`): the turn is cut at the mention and
  billed what had been reported by then.

What TLC alone shows: `EveryTurnEnds`, `InFlightSettles`, `ExportEnds` (liveness under fairness is out of the
prover's reach, as is `ENABLED`), and the properties of `Conversation`, which are about codecs over histories; a proof
would follow the same way as the relay's, with a run over the messages in place of the lines.

## 7. Where the code and its words disagree

`PROJECT.json` quotes the sentence and the line of each. One is a run of its own (`turn_commit_lost`); the
others are shown by a configuration kept beside it, or by naming the property in the run's configuration.

| Property | Module, configuration | What happens |
|---|---|---|
| `CommittedIsFiled` | `MCTurn`, `MCTurnCommitLost.cfg` | a hang-up in `aggregate_stream` leaves a committed turn unrecorded |
| `StreamFiledAtMostOnce` | `MCTurn`, `MCTurnStreamTwice.cfg` | a client hangs up while a stream's finish is writing: filed again as a 499, charged twice |
| `SilenceEndsTheTurn` | `MCTurn`, `MCTurnSilence.cfg` | an upstream silent in an error body holds the turn for ever |
| `ExportIsComplete` | `MCReqlog`, `MCReqlogExport.cfg` | the first rotation, between listing and query, hides turns from an export |
| `LoweredLimitBound` | `MCAdmission`, `MCAdmissionChange.cfg` | a lowered limit keeps the old refill rate |
| `TableIsCurrent` | `MCCatalog`, `MCCatalogStale.cfg` | overlapping reloads: the older one installs last |
| `UsageIsBilled` | `MCRelay`, `MCRelayUsage.cfg` | the end is seen before a Chat upstream's last line: the turn is billed as empty |
| `EndIsSent` | `MCRelay`, `MCRelayEnd.cfg` | an answer whose text, or a call of which, holds the dialect's end marker is cut there |
| `CachedIsBilled` | `MCRelay`, `MCRelay.cfg` | Anthropic counts cached tokens beside the prompt's, the price takes them out of it |
| `CallsAreAnswered` | `MCConversation`, `MCConversationAnswers.cfg` | two calls at once from a Responses history reach a Chat upstream as two messages; a marked result is dropped |
| `GeminiPairsByName` | `MCConversation`, `MCConversation.cfg` | a result is named by an id that is no function's name |
| `LastAdminStays` | `MCIdentity`, `MCIdentityAdmins.cfg` | two demotions at once, or an invitation, leave no administrator |
| `StartSucceeds` | `MCIdentity`, `MCIdentity.cfg` | a token that was used before makes the start fail |
| `NarrowerGrantWins` | `MCRouting`, `MCRouting.cfg` | disjoint allow-lists intersect to the empty list, which means no ceiling |
| `FewestInFlightFirst` | `MCRouting`, `MCRoutingBusy.cfg` | least-busy counts picks, not requests in flight |
| `UnsupportedByAll` | `MCEmbeddings`, `MCEmbeddings.cfg` | an input the first candidate cannot carry ends the turn, though the next could serve it |

The models refute more of the same kind, without a sentence of the repository to hold them against:

| Property | Configuration | What happens |
|---|---|---|
| `UncommittedIsFiled` | `MCTurn.cfg` | `TurnGuard::fail` disarms before its insert: a hang-up there leaves no row |
| `GuardFiles499OnlyOnHangup` | `MCTurn.cfg` | an embedding answer that does not parse is filed as the client's hang-up |
| `ErasedFromEveryFile` | `MCReqlog.cfg` | a partial shard left by a crash survives a Forget answered Ok |
| `ErasedIsFoundNowhere` | `MCReqlog.cfg` | a Forget that cannot list the shards, or one of them, answers Ok and leaves them |
| `NoShardGrowsYounger` | `MCReqlog.cfg` | a shard whose time cannot be read is replaced by one with a new time |
| `ForgetCountsTurns` | `MCReqlog.cfg` | after a cut-off rotation Forget counts turns twice |
| `TableIsCurrent` | `MCCatalog.cfg` | also: a hang-up between write and reload leaves the table behind |
| `NameIsOneThing` | `MCCatalog.cfg` | two check-then-act handlers make a name both a model's and an alias's |
| `NoForeignRoute` | `MCCatalog.cfg` | names move between the two queries of a reload: an alias reaches another model |
| `NoLiveDeploymentReaped` | `MCCatalog.cfg` | a deployment made between check and delete is cascaded away |
| `TaskOfEach` | `MCEmbeddings.cfg` | a Gemini batch whose items name different tasks is made with the first named |

The passing runs check the same where the code does keep it: `WindowBound` over windows in which
limits stood and no late call moved a bucket back (such a call has its interval refilled twice), `ErasedIsGone` of the shards
that were listed, `AgeIsKept` of those whose time was read, the catalog's three while operations come one at a time, `ReapsOnlyUnseen`
of the cascade, `AwaitedIsBilled` for usage that was waited for,
`AnswersFollowCalls` and `LastAdminGoesUnguarded` with the exceptions spelled out, `DialogueKept` but for images in results and marked results, `GrantDecides` with what the code
makes of disjoint lists and of a team it cannot read.

Read in the code while modelling it, and part of the models as it is:

* Answers: an upstream that closes without its last event leaves the client without a terminal event, and when
  aggregated its part is presented as complete; a break during aggregation bills nothing; a Responses stream
  that ends `incomplete` is read as a normal end; deltas of interleaved calls are joined without regard to their index; `full_to_stream` sends usage
  whatever `include_usage` says; Anthropic clients of another upstream's stream are never told the input tokens; a
  thinking block's `signature` and a Chat answer's reasoning are lost.
* Requests: an image in a tool result goes from Chat to Chat and from Chat or Anthropic to Anthropic only; Gemini's `fileData` and an assistant's content parts in Chat are not read; a Responses-to-Responses relay drops
  `max_output_tokens`, `stop` and built-in tools; Gemini's `ANY` with two allowed names becomes "any tool"; two calls of one Gemini function share an id.
* Accounts: a changed password leaves the sessions alive; a deleted user who signs on again is provisioned anew; a
  failed count at the start resets the default administrator; `PATCH` of a key writes back what it read.
* Routing: fallbacks are kept by name and lost by a rename; least-busy also counts heads of fallbacks never called;
  a deleted team's grant still applies.
* Embeddings: nothing checks that every input was answered, and missing rows are renumbered; `embedContent` with
  several requests is refused after the upstream was paid; an empty `embedding_types` gets no vectors.

## 8. What is not modelled

* Of the turn: a video's later lookups (`media.rs` 190 on), which have no failover and no books; the wording of errors; what
  the codecs do to a turn's content, which is `Relay` and `Embeddings`.
* Of admission: the failure of a budget query, which answers 500 and returns like a refusal; other replicas, which the limiter does not know of.
* Of the catalog: provider settings, prices and capabilities, the bulk import, which use the same statements and the
  same reload; Postgres, whose statements are those of SQLite.
* Of the chat codecs: text as characters, JSON, base64, images and files beyond a block's being there, the
  blocks a dialect carries for itself alone.
* Of accounts: when a session expires (it may at any time), passwords as text, addresses, permissions below the
  role, the exchange with an identity provider; an operator's command while the gateway starts.
* The rest of the admin API (teams, budgets, limits, reports): single statements and reads.
* Settings: the capture policy is stored and applied under one lock, the log level too; health probes are made on request and only report; the
  telemetry registry and its exporter feed no decision; `bucket_start` is calendar arithmetic.
* Redaction, hashing and encryption: conversions over text and bytes. Configuration
  and start-up run once. The console is presentation.

## 9. Plan

1. Proofs about `Conversation`: `KnobsReach` first, which needs no induction; then that one message's translation keeps
   roles and order, a lemma per dialect, and the run over a history.
2. Modules for the settings endpoints and the exporter, should they come to decide anything.
