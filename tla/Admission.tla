----------------------------- MODULE Admission -----------------------------
(***************************************************************************)
(* The admission of a call: the limits of its key, the Limiter's buckets   *)
(* and concurrency slots, the budgets of its subjects, and what a finished *)
(* turn charges to the token bucket and adds to the spend.                 *)
(*                                                                         *)
(* Code: yb-core/src/ratelimit.rs, run_call and enforce_budgets of         *)
(* yb-server/src/lib.rs, the rollups of RecordCtx::finish in               *)
(* yb-gateway/src/service.rs.                                              *)
(*                                                                         *)
(* The Limiter's methods each take its lock, and so are one step; a call   *)
(* reads the clock before it takes the lock. Each query of the store is a  *)
(* step. Time passes in ticks for the buckets and in days for the budgets. *)
(***************************************************************************)
EXTENDS Integers, Sequences, FiniteSetsExt

CONSTANTS
    Calls,        \* calls, each made once
    Keys,
    KeyOf,        \* the key a call is made with
    Videos,       \* the calls that ask after a video and are no turns
    Subjects,     \* keys, users and teams that spend
    SubjectsOf,   \* SubjectsOf[k]: the key, its owner, its team if any
    Window,       \* ticks in the limiter's window
    Grain,        \* ticks in the millisecond a bucket's refill is counted in
    LimitSets,    \* limits an operator may set: [rpm, tpm, max], 0 is none
    Budgets,      \* budgets an operator may set: [limit, period], or NoBudget
    Tokens,       \* tokens a turn may report, each priced at one micro
    MaxLag,       \* bound: ticks between reading the clock and the lock
    MaxTime,      \* bound: ticks
    MaxDays,      \* bound: days
    MaxChanges    \* bound: changes of limits and budgets

Limits == [rpm : Nat, tpm : Nat, max : Nat]
Unlimited(l) == l.rpm = 0 /\ l.tpm = 0 /\ l.max = 0

NoBudget == [limit |-> 0, period |-> "none"]
Budget == {NoBudget} \cup [limit : Nat, period : {"day", "total"}]

ASSUME CallsAssumption == IsFiniteSet(Calls) /\ KeyOf \in [Calls -> Keys]
ASSUME VideosAssumption == Videos \subseteq Calls
ASSUME SubjectsAssumption == SubjectsOf \in [Keys -> Seq(Subjects)]
ASSUME SettingsAssumption ==
    /\ LimitSets \subseteq Limits /\ IsFiniteSet(LimitSets)   \* each is an i64
    /\ Budgets \subseteq Budget
ASSUME BoundsAssumption ==
    /\ Window \in Nat \ {0} /\ Grain \in Nat \ {0} /\ Tokens \subseteq Nat
    /\ MaxLag \in Nat /\ MaxTime \in Nat /\ MaxDays \in Nat /\ MaxChanges \in Nat

Never == -1
\* Past the limiter, in run_call: to the end of a record that it files itself.
Handling == {"tokens", "list", "read", "access", "running", "filing"}
\* After run_call: a stream, that files its record as it ends, or that was dropped
\* and has it filed by a task of its own.
Places == Handling \cup {"idle", "rate", "streaming", "closing", "dropped",
                         "detached", "done"}

VARIABLES
    limits,    \* the limits of a key in the store
    budget,    \* the budget of a subject in the store
    spend,     \* spend_rollup: spend[s][d] on day d
    clock,     \* ticks
    day,       \* today
    changes,   \* changes an operator made
    rpm, tpm,  \* Scope.rpm and Scope.tpm of a key: a sequence of at most one
    inFlight,  \* Scope.in_flight
    pc,        \* where a call is
    lim,       \* the limits it was verified with
    at,        \* the time it read
    held,      \* it holds a ConcurrencyGuard that is no noop
    listed,    \* the budgets it has listed
    pos,       \* how many of them, or of the rollups of its record, are behind it
    started,   \* the day its turn started
    today,     \* the day it reads the spend of
    cost,      \* what its turn cost
    admitted,  \* history: the time at which the rate limit let it pass
    metered,   \* history: calls the token limit let pass
    steady,    \* history: when the limits of a key were last set
    upset,     \* history: when they were, or its rpm bucket was last moved back
    doomed     \* history: a budget of the call was spent when it was verified

storeVars == <<limits, budget, spend>>
timeVars  == <<clock, day, changes, steady>>
scopeVars == <<rpm, tpm, inFlight>>
callVars  == <<lim, at, listed, pos, started, today, cost>>
histVars  == <<admitted, metered, doomed, upset>>
vars == <<storeVars, timeVars, scopeVars, pc, held, callVars, histVars>>

(***************************************************************************)
(* A bucket. `tokens` counts parts of a token, Window of them to a token:  *)
(* the rate, capacity / window, is then a whole number of parts per tick.  *)
(***************************************************************************)
Bucket == [tokens : Int, cap : Nat, rate : Nat, last : Int]

\* Bucket::new
NewBucket(n, now) == [tokens |-> n * Window, cap |-> n, rate |-> n, last |-> now]

\* get_or_insert_with
Existing(b, n, now) == IF b = <<>> THEN NewBucket(n, now) ELSE b[1]

\* What it holds when the refill of some ticks is added.
Topped(b, ticks) == Min({b.cap * Window, b.tokens + ticks * b.rate})

\* num_milliseconds().max(0), in ticks: whole milliseconds.
Elapsed(b, now) == Max({0, ((now - b.last) \div Grain) * Grain})

\* Mutant: the time of the last refill is not kept.
RefillKeepsLast(b, now) == [b EXCEPT !.tokens = Topped(b, Elapsed(b, now))]

\* Bucket::refill: `last` moves to now, and what is left of a millisecond is lost.
Refill(b, now) == [b EXCEPT !.tokens = Topped(b, Elapsed(b, now)), !.last = now]

\* What a bucket holds at the present time, had it been refilled at every tick
\* since it was last looked at.
LevelOf(b, n) == IF b = <<>> THEN n * Window ELSE Topped(b[1], clock - b[1].last)

TypeOK ==
    /\ limits \in [Keys -> Limits]
    /\ budget \in [Subjects -> Budget]
    /\ spend \in [Subjects -> [0..MaxDays -> Nat]]
    /\ clock \in Nat /\ day \in 0..MaxDays /\ changes \in Nat
    /\ rpm \in [Keys -> Seq(Bucket)] /\ tpm \in [Keys -> Seq(Bucket)]
    /\ \A k \in Keys : Len(rpm[k]) <= 1 /\ Len(tpm[k]) <= 1
    /\ inFlight \in [Keys -> Nat]
    /\ pc \in [Calls -> Places]
    /\ lim \in [Calls -> Limits]
    /\ at \in [Calls -> Nat]
    /\ held \in [Calls -> BOOLEAN]
    /\ listed \in [Calls -> Seq(Budget)]
    /\ pos \in [Calls -> Nat]
    /\ started \in [Calls -> 0..MaxDays] /\ today \in [Calls -> 0..MaxDays]
    /\ cost \in [Calls -> Nat]
    /\ admitted \in [Calls -> Nat \cup {Never}]
    /\ metered \subseteq Calls
    /\ steady \in [Keys -> Nat \cup {Never}]
    /\ upset \in [Keys -> Nat \cup {Never}]
    /\ doomed \in [Calls -> BOOLEAN]

Init ==
    /\ limits \in [Keys -> LimitSets]
    /\ budget \in [Subjects -> Budgets]
    /\ spend = [s \in Subjects |-> [d \in 0..MaxDays |-> 0]]
    /\ clock = 0 /\ day = 0 /\ changes = 0
    /\ rpm = [k \in Keys |-> <<>>] /\ tpm = [k \in Keys |-> <<>>]
    /\ inFlight = [k \in Keys |-> 0]
    /\ pc = [c \in Calls |-> "idle"]
    /\ lim = [c \in Calls |-> [rpm |-> 0, tpm |-> 0, max |-> 0]]
    /\ at = [c \in Calls |-> 0]
    /\ held = [c \in Calls |-> FALSE]
    /\ listed = [c \in Calls |-> <<>>]
    /\ pos = [c \in Calls |-> 0]
    /\ started = [c \in Calls |-> 0] /\ today = [c \in Calls |-> 0]
    /\ cost = [c \in Calls |-> 0]
    /\ admitted = [c \in Calls |-> Never] /\ metered = {}
    /\ steady = [k \in Keys |-> Never] /\ upset = [k \in Keys |-> Never]
    /\ doomed = [c \in Calls |-> FALSE]

-----------------------------------------------------------------------------
(* Helpers.                                                                *)

Goes(c, place) == pc' = [pc EXCEPT ![c] = place]

\* Mutant: a noop guard gives a slot back too.
ReleaseNoop(c) ==
    /\ held' = [held EXCEPT ![c] = FALSE]
    /\ inFlight' = [inFlight EXCEPT ![KeyOf[c]] = @ - 1]

\* ConcurrencyGuard::drop
Release(c) ==
    /\ held' = [held EXCEPT ![c] = FALSE]
    /\ inFlight' = IF held[c]
                     THEN [inFlight EXCEPT ![KeyOf[c]] = Max({0, @ - 1})]
                     ELSE inFlight

\* run_call returns: its guard is dropped.
Returns(c) == Goes(c, "done") /\ Release(c)

\* period_spend: the days since the period began.
PeriodSpend(s, b, d) ==
    MapThenSumSet(LAMBDA x : spend[s][x],
                  IF b.period = "total" THEN 0..MaxDays ELSE d..MaxDays)

Exceeded(s, b, d) == b # NoBudget /\ PeriodSpend(s, b, d) >= b.limit

SubjectOf(c, i) == SubjectsOf[KeyOf[c]][i]
SubjectCount(c) == Len(SubjectsOf[KeyOf[c]])

\* Some budget of the call was spent.
SpentOut(c) ==
    \E i \in 1..SubjectCount(c) :
       Exceeded(SubjectOf(c, i), budget[SubjectOf(c, i)], day)

-----------------------------------------------------------------------------
(* run_call, up to the gateway.                                            *)

\* The key is verified and its limits resolved; then the clock is read.
Verify(c) ==
    /\ pc[c] = "idle"
    /\ lim' = [lim EXCEPT ![c] = limits[KeyOf[c]]]
    /\ at' = [at EXCEPT ![c] = clock]
    /\ doomed' = [doomed EXCEPT ![c] = SpentOut(c) /\ c \notin Videos]
    /\ Goes(c, "rate")
    /\ UNCHANGED <<storeVars, timeVars, scopeVars, held, listed, pos, started,
                   today, cost, admitted, metered, upset>>

\* Mutant: a slot is counted for a call that is then refused.
CheckRefusesLate(c) ==
    /\ Goes(c, "done")
    /\ inFlight' = [inFlight EXCEPT ![KeyOf[c]] = @ + 1]
    /\ UNCHANGED <<held, admitted>>

\* Limiter::check refused: the guard is a noop.
CheckRefuses(c) ==
    /\ Goes(c, "done")
    /\ UNCHANGED <<inFlight, held, admitted>>

\* Mutant: the cap lets one more in.
CheckOneMore(c) ==
    LET k == KeyOf[c]
        l == lim[c]
    IN
    /\ pc[c] = "rate"
    /\ IF l.max > 0 /\ inFlight[k] > l.max
         THEN CheckRefuses(c)
         ELSE /\ inFlight' = [inFlight EXCEPT ![k] = @ + 1]
              /\ held' = [held EXCEPT ![c] = TRUE]
              /\ admitted' = [admitted EXCEPT ![c] = at[c]]
              /\ Goes(c, "tokens")
    /\ UNCHANGED <<storeVars, timeVars, rpm, tpm, callVars, metered, doomed, upset>>

\* A bucket that was refilled up to a later time is moved back to this one.
Upsets(k, now) ==
    upset' = IF rpm[k] # <<>> /\ now < rpm[k][1].last THEN [upset EXCEPT ![k] = clock]
                                                     ELSE upset

\* Limiter::check: nothing without limits; the cap, then the bucket, then a slot.
Check(c) ==
    LET k == KeyOf[c]
        l == lim[c]
        b == [Existing(rpm[k], l.rpm, at[c]) EXCEPT !.cap = l.rpm]
        r == Refill(b, at[c])
        takes == [r EXCEPT !.tokens = @ - Window]
        admits ==
          /\ inFlight' = [inFlight EXCEPT ![k] = @ + 1]
          /\ held' = [held EXCEPT ![c] = TRUE]
          /\ admitted' = [admitted EXCEPT ![c] = at[c]]
          /\ Goes(c, "tokens")
    IN
    /\ pc[c] = "rate"
    /\ CASE Unlimited(l) ->
              Goes(c, "tokens") /\ UNCHANGED <<rpm, inFlight, held, admitted, upset>>
         [] ~Unlimited(l) /\ l.max > 0 /\ inFlight[k] >= l.max ->
              CheckRefuses(c) /\ UNCHANGED <<rpm, upset>>
         [] ~Unlimited(l) /\ ~(l.max > 0 /\ inFlight[k] >= l.max) ->
              \/ l.rpm = 0 /\ admits /\ UNCHANGED <<rpm, upset>>
              \/ /\ l.rpm > 0 /\ r.tokens >= Window /\ Upsets(k, at[c])
                 /\ rpm' = [rpm EXCEPT ![k] = <<takes>>] /\ admits
              \/ /\ l.rpm > 0 /\ r.tokens < Window /\ Upsets(k, at[c])
                 /\ rpm' = [rpm EXCEPT ![k] = <<r>>] /\ CheckRefuses(c)
    /\ UNCHANGED <<storeVars, timeVars, tpm, callVars, metered, doomed>>

\* Limiter::tpm_exhausted. Only a turn goes on to the budgets.
CheckTokens(c) ==
    LET k == KeyOf[c]
        l == lim[c]
        r == Refill(Existing(tpm[k], l.tpm, at[c]), at[c])
        passes ==
          /\ metered' = metered \cup {c}
          /\ Goes(c, IF c \in Videos THEN "access" ELSE "list")
          /\ UNCHANGED <<inFlight, held>>
    IN
    /\ pc[c] = "tokens"
    /\ IF l.tpm = 0
         THEN passes /\ UNCHANGED tpm
         ELSE /\ tpm' = [tpm EXCEPT ![k] = <<r>>]
              /\ IF r.tokens < Window THEN Returns(c) /\ UNCHANGED metered
                                      ELSE passes
    /\ UNCHANGED <<storeVars, timeVars, rpm, callVars, admitted, doomed, upset>>

\* enforce_budgets: list the budgets of each subject, then read the clock.
ListBudgets(c) ==
    /\ pc[c] = "list"
    /\ IF Len(listed[c]) < SubjectCount(c)
         THEN /\ listed' = [listed EXCEPT ![c] =
                    Append(@, budget[SubjectOf(c, Len(@) + 1)])]
              /\ UNCHANGED <<pc, today>>
         ELSE /\ today' = [today EXCEPT ![c] = day]
              /\ Goes(c, "read")
              /\ UNCHANGED listed
    /\ UNCHANGED <<storeVars, timeVars, scopeVars, held, lim, at, pos, started,
                   cost, histVars>>

\* Mutant: only the key's own budget is looked at.
ReadSpendOfKey(c) ==
    /\ pc[c] = "read"
    /\ IF SubjectCount(c) > 0 /\ Exceeded(SubjectOf(c, 1), listed[c][1], today[c])
         THEN Returns(c)
         ELSE Goes(c, "access") /\ UNCHANGED <<inFlight, held>>
    /\ UNCHANGED <<storeVars, timeVars, rpm, tpm, callVars, histVars>>

\* Then read the spend of each, and stop at the first one exceeded.
ReadSpend(c) ==
    /\ pc[c] = "read"
    /\ LET i == pos[c] + 1 IN
         IF i > SubjectCount(c)
           THEN /\ pos' = [pos EXCEPT ![c] = 0]
                /\ Goes(c, "access")
                /\ UNCHANGED <<inFlight, held>>
           ELSE /\ pos' = [pos EXCEPT ![c] = i]
                /\ IF Exceeded(SubjectOf(c, i), listed[c][i], today[c])
                     THEN Returns(c)
                     ELSE UNCHANGED <<pc, inFlight, held>>
    /\ UNCHANGED <<storeVars, timeVars, rpm, tpm, lim, at, listed, started, today,
                   cost, histVars>>

\* effective_access and mark_api_key_used, whose failures are ignored; then the
\* gateway has the call.
Forward(c) ==
    /\ pc[c] = "access"
    /\ started' = [started EXCEPT ![c] = day]
    /\ Goes(c, "running")
    /\ UNCHANGED <<storeVars, timeVars, scopeVars, held, lim, at, listed, pos,
                   today, cost, histVars>>

-----------------------------------------------------------------------------
(* The gateway, as admission sees it (module Turn has the detail).         *)

\* Mutant: what is left in the bucket is all that is taken.
ChargeTokensNoDebt(c, n) ==
    LET k == KeyOf[c]
        b == [Existing(tpm[k], lim[c].tpm, clock) EXCEPT !.cap = lim[c].tpm]
        r == Refill(b, clock)
    IN IF n = 0 \/ lim[c].tpm = 0
         THEN UNCHANGED tpm
         ELSE tpm' = [tpm EXCEPT ![k] =
                        <<[r EXCEPT !.tokens = Max({0, @ - n * Window})]>>]

\* TokenMeter: Limiter::charge_tokens with the limits of admission.
ChargeTokens(c, n) ==
    LET k == KeyOf[c]
        b == [Existing(tpm[k], lim[c].tpm, clock) EXCEPT !.cap = lim[c].tpm]
        r == Refill(b, clock)
    IN IF n = 0 \/ lim[c].tpm = 0
         THEN UNCHANGED tpm
         ELSE tpm' = [tpm EXCEPT ![k] = <<[r EXCEPT !.tokens = @ - n * Window]>>]

\* RecordCtx::finish begins, and charges the meter before its first await: in the
\* handler, in the body of a stream that ends, or in the task of one that was
\* dropped. What it is given are the tokens seen so far.
Finish(c) ==
    /\ pc[c] \in {"running", "streaming", "dropped"} /\ c \notin Videos
    /\ \E n \in IF pc[c] = "dropped" THEN {cost[c]} ELSE Tokens :
          /\ ChargeTokens(c, n)
          /\ cost' = [cost EXCEPT ![c] = n]
    /\ Goes(c, IF pc[c] = "running" THEN "filing"
               ELSE IF pc[c] = "streaming" THEN "closing" ELSE "detached")
    /\ UNCHANGED <<storeVars, timeVars, rpm, inFlight, held, lim, at, listed, pos,
                   started, today, histVars>>

\* run_call answers with a stream and returns, its guard with it.
Streams(c) ==
    /\ pc[c] = "running" /\ c \notin Videos
    /\ Goes(c, "streaming") /\ Release(c)
    /\ UNCHANGED <<storeVars, timeVars, rpm, tpm, callVars, histVars>>

\* No answer to charge for: an error, or what was asked of a video.
Errs(c) ==
    /\ pc[c] = "running"
    /\ Returns(c)
    /\ UNCHANGED <<storeVars, timeVars, rpm, tpm, callVars, histVars>>

\* The client hangs up while the handler is at an await: the upstream's, a query's,
\* or one of its own record, which is left half-way.
Hangup(c) ==
    /\ pc[c] \in {"list", "read", "access", "running", "filing"}
    /\ Returns(c)
    /\ UNCHANGED <<storeVars, timeVars, rpm, tpm, callVars, histVars>>

\* The client hangs up on a stream. StreamState::drop spawns a record of what was
\* seen, of all of it once more when the stream's own record was on its way.
HangupStream(c) ==
    /\ pc[c] \in {"streaming", "closing"}
    /\ \E n \in IF pc[c] = "closing" THEN {cost[c]} ELSE Tokens :
          cost' = [cost EXCEPT ![c] = n]
    /\ pos' = [pos EXCEPT ![c] = 0]
    /\ Goes(c, "dropped")
    /\ UNCHANGED <<storeVars, timeVars, scopeVars, held, lim, at, listed, started,
                   today, histVars>>

\* upsert_rollup for each subject, on the day the turn started. One that fails is
\* logged, and the next goes on.
Rollup(c) ==
    /\ pc[c] \in {"filing", "closing", "detached"}
    /\ LET i == pos[c] + 1 IN
         IF i > SubjectCount(c)
           THEN Returns(c) /\ UNCHANGED <<spend, pos>>
           ELSE /\ \/ spend' = [spend EXCEPT ![SubjectOf(c, i)][started[c]] = @ + cost[c]]
                   \/ UNCHANGED spend
                /\ pos' = [pos EXCEPT ![c] = i]
                /\ UNCHANGED <<pc, inFlight, held>>
    /\ UNCHANGED <<limits, budget, timeVars, rpm, tpm, lim, at, listed, started,
                   today, cost, histVars>>

-----------------------------------------------------------------------------
(* Time and the operator.                                                  *)

Tick ==
    /\ clock < MaxTime
    /\ \A c \in Calls : pc[c] \in {"rate", "tokens"} => clock - at[c] < MaxLag
    /\ clock' = clock + 1
    /\ UNCHANGED <<storeVars, day, changes, steady, scopeVars, pc, held, callVars,
                   histVars>>

\* A budget of a day begins again: what was spent of it is no longer so.
NewDay ==
    /\ day < MaxDays
    /\ day' = day + 1
    /\ doomed' = [c \in Calls |-> FALSE]
    /\ UNCHANGED <<storeVars, clock, changes, steady, scopeVars, pc, held, callVars,
                   admitted, metered, upset>>

SetLimits(k) ==
    /\ changes < MaxChanges
    /\ \E l \in LimitSets \ {limits[k]} : limits' = [limits EXCEPT ![k] = l]
    /\ changes' = changes + 1
    /\ steady' = [steady EXCEPT ![k] = clock] /\ upset' = [upset EXCEPT ![k] = clock]
    /\ UNCHANGED <<budget, spend, clock, day, scopeVars, pc, held, callVars, admitted,
                   metered, doomed>>

SetBudget(s) ==
    /\ changes < MaxChanges
    /\ \E b \in Budgets \ {budget[s]} : budget' = [budget EXCEPT ![s] = b]
    /\ changes' = changes + 1
    /\ doomed' = [c \in Calls |-> FALSE]
    /\ UNCHANGED <<limits, spend, clock, day, steady, scopeVars, pc, held, callVars,
                   admitted, metered, upset>>

\* Every call was served.
Served == (\A c \in Calls : pc[c] = "done") /\ UNCHANGED vars

Step(c) ==
    \/ Check(c) \/ CheckTokens(c) \/ ListBudgets(c) \/ ReadSpend(c) \/ Forward(c)
    \/ Finish(c) \/ Streams(c) \/ Errs(c) \/ HangupStream(c) \/ Rollup(c)

Next ==
    \/ \E c \in Calls : Verify(c) \/ Step(c) \/ Hangup(c)
    \/ \E k \in Keys : SetLimits(k)
    \/ \E s \in Subjects : SetBudget(s)
    \/ Tick \/ NewDay \/ Served

Spec == Init /\ [][Next]_vars

-----------------------------------------------------------------------------
(* Properties.                                                             *)

Holders(k) == {c \in Calls : KeyOf[c] = k /\ held[c]}

\* in_flight counts the guards that are held, and only a call that run_call still
\* handles has one, whichever check refuses it, wherever it fails and at whichever
\* of its awaits the client hangs up, those of its own record (RecordCtx::finish)
\* included: no slot leaks and none is returned twice, so the .max(0) of
\* ConcurrencyGuard::drop never bites.
SlotsBalance ==
    /\ \A k \in Keys : inFlight[k] = Cardinality(Holders(k))
    /\ \A c \in Calls : held[c] => pc[c] \in Handling

\* No key has more handlers past the limiter than its cap, nor, once an operator
\* changed its limits, than the largest cap that may have stood meanwhile
\* (max_concurrent, ratelimit.rs:121).
HandlersWithinCap ==
    \A k \in Keys :
       LET caps == IF steady[k] = Never THEN {limits[k].max}
                                        ELSE {l.max : l \in LimitSets}
       IN  0 \notin caps =>
              Cardinality({c \in Calls : KeyOf[c] = k /\ pc[c] \in Handling}) <= Max(caps)

\* A turn that came when one of its budgets was used up never reaches the
\* gateway, unless a budget was changed or a new day began (enforce_budgets: the
\* key's, its owner's and its team's budget each block).
SpentOutIsRefused ==
    \A c \in Calls :
       doomed[c] => pc[c] \in {"idle", "rate", "tokens", "list", "read", "done"}

\* Calls of a key that its rate limit let pass in the window that ends now.
LatelyAdmitted(k) ==
    {c \in Calls : KeyOf[c] = k /\ admitted[c] # Never /\ clock - admitted[c] < Window}

\* The last window saw no change of the key's limits, and no call that looked at
\* its bucket for an earlier time than one before it.
Undisturbed(k) == upset[k] = Never \/ clock - upset[k] >= Window

\* ratelimit.rs:94 "Exact for a single replica." Over a window in which the limit
\* stood and no bucket was moved back, a key's bucket lets no more calls pass than
\* a full one and the window's refill. A bucket that an operator lowered keeps the
\* rate it was made with, and is left out.
WindowBound ==
    \A k \in Keys :
       /\ limits[k].rpm > 0 /\ Undisturbed(k)
       /\ rpm[k] # <<>> => rpm[k][1].rate <= limits[k].rpm
       => Cardinality(LatelyAdmitted(k)) * Window <= limits[k].rpm * (2 * Window - 1)

\* ratelimit.rs:94 for a limit that was lowered too, which Limiter::check refutes:
\* it gives the bucket the new capacity and leaves it the old refill.
LoweredLimitBound ==
    \A k \in Keys :
       limits[k].rpm > 0 /\ Undisturbed(k) =>
          Cardinality(LatelyAdmitted(k)) * Window <= limits[k].rpm * (2 * Window - 1)

\* A step that leaves a key its limits, by a call that knows them and that, when it
\* looks at a bucket, read the clock under the lock.
Timely(k) ==
    /\ limits'[k] = limits[k]
    /\ \A c \in Calls : KeyOf[c] = k /\ pc'[c] # pc[c] =>
          lim'[c] = limits[k] /\ (pc[c] \in {"rate", "tokens"} => at[c] = clock)

\* A bucket that was made for the limit that stands.
Made(b, n) == b = <<>> \/ (n > 0 /\ b[1].cap = n /\ b[1].rate = n)

\* The buckets of a key as a reader of its limits has them in mind. A key without
\* a limit has no bucket.
CallsOf(k) == {c \in Calls : KeyOf[c] = k}
RateBucket(k) == INSTANCE TokenBucket WITH
    Calls <- CallsOf(k), Cost <- 1, Charges <- {},
    cap <- limits[k].rpm,
    level <- LevelOf(rpm[k], limits[k].rpm),
    passed <- {c \in CallsOf(k) : admitted[c] # Never /\ limits[k].rpm > 0}
TokensBucket(k) == INSTANCE TokenBucket WITH
    Calls <- CallsOf(k), Cost <- 0, Charges <- Tokens,
    cap <- limits[k].tpm,
    level <- LevelOf(tpm[k], limits[k].tpm),
    passed <- {c \in CallsOf(k) : c \in metered /\ limits[k].tpm > 0}

\* A bucket that is refilled only when it is looked at is one that is refilled at
\* every tick, from full, to no more than full, where each look costs it less than
\* a millisecond's refill (Bucket::refill), and no call passes before the refill
\* has paid every debt: at each timely step of a key whose bucket was made for the
\* limit that stands.
ImplementsBuckets ==
    /\ \A k \in Keys : RateBucket(k)!Init /\ TokensBucket(k)!Init
    /\ [][\A k \in Keys : Timely(k) =>
            /\ Made(rpm[k], limits[k].rpm) => RateBucket(k)!Step
            /\ Made(tpm[k], limits[k].tpm) => TokensBucket(k)!Step]_vars
=============================================================================
