----------------------------- MODULE TurnProofs -----------------------------
(***************************************************************************)
(* Proofs about Turn, for any number of requests, any deployments, routes  *)
(* and bounds.                                                             *)
(***************************************************************************)
EXTENDS Turn, TLAPS

-----------------------------------------------------------------------------
(* Type correctness.                                                       *)

\* Asking the current candidate keeps the type of the table of askings.
LEMMA AskType ==
    ASSUME TypeOK, NEW r \in Requests, NEW loc \in Locations, Ask(r, loc)
    PROVE  /\ asked' \in [Requests -> [Deployments -> Nat]]
           /\ pc' \in [Requests -> Locations]
           /\ UNCHANGED <<route, at>>
  <1>1. /\ asked \in [Requests -> [Deployments -> Nat]]
        /\ pc \in [Requests -> Locations]
    BY DEF TypeOK
  <1>2. asked' = [asked EXCEPT ![r][Candidate(r)] = asked[r][Candidate(r)] + 1]
    BY DEF Ask
  <1>3. asked' \in [Requests -> [Deployments -> Nat]]
    <2>1. CASE Candidate(r) \in Deployments
      BY <1>1, <1>2, <2>1
    <2>2. CASE Candidate(r) \notin Deployments
      BY <1>1, <1>2, <2>2
    <2> QED
      BY <2>1, <2>2
  <1> QED
    BY <1>1, <1>3 DEF Ask

\* Dropping the guard keeps the types of what it writes.
LEMMA DropGuardType ==
    ASSUME TypeOK, NEW r \in Requests, DropGuard(r)
    PROVE  /\ armed' \in [Requests -> BOOLEAN]
           /\ guardTask' \in [Requests -> BOOLEAN]
           /\ guardAs' \in [Requests -> {"none", "status", "499"}]
           /\ UNCHANGED guardRows
  BY DEF DropGuard, TypeOK

\* RecordCtx::finish up to its first await keeps the types of what it writes.
LEMMA FinishStartType ==
    ASSUME TypeOK, NEW r \in Requests, NEW w \in Writers, NEW u \in Nat,
           NEW m \in {"ok", "error", "499"}, FinishStart(r, w, u, m)
    PROVE  /\ stage' \in [Requests -> [Writers -> Stages]]
           /\ note' \in [Requests -> [Writers -> Note]]
           /\ book' \in [Requests -> [Sinks -> Nat]]
           /\ spent' \in [Requests -> [Sinks -> Nat]]
           /\ charged' \in [Requests -> Nat]
           /\ refused' \in [Requests -> [Sinks -> Nat]]
           /\ marks' \in [Requests -> SUBSET {"ok", "error", "499"}]
  <1>1. stage' \in [Requests -> [Writers -> Stages]]
    BY DEF FinishStart, TypeOK, Stages, StoreSinks
  <1>2. note' \in [Requests -> [Writers -> Note]]
    BY DEF FinishStart, TypeOK, Note
  <1>3. book' \in [Requests -> [Sinks -> Nat]]
    <2>1. "observer" \in Sinks /\ book \in [Requests -> [Sinks -> Nat]]
      BY DEF Sinks, TypeOK
    <2> QED
      BY <2>1 DEF FinishStart
  <1>4. spent' \in [Requests -> [Sinks -> Nat]]
    <2>1. "observer" \in Sinks /\ spent \in [Requests -> [Sinks -> Nat]]
      BY DEF Sinks, TypeOK
    <2> QED
      BY <2>1 DEF FinishStart
  <1>5. charged' \in [Requests -> Nat]
    BY DEF FinishStart, TypeOK
  <1> QED
    BY <1>1, <1>2, <1>3, <1>4, <1>5 DEF FinishStart, TypeOK

\* One insert of a guard row keeps the types of what it writes.
LEMMA InsertGuardRowType ==
    ASSUME TypeOK, NEW r \in Requests, InsertGuardRow(r)
    PROVE  /\ guardRows' \in [Requests -> Nat]
           /\ refused' \in [Requests -> [Sinks -> Nat]]
  <1>1. /\ "telemetry" \in Sinks
        /\ refused \in [Requests -> [Sinks -> Nat]]
        /\ guardRows \in [Requests -> Nat]
    BY DEF Sinks, StoreSinks, TypeOK
  <1> QED
    BY <1>1 DEF InsertGuardRow

\* What reading an error answer writes keeps its types.
LEMMA ErrorReadType ==
    ASSUME TypeOK, NEW r \in Requests, NEW c \in ErrorClasses, ErrorRead(r, c)
    PROVE  /\ pc' \in [Requests -> Locations]
           /\ route' \in [Requests -> Seq(Deployments)]
           /\ at' \in [Requests -> Nat \ {0}]
           /\ asked' \in [Requests -> [Deployments -> Nat]]
           /\ armed' \in [Requests -> BOOLEAN]
           /\ UNCHANGED <<guardTask, guardRows, guardAs>>
           /\ committed' \in [Requests -> BOOLEAN]
           /\ stage' \in [Requests -> [Writers -> Stages]]
           /\ note' \in [Requests -> [Writers -> Note]]
           /\ book' \in [Requests -> [Sinks -> Nat]]
           /\ spent' \in [Requests -> [Sinks -> Nat]]
           /\ charged' \in [Requests -> Nat]
           /\ refused' \in [Requests -> [Sinks -> Nat]]
           /\ marks' \in [Requests -> SUBSET {"ok", "error", "499"}]
  <1>1. CASE c = "final"
    <2>1. FinishStart(r, "inline", 0, "error")
      BY <1>1 DEF ErrorRead
    <2>2. "inline" \in Writers /\ 0 \in Nat
      BY DEF Writers
    <2>3. /\ stage' \in [Requests -> [Writers -> Stages]]
          /\ note' \in [Requests -> [Writers -> Note]]
          /\ book' \in [Requests -> [Sinks -> Nat]]
          /\ spent' \in [Requests -> [Sinks -> Nat]]
          /\ charged' \in [Requests -> Nat]
          /\ refused' \in [Requests -> [Sinks -> Nat]]
          /\ marks' \in [Requests -> SUBSET {"ok", "error", "499"}]
      BY <2>1, <2>2, FinishStartType
    <2> QED
      BY <1>1, <2>3 DEF ErrorRead, Disarm, TypeOK, Locations
  <1>2. CASE c # "final"
    <2>1. /\ at' = [at EXCEPT ![r] = at[r] + 1]
          /\ pc' = [pc EXCEPT ![r] = "dispatch"]
          /\ UNCHANGED <<route, asked, armed, guardTask, guardRows, guardAs,
                         committed, stage, note, book, spent, charged, refused, marks>>
      BY <1>2 DEF ErrorRead, NextCandidate, guardVars, finishVars, ledgerVars
    <2> QED
      BY <2>1 DEF TypeOK, Locations
  <1> QED
    BY <1>1, <1>2

LEMMA InitType == Init => TypeOK
  BY DEF Init, TypeOK, Note, ErrorClasses, Locations, Kinds, Outcomes, Stages

LEMMA NextType == TypeOK /\ [Next]_vars => TypeOK'
  <1> SUFFICES ASSUME TypeOK, [Next]_vars PROVE TypeOK'
    OBVIOUS
  <1> USE KindOfAssumption, RoutesAssumption, HasTeamAssumption, BoundsAssumption
  <1>1. CASE UNCHANGED vars
    BY <1>1 DEF TypeOK, vars
  <1>2. CASE Served
    BY <1>2 DEF Served, TypeOK, vars
  <1>3. ASSUME NEW r \in Requests, Reject(r) PROVE TypeOK'
    BY <1>3 DEF Reject, TypeOK, callVars, routeVars, guardVars, ledgerVars, finishVars, Locations, Outcomes
  <1>4. ASSUME NEW r \in Requests, Start(r) PROVE TypeOK'
    BY <1>4 DEF Start, TypeOK, ledgerVars, finishVars, Locations
  <1>5. ASSUME NEW r \in Requests, Skip(r) PROVE TypeOK'
    BY <1>5 DEF Skip, TypeOK, callVars, guardVars, ledgerVars, finishVars
  <1>6. ASSUME NEW r \in Requests, Exhausted(r) PROVE TypeOK'
    BY <1>6 DEF Exhausted, BeginFail, TypeOK, callVars, routeVars, ledgerVars, finishVars, Locations
  <1>7. ASSUME NEW r \in Requests, EmitError(r) PROVE TypeOK'
    BY <1>7 DEF EmitError, BeginFail, TypeOK, callVars, routeVars, ledgerVars, finishVars, Locations
  <1>8. ASSUME NEW r \in Requests, Send(r) PROVE TypeOK'
    <2>1. "send" \in Locations /\ Ask(r, "send")
      BY <1>8 DEF Send, Locations
    <2> QED
      BY <1>8, <2>1, AskType DEF Send, TypeOK, callVars, guardVars, ledgerVars, finishVars
  <1>9. ASSUME NEW r \in Requests, FailInsert(r) PROVE TypeOK'
    <2>1. refused' \in [Requests -> [Sinks -> Nat]]
      BY <1>9, InsertGuardRowType DEF FailInsert
    <2>2. guardRows' \in [Requests -> Nat]
      BY <1>9, InsertGuardRowType DEF FailInsert
    <2> QED
      BY <1>9, <2>1, <2>2 DEF FailInsert, TypeOK, callVars, routeVars, Locations, Outcomes
  <1>10. ASSUME NEW r \in Requests, GuardTaskInsert(r) PROVE TypeOK'
    <2>1. refused' \in [Requests -> [Sinks -> Nat]]
      BY <1>10, InsertGuardRowType DEF GuardTaskInsert
    <2>2. guardRows' \in [Requests -> Nat]
      BY <1>10, InsertGuardRowType DEF GuardTaskInsert
    <2> QED
      BY <1>10, <2>1, <2>2 DEF GuardTaskInsert, TypeOK, callVars, routeVars
  <1>11. ASSUME NEW r \in Requests, SpawnedStart(r) PROVE TypeOK'
    BY <1>11, FinishStartType DEF SpawnedStart, TypeOK, callVars, routeVars, guardVars, Writers
  <1>12. ASSUME NEW r \in Requests, NEW w \in Writers, FinishWrite(r, w) PROVE TypeOK'
    <2> DEFINE s == stage[r][w]
    <2>1. s \in StoreSinks /\ s \in Sinks
      BY <1>12 DEF FinishWrite, Sinks
    <2>2. /\ book \in [Requests -> [Sinks -> Nat]]
          /\ spent \in [Requests -> [Sinks -> Nat]]
          /\ refused \in [Requests -> [Sinks -> Nat]]
          /\ stage \in [Requests -> [Writers -> Stages]]
          /\ note[r][w].tokens \in Nat
          /\ note[r][w].mark \in {"ok", "error", "499"}
      BY DEF TypeOK, Note
    <2>3. AfterSink(r, s) \in Stages
      BY <2>1 DEF AfterSink, Stages, StoreSinks
    <2>4. stage' \in [Requests -> [Writers -> Stages]]
      BY <1>12, <2>2, <2>3 DEF FinishWrite
    <2>5. /\ book' \in [Requests -> [Sinks -> Nat]]
          /\ spent' \in [Requests -> [Sinks -> Nat]]
          /\ refused' \in [Requests -> [Sinks -> Nat]]
      <3>1. CASE /\ book' = [book EXCEPT ![r][s] = book[r][s] + 1]
                 /\ spent' = [spent EXCEPT ![r][s] = spent[r][s] + note[r][w].tokens]
                 /\ UNCHANGED refused
        BY <2>1, <2>2, <3>1
      <3>2. CASE /\ refused' = [refused EXCEPT ![r][s] = refused[r][s] + 1]
                 /\ UNCHANGED <<book, spent>>
        BY <2>1, <2>2, <3>2
      <3> QED
        BY <1>12, <3>1, <3>2 DEF FinishWrite
    <2>6. marks' \in [Requests -> SUBSET {"ok", "error", "499"}]
      <3>1. marks \in [Requests -> SUBSET {"ok", "error", "499"}]
        BY DEF TypeOK
      <3>2. marks[r] \cup {note[r][w].mark} \in SUBSET {"ok", "error", "499"}
        BY <2>2, <3>1
      <3> QED
        BY <1>12, <3>1, <3>2 DEF FinishWrite
    <2> QED
      BY <1>12, <2>4, <2>5, <2>6 DEF FinishWrite, TypeOK, callVars, routeVars, guardVars
  <1>13. ASSUME NEW r \in Requests, NEW w \in Writers, FinishLog(r, w) PROVE TypeOK'
    <2>0. /\ UNCHANGED <<kind, wantStream, route, at, asked, errAs, committed, usage,
                         note, charged, refused, marks, guardRows>>
          /\ pc' \in [Requests -> Locations]
          /\ outcome' \in [Requests -> Outcomes]
          /\ unrecorded' \in [Requests -> BOOLEAN]
          /\ armed' \in [Requests -> BOOLEAN]
          /\ guardTask' \in [Requests -> BOOLEAN]
          /\ guardAs' \in [Requests -> {"none", "status", "499"}]
      <3>1. CASE w = "inline"
        <4>1. DropGuard(r)
          BY <1>13, <3>1 DEF FinishLog
        <4>2. /\ pc' \in [Requests -> Locations]
              /\ outcome' \in [Requests -> Outcomes]
              /\ unrecorded' \in [Requests -> BOOLEAN]
          BY <1>13, <3>1 DEF FinishLog, TypeOK, Locations, Outcomes
        <4>3. UNCHANGED <<kind, wantStream, route, at, asked, errAs, committed, usage,
                          note, charged, refused, marks>>
          BY <1>13 DEF FinishLog, callVars, routeVars
        <4> QED
          BY <4>1, <4>2, <4>3, DropGuardType
      <3>2. CASE w # "inline"
        BY <1>13, <3>2 DEF FinishLog, TypeOK, callVars, routeVars, guardVars
      <3> QED
        BY <3>1, <3>2
    <2>1. /\ "log" \in Sinks
          /\ book \in [Requests -> [Sinks -> Nat]]
          /\ spent \in [Requests -> [Sinks -> Nat]]
          /\ note[r][w].tokens \in Nat
      <3>1. "log" \in Sinks
        BY DEF Sinks
      <3> QED
        BY <3>1 DEF TypeOK, Note
    <2>2. /\ book' \in [Requests -> [Sinks -> Nat]]
          /\ spent' \in [Requests -> [Sinks -> Nat]]
      BY <1>13, <2>1 DEF FinishLog
    <2>3. stage' \in [Requests -> [Writers -> Stages]]
      BY <1>13 DEF FinishLog, TypeOK, Stages
    <2> QED
      BY <2>0, <2>2, <2>3 DEF TypeOK
  <1>14. ASSUME NEW r \in Requests, SendFails(r) PROVE TypeOK'
    <2>1. CASE Ask(r, "resend")
      <3>1. "resend" \in Locations
        BY DEF Locations
      <3> QED
        BY <1>14, <2>1, <3>1, AskType DEF SendFails, TypeOK, callVars, guardVars, ledgerVars, finishVars
    <2>2. CASE NextCandidate(r)
      BY <1>14, <2>2 DEF SendFails, NextCandidate, TypeOK, callVars, guardVars, ledgerVars, finishVars, Locations
    <2> QED
      BY <1>14, <2>1, <2>2 DEF SendFails
  <1>15. ASSUME NEW r \in Requests, AnswerError(r) PROVE TypeOK'
    <2>1. PICK c \in ErrorClasses :
             IF kind[r] = "chat"
               THEN /\ pc' = [pc EXCEPT ![r] = "errbody"]
                    /\ errAs' = [errAs EXCEPT ![r] = c]
                    /\ UNCHANGED <<route, at, asked, guardVars, committed, finishVars>>
               ELSE ErrorRead(r, c) /\ UNCHANGED errAs
      BY <1>15 DEF AnswerError
    <2>2. CASE kind[r] = "chat"
      <3>1. /\ pc' = [pc EXCEPT ![r] = "errbody"]
            /\ errAs' = [errAs EXCEPT ![r] = c]
            /\ UNCHANGED <<kind, wantStream, route, at, asked, armed, guardTask, guardRows,
                           guardAs, committed, usage, unrecorded, stage, note, book,
                           spent, charged, refused, marks, outcome>>
        BY <1>15, <2>1, <2>2 DEF AnswerError, callVars, guardVars, ledgerVars, finishVars
      <3> QED
        BY <3>1 DEF TypeOK, Locations
    <2>3. CASE kind[r] # "chat"
      BY <1>15, <2>1, <2>3, ErrorReadType DEF AnswerError, TypeOK, callVars
    <2> QED
      BY <2>2, <2>3
  <1>16. ASSUME NEW r \in Requests, ErrBodyRead(r) PROVE TypeOK'
    <2>1. errAs[r] \in ErrorClasses
      BY DEF TypeOK
    <2> QED
      BY <1>16, <2>1, ErrorReadType DEF ErrBodyRead, TypeOK, callVars
  <1>17. ASSUME NEW r \in Requests, AnswerStream(r) PROVE TypeOK'
    BY <1>17 DEF AnswerStream, Commit, Disarm, TypeOK, callVars, routeVars, ledgerVars, finishVars, Locations
  <1>18. ASSUME NEW r \in Requests, AnswerFull(r) PROVE TypeOK'
    <2>1. CASE \E u \in 0..MaxTokens : FinishStart(r, "inline", u, "ok")
      <3>1. PICK u \in Nat : FinishStart(r, "inline", u, "ok")
        BY <2>1
      <3>2. "inline" \in Writers
        BY DEF Writers
      <3> QED
        BY <1>18, <3>1, <3>2, FinishStartType DEF AnswerFull, Commit, Disarm, TypeOK, callVars, routeVars, Locations, Outcomes
    <2>2. CASE UNCHANGED finishVars
      BY <1>18, <2>2 DEF AnswerFull, Commit, Disarm, TypeOK, callVars, routeVars, ledgerVars, finishVars, Locations, Outcomes
    <2> QED
      BY <1>18, <2>1, <2>2 DEF AnswerFull
  <1>19. ASSUME NEW r \in Requests, AnswerEmbed(r) PROVE TypeOK'
    <2>1. CASE \E u \in 0..MaxTokens : FinishStart(r, "inline", u, "ok")
      <3>1. PICK u \in Nat : FinishStart(r, "inline", u, "ok")
        BY <2>1
      <3>2. "inline" \in Writers
        BY DEF Writers
      <3> QED
        BY <1>19, <3>1, <3>2, FinishStartType DEF AnswerEmbed, Commit, Disarm, DropGuard, TypeOK, callVars, routeVars, Locations, Outcomes
    <2>2. CASE UNCHANGED finishVars
      BY <1>19, <2>2 DEF AnswerEmbed, Commit, Disarm, DropGuard, TypeOK, callVars, routeVars, ledgerVars, finishVars, Locations, Outcomes
    <2> QED
      BY <1>19, <2>1, <2>2 DEF AnswerEmbed
  <1>20. ASSUME NEW r \in Requests, AnswerMedia(r) PROVE TypeOK'
    BY <1>20, FinishStartType DEF AnswerMedia, Commit, Disarm, TypeOK, callVars, routeVars, Locations, Writers
  <1>21. ASSUME NEW r \in Requests, Chunk(r) PROVE TypeOK'
    BY <1>21 DEF Chunk, TypeOK, callVars, routeVars, guardVars, ledgerVars, finishVars
  <1>22. ASSUME NEW r \in Requests, StreamEnd(r) PROVE TypeOK'
    BY <1>22, FinishStartType DEF StreamEnd, TypeOK, callVars, routeVars, guardVars, Locations, Writers
  <1>23. ASSUME NEW r \in Requests, StreamBreak(r) PROVE TypeOK'
    BY <1>23, FinishStartType DEF StreamBreak, TypeOK, callVars, routeVars, guardVars, Locations, Writers
  <1>24. ASSUME NEW r \in Requests, Hangup(r) PROVE TypeOK'
    BY <1>24 DEF Hangup, DropGuard, DropStream, TypeOK, callVars, routeVars, ledgerVars, Locations, Outcomes, Writers, Stages
  <1> QED
    BY <1>1, <1>2, <1>3, <1>4, <1>5, <1>6, <1>7, <1>8, <1>9, <1>10, <1>11,
       <1>12, <1>13, <1>14, <1>15, <1>16, <1>17, <1>18, <1>19, <1>20, <1>21,
       <1>22, <1>23, <1>24
       DEF Next, Step, GatewayStep, SendReturns

\* Every variable of the turn model keeps its type.
THEOREM TypeCorrect == Spec => []TypeOK
  BY InitType, NextType, PTL DEF Spec

-----------------------------------------------------------------------------
(* A step of one request leaves the state of every other one alone.        *)

Same(q) ==
    /\ pc'[q] = pc[q]
    /\ kind'[q] = kind[q]
    /\ wantStream'[q] = wantStream[q]
    /\ route'[q] = route[q]
    /\ at'[q] = at[q]
    /\ asked'[q] = asked[q]
    /\ armed'[q] = armed[q]
    /\ guardTask'[q] = guardTask[q]
    /\ guardRows'[q] = guardRows[q]
    /\ guardAs'[q] = guardAs[q]
    /\ committed'[q] = committed[q]
    /\ errAs'[q] = errAs[q]
    /\ usage'[q] = usage[q]
    /\ unrecorded'[q] = unrecorded[q]
    /\ stage'[q] = stage[q]
    /\ note'[q] = note[q]
    /\ book'[q] = book[q]
    /\ spent'[q] = spent[q]
    /\ charged'[q] = charged[q]
    /\ refused'[q] = refused[q]
    /\ marks'[q] = marks[q]
    /\ outcome'[q] = outcome[q]

\* The same, of what RecordCtx::finish writes.
SameFiling(q) ==
    /\ stage'[q] = stage[q]
    /\ note'[q] = note[q]
    /\ book'[q] = book[q]
    /\ spent'[q] = spent[q]
    /\ charged'[q] = charged[q]
    /\ refused'[q] = refused[q]
    /\ marks'[q] = marks[q]

LEMMA FinishStartFrame ==
    ASSUME TypeOK, NEW r \in Requests, NEW q \in Requests, q # r,
           NEW w, NEW u, NEW m, FinishStart(r, w, u, m)
    PROVE  SameFiling(q)
  BY DEF FinishStart, SameFiling, TypeOK

LEMMA ErrorReadFrame ==
    ASSUME TypeOK, NEW r \in Requests, NEW q \in Requests, q # r,
           NEW c, ErrorRead(r, c)
    PROVE  /\ SameFiling(q)
           /\ pc'[q] = pc[q]
           /\ at'[q] = at[q]
           /\ armed'[q] = armed[q]
           /\ committed'[q] = committed[q]
           /\ UNCHANGED <<route, asked, guardTask, guardRows, guardAs>>
  <1>1. CASE c = "final"
    BY <1>1, FinishStartFrame DEF ErrorRead, Disarm, TypeOK
  <1>2. CASE c # "final"
    BY <1>2 DEF ErrorRead, NextCandidate, SameFiling, finishVars, ledgerVars, guardVars, TypeOK
  <1> QED
    BY <1>1, <1>2

LEMMA StepFrame ==
    ASSUME TypeOK, NEW r \in Requests, NEW q \in Requests, q # r, Step(r)
    PROVE  Same(q)
  <1>1. CASE Reject(r)
    BY <1>1 DEF TypeOK, Same, Reject, callVars, routeVars, guardVars, ledgerVars, finishVars
  <1>2. CASE Start(r)
    BY <1>2 DEF TypeOK, Same, Start, ledgerVars, finishVars
  <1>3. CASE Skip(r)
    BY <1>3 DEF TypeOK, Same, Skip, callVars, guardVars, ledgerVars, finishVars
  <1>4. CASE Exhausted(r)
    BY <1>4 DEF TypeOK, Same, Exhausted, BeginFail, callVars, routeVars, ledgerVars, finishVars
  <1>5. CASE EmitError(r)
    BY <1>5 DEF TypeOK, Same, EmitError, BeginFail, callVars, routeVars, ledgerVars, finishVars
  <1>6. CASE Send(r)
    BY <1>6 DEF TypeOK, Same, Send, Ask, callVars, guardVars, ledgerVars, finishVars
  <1>7. CASE FailInsert(r)
    BY <1>7 DEF TypeOK, Same, FailInsert, InsertGuardRow, callVars, routeVars
  <1>8. CASE GuardTaskInsert(r)
    BY <1>8 DEF TypeOK, Same, GuardTaskInsert, InsertGuardRow, callVars, routeVars
  <1>9. CASE SpawnedStart(r)
    BY <1>9, FinishStartFrame DEF TypeOK, Same, SpawnedStart, SameFiling, callVars, routeVars, guardVars
  <1>10. ASSUME NEW w \in Writers, FinishWrite(r, w) PROVE Same(q)
    BY <1>10 DEF TypeOK, Same, FinishWrite, callVars, routeVars, guardVars
  <1>11. ASSUME NEW w \in Writers, FinishLog(r, w) PROVE Same(q)
    BY <1>11 DEF TypeOK, Same, FinishLog, DropGuard, callVars, routeVars, guardVars
  <1>12. CASE SendFails(r)
    BY <1>12 DEF TypeOK, Same, SendFails, Ask, NextCandidate, callVars, guardVars, ledgerVars, finishVars
  <1>13. CASE AnswerError(r)
    BY <1>13, ErrorReadFrame DEF TypeOK, Same, AnswerError, SameFiling, callVars, guardVars, ledgerVars, finishVars
  <1>14. CASE ErrBodyRead(r)
    <2>1. ErrorRead(r, errAs[r])
      BY <1>14 DEF ErrBodyRead
    <2>2. UNCHANGED <<kind, wantStream, errAs, usage, unrecorded, outcome>>
      BY <1>14 DEF ErrBodyRead, callVars
    <2> QED
      BY <2>1, <2>2, ErrorReadFrame DEF Same, SameFiling
  <1>15. CASE AnswerStream(r)
    BY <1>15 DEF TypeOK, Same, AnswerStream, Commit, Disarm, callVars, routeVars, ledgerVars, finishVars
  <1>16. CASE AnswerFull(r)
    <2>1. SameFiling(q)
      BY <1>16, FinishStartFrame DEF AnswerFull, SameFiling, ledgerVars, finishVars
    <2>2. UNCHANGED <<kind, wantStream, route, at, asked, errAs, usage, unrecorded>>
      BY <1>16 DEF AnswerFull, callVars, routeVars
    <2> QED
      BY <1>16, <2>1, <2>2 DEF TypeOK, Same, SameFiling, AnswerFull, Commit, Disarm
  <1>17. CASE AnswerEmbed(r)
    <2>1. SameFiling(q)
      BY <1>17, FinishStartFrame DEF AnswerEmbed, SameFiling, ledgerVars, finishVars
    <2>2. UNCHANGED <<kind, wantStream, route, at, asked, errAs, usage, unrecorded>>
      BY <1>17 DEF AnswerEmbed, callVars, routeVars
    <2> QED
      BY <1>17, <2>1, <2>2 DEF TypeOK, Same, SameFiling, AnswerEmbed, Commit, Disarm, DropGuard
  <1>18. CASE AnswerMedia(r)
    BY <1>18, FinishStartFrame DEF TypeOK, Same, AnswerMedia, Commit, Disarm, SameFiling, callVars, routeVars
  <1>19. CASE Chunk(r)
    BY <1>19 DEF TypeOK, Same, Chunk, callVars, routeVars, guardVars, ledgerVars, finishVars
  <1>20. CASE StreamEnd(r)
    BY <1>20, FinishStartFrame DEF TypeOK, Same, StreamEnd, SameFiling, callVars, routeVars, guardVars
  <1>21. CASE StreamBreak(r)
    BY <1>21, FinishStartFrame DEF TypeOK, Same, StreamBreak, SameFiling, callVars, routeVars, guardVars
  <1>22. CASE Hangup(r)
    BY <1>22 DEF TypeOK, Same, Hangup, DropGuard, DropStream, callVars, routeVars, ledgerVars
  <1> QED
    BY <1>1, <1>2, <1>3, <1>4, <1>5, <1>6, <1>7, <1>8, <1>9, <1>10, <1>11, <1>12, <1>13, <1>14, <1>15, <1>16, <1>17, <1>18, <1>19, <1>20, <1>21, <1>22
       DEF Step, GatewayStep, SendReturns

-----------------------------------------------------------------------------
(* One author per turn.                                                    *)

\* Nothing was filed for r by RecordCtx::finish, nor is about to be.
NotFiled(r) ==
    /\ \A s \in Sinks : book[r][s] = 0
    /\ \A w \in Writers : stage[r][w] = "off"
    /\ charged[r] = 0
    /\ ~unrecorded[r]

\* The strengthening of OneAuthor: the guard is armed exactly while dispatch has
\* not committed, and whether an answer was committed decides who may file.
AuthorInv(r) ==
    /\ armed[r] <=> pc[r] \in {"dispatch", "send", "resend", "errbody"}
    /\ pc[r] \in {"idle", "dispatch", "send", "resend", "errbody", "failing"} =>
          ~committed[r] /\ guardRows[r] = 0 /\ ~guardTask[r]
    /\ pc[r] \in {"aggregate", "streaming", "recording"} => committed[r]
    /\ committed[r] => guardRows[r] = 0 /\ ~guardTask[r]
    /\ ~committed[r] => NotFiled(r)
    /\ guardRows[r] <= 1
    /\ guardTask[r] => guardRows[r] = 0

LEMMA InitAuthor == ASSUME Init, NEW q \in Requests PROVE AuthorInv(q)
  BY DEF Init, AuthorInv, NotFiled

LEMMA AuthorFrame ==
    ASSUME NEW q \in Requests, AuthorInv(q), Same(q) PROVE AuthorInv(q)'
  BY DEF AuthorInv, NotFiled, Same

LEMMA StepAuthor ==
    ASSUME TypeOK, NEW r \in Requests, AuthorInv(r), Step(r) PROVE AuthorInv(r)'
  <1>1. CASE Reject(r)
    BY <1>1 DEF AuthorInv, TypeOK, Reject, NotFiled, callVars, routeVars, guardVars, ledgerVars, finishVars
  <1>2. CASE Start(r)
    BY <1>2 DEF AuthorInv, TypeOK, Start, NotFiled, ledgerVars, finishVars
  <1>3. CASE Skip(r)
    BY <1>3 DEF AuthorInv, TypeOK, Skip, NotFiled, callVars, guardVars, ledgerVars, finishVars
  <1>4. CASE Exhausted(r)
    BY <1>4 DEF AuthorInv, TypeOK, Exhausted, NotFiled, BeginFail, ledgerVars, finishVars
  <1>5. CASE EmitError(r)
    BY <1>5 DEF AuthorInv, TypeOK, EmitError, NotFiled, BeginFail, ledgerVars, finishVars
  <1>6. CASE Send(r)
    BY <1>6 DEF AuthorInv, TypeOK, Send, NotFiled, Ask, guardVars, ledgerVars, finishVars
  <1>7. CASE FailInsert(r)
    BY <1>7 DEF AuthorInv, TypeOK, FailInsert, NotFiled, InsertGuardRow
  <1>8. CASE GuardTaskInsert(r)
    BY <1>8 DEF AuthorInv, TypeOK, GuardTaskInsert, NotFiled, InsertGuardRow
  <1>9. CASE SpawnedStart(r)
    BY <1>9 DEF AuthorInv, TypeOK, SpawnedStart, NotFiled, guardVars, Writers
  <1>10. ASSUME NEW w \in Writers, FinishWrite(r, w) PROVE AuthorInv(r)'
    BY <1>10 DEF AuthorInv, TypeOK, FinishWrite, NotFiled, guardVars, StoreSinks
  <1>11. ASSUME NEW w \in Writers, FinishLog(r, w) PROVE AuthorInv(r)'
    BY <1>11 DEF AuthorInv, TypeOK, FinishLog, NotFiled, DropGuard, guardVars
  <1>12. CASE SendFails(r)
    BY <1>12 DEF AuthorInv, TypeOK, SendFails, NotFiled, Ask, NextCandidate, guardVars, ledgerVars, finishVars
  <1>13. CASE AnswerError(r)
    BY <1>13 DEF AuthorInv, TypeOK, AnswerError, NotFiled, ErrorRead, Disarm, NextCandidate, guardVars, ledgerVars, finishVars
  <1>14. CASE ErrBodyRead(r)
    BY <1>14 DEF AuthorInv, TypeOK, ErrBodyRead, NotFiled, ErrorRead, Disarm, NextCandidate, guardVars, ledgerVars, finishVars
  <1>15. CASE AnswerStream(r)
    BY <1>15 DEF AuthorInv, TypeOK, AnswerStream, Commit, Disarm
  <1>16. CASE AnswerFull(r)
    BY <1>16 DEF AuthorInv, TypeOK, AnswerFull, Commit, Disarm
  <1>17. CASE AnswerEmbed(r)
    BY <1>17 DEF AuthorInv, TypeOK, AnswerEmbed, NotFiled, Commit, Disarm, DropGuard, ledgerVars, finishVars
  <1>18. CASE AnswerMedia(r)
    BY <1>18 DEF AuthorInv, TypeOK, AnswerMedia, Commit, Disarm
  <1>19. CASE Chunk(r)
    BY <1>19 DEF AuthorInv, TypeOK, Chunk, Reading, NotFiled, guardVars, ledgerVars, finishVars
  <1>20. CASE StreamEnd(r)
    BY <1>20 DEF AuthorInv, TypeOK, StreamEnd, Reading, guardVars
  <1>21. CASE StreamBreak(r)
    BY <1>21 DEF AuthorInv, TypeOK, StreamBreak, Reading, guardVars
  <1>22. CASE Hangup(r)
    BY <1>22 DEF AuthorInv, TypeOK, Hangup, NotFiled, DropGuard, DropStream, Awaits, ledgerVars, Writers
  <1> QED
    BY <1>1, <1>2, <1>3, <1>4, <1>5, <1>6, <1>7, <1>8, <1>9, <1>10, <1>11, <1>12, <1>13, <1>14, <1>15, <1>16, <1>17, <1>18, <1>19, <1>20, <1>21, <1>22
       DEF Step, GatewayStep, SendReturns

LEMMA NextAuthor ==
    ASSUME TypeOK, [Next]_vars, \A q \in Requests : AuthorInv(q)
    PROVE  \A q \in Requests : AuthorInv(q)'
  <1> TAKE q \in Requests
  <1>1. CASE \E r \in Requests : Step(r)
    <2>1. PICK r \in Requests : Step(r)
      BY <1>1
    <2>2. CASE q = r
      BY <2>1, <2>2, StepAuthor
    <2>3. CASE q # r
      BY <2>1, <2>3, StepFrame, AuthorFrame
    <2> QED
      BY <2>2, <2>3
  <1>2. CASE UNCHANGED vars
    BY <1>2, AuthorFrame DEF vars, Same
  <1> QED
    BY <1>1, <1>2 DEF Next, Served

\* The TurnGuard and RecordCtx::finish never both file a turn, and the guard
\* files at most one row, for any number of requests and candidates.
THEOREM OneAuthorHolds == Spec => []OneAuthor
  <1>1. Init => \A q \in Requests : AuthorInv(q)
    BY InitAuthor
  <1>2. TypeOK /\ (\A q \in Requests : AuthorInv(q)) /\ [Next]_vars
           => (\A q \in Requests : AuthorInv(q))'
    BY NextAuthor
  <1>3. TypeOK /\ (\A q \in Requests : AuthorInv(q)) => OneAuthor
    BY DEF AuthorInv, NotFiled, OneAuthor, TypeOK
  <1> QED
    BY <1>1, <1>2, <1>3, TypeCorrect, PTL DEF Spec

-----------------------------------------------------------------------------
(* Failover in the order of the route.                                     *)

\* The strengthening of AskedInOrder: a route has no duplicates, the candidate
\* dispatch has come to was not asked yet, and one being waited for was.
AskInv(r) ==
    /\ \A i, j \in 1..Len(route[r]) : route[r][i] = route[r][j] => i = j
    /\ \A i \in 1..Len(route[r]) :
          /\ KindOf[route[r][i]] # kind[r] => asked[r][route[r][i]] = 0
          /\ i > at[r] => asked[r][route[r][i]] = 0
          /\ KindOf[route[r][i]] = kind[r] /\ i < at[r] => asked[r][route[r][i]] >= 1
          /\ asked[r][route[r][i]] <= (IF kind[r] = "embed" THEN 2 ELSE 1)
    /\ pc[r] = "idle" => at[r] = 1 /\ \A d \in Deployments : asked[r][d] = 0
    /\ pc[r] = "dispatch" /\ HasCandidate(r) => asked[r][Candidate(r)] = 0
    /\ pc[r] \in {"send", "resend", "errbody"} =>
          /\ HasCandidate(r)
          /\ KindOf[Candidate(r)] = kind[r]
          /\ asked[r][Candidate(r)] >= 1
    /\ pc[r] = "send" => asked[r][Candidate(r)] = 1

LEMMA InitAsk == ASSUME Init, NEW q \in Requests PROVE AskInv(q)
  BY DEF Init, AskInv, HasCandidate

LEMMA AskFrame ==
    ASSUME NEW q \in Requests, AskInv(q), Same(q) PROVE AskInv(q)'
  BY DEF AskInv, Same, HasCandidate, Candidate

\* A step that does not move the dispatch loop.
SameDispatch(r) ==
    /\ kind'[r] = kind[r]
    /\ route'[r] = route[r]
    /\ at'[r] = at[r]
    /\ asked'[r] = asked[r]
    /\ pc'[r] \in Locations
    /\ pc'[r] = pc[r] \/ pc'[r] \notin {"idle", "dispatch", "send", "resend", "errbody"}

LEMMA AskStays ==
    ASSUME NEW r \in Requests, AskInv(r), SameDispatch(r) PROVE AskInv(r)'
  BY DEF AskInv, SameDispatch, HasCandidate, Candidate

\* Going on to the next candidate keeps the order, if the present one was asked
\* or is of another universe.
LEMMA AskAdvances ==
    ASSUME TypeOK, NEW r \in Requests, AskInv(r), HasCandidate(r),
           kind'[r] = kind[r], route'[r] = route[r], asked'[r] = asked[r],
           at'[r] = at[r] + 1, pc'[r] = "dispatch",
           KindOf[Candidate(r)] = kind[r] => asked[r][Candidate(r)] >= 1
    PROVE  AskInv(r)'
  <1>1. at[r] \in Nat \ {0} /\ Len(route[r]) \in Nat
    BY DEF TypeOK
  <1>2. \A i \in 1..Len(route[r]) :
           /\ i > at[r] + 1 => i > at[r]
           /\ i < at[r] + 1 => i < at[r] \/ i = at[r]
    BY <1>1
  <1>3. \A i \in 1..Len(route[r]) :
           /\ i > at[r] + 1 => asked[r][route[r][i]] = 0
           /\ KindOf[route[r][i]] = kind[r] /\ i < at[r] + 1 =>
                 asked[r][route[r][i]] >= 1
    <2> TAKE i \in 1..Len(route[r])
    <2>1. i > at[r] + 1 => asked[r][route[r][i]] = 0
      BY <1>2 DEF AskInv
    <2>2. ASSUME KindOf[route[r][i]] = kind[r], i < at[r]
          PROVE  asked[r][route[r][i]] >= 1
      BY <2>2 DEF AskInv
    <2>3. ASSUME KindOf[route[r][i]] = kind[r], i = at[r]
          PROVE  asked[r][route[r][i]] >= 1
      BY <2>3 DEF Candidate
    <2> QED
      BY <1>2, <2>1, <2>2, <2>3
  <1>4. ASSUME HasCandidate(r)' PROVE asked'[r][Candidate(r)'] = 0
    <2>1. at[r] + 1 \in 1..Len(route[r]) /\ at[r] + 1 > at[r]
      BY <1>1, <1>4 DEF HasCandidate
    <2>2. Candidate(r)' = route[r][at[r] + 1]
      BY DEF Candidate
    <2> QED
      BY <2>1, <2>2 DEF AskInv
  <1>5. /\ \A i, j \in 1..Len(route[r]) : route[r][i] = route[r][j] => i = j
        /\ \A i \in 1..Len(route[r]) :
              /\ KindOf[route[r][i]] # kind[r] => asked[r][route[r][i]] = 0
              /\ asked[r][route[r][i]] <= (IF kind[r] = "embed" THEN 2 ELSE 1)
    BY DEF AskInv
  <1> QED
    BY <1>3, <1>4, <1>5 DEF AskInv

\* Giving up a candidate that was asked keeps the order.
LEMMA AskMovesOn ==
    ASSUME TypeOK, NEW r \in Requests, AskInv(r), kind'[r] = kind[r],
           pc[r] \in {"send", "resend", "errbody"}, NextCandidate(r)
    PROVE  AskInv(r)'
  <1>1. /\ route'[r] = route[r]
        /\ asked'[r] = asked[r]
        /\ at'[r] = at[r] + 1
        /\ pc'[r] = "dispatch"
    BY DEF NextCandidate, TypeOK
  <1>2. HasCandidate(r) /\ asked[r][Candidate(r)] >= 1
    BY DEF AskInv
  <1> QED
    BY <1>1, <1>2, AskAdvances

\* So does asking the candidate dispatch has come to, or an embedding's again.
LEMMA AskCounts ==
    ASSUME TypeOK, NEW r \in Requests, AskInv(r), kind'[r] = kind[r],
           HasCandidate(r), KindOf[Candidate(r)] = kind[r],
           NEW loc \in {"send", "resend"}, Ask(r, loc),
           \/ pc[r] = "dispatch" /\ loc = "send"
           \/ pc[r] = "send" /\ loc = "resend" /\ kind[r] = "embed"
    PROVE  AskInv(r)'
  <1> DEFINE c == Candidate(r)
  <1>1. /\ c \in Deployments
        /\ at[r] \in 1..Len(route[r])
        /\ c = route[r][at[r]]
    BY DEF HasCandidate, Candidate, TypeOK
  <1>2. /\ asked'[r] = [asked[r] EXCEPT ![c] = asked[r][c] + 1]
        /\ asked[r] \in [Deployments -> Nat]
        /\ pc'[r] = loc
        /\ route'[r] = route[r]
        /\ at'[r] = at[r]
    BY DEF Ask, TypeOK
  <1>3. \A i \in 1..Len(route[r]) :
           asked'[r][route[r][i]] =
              IF i = at[r] THEN asked[r][route[r][i]] + 1 ELSE asked[r][route[r][i]]
    <2> TAKE i \in 1..Len(route[r])
    <2>1. route[r][i] \in Deployments
      BY DEF TypeOK
    <2>2. route[r][i] = c <=> i = at[r]
      BY <1>1 DEF AskInv
    <2> QED
      BY <1>2, <2>1, <2>2
  <1>4. asked'[r][c] = asked[r][c] + 1
    BY <1>1, <1>2
  <1>5. /\ HasCandidate(r)'
        /\ Candidate(r)' = c
    BY <1>2 DEF HasCandidate, Candidate
  <1>6. asked[r][c] = IF loc = "send" THEN 0 ELSE 1
    BY <1>1 DEF AskInv
  <1> QED
    BY <1>1, <1>2, <1>3, <1>4, <1>5, <1>6 DEF AskInv

LEMMA StepAsk ==
    ASSUME TypeOK, TypeOK', NEW r \in Requests, AskInv(r), Step(r) PROVE AskInv(r)'
  <1>1. ASSUME Reject(r) PROVE SameDispatch(r)
    BY <1>1 DEF SameDispatch, TypeOK, Reject, callVars, routeVars
  <1>2. ASSUME Exhausted(r) PROVE SameDispatch(r)
    BY <1>2 DEF SameDispatch, TypeOK, Exhausted, BeginFail, callVars, routeVars
  <1>3. ASSUME EmitError(r) PROVE SameDispatch(r)
    BY <1>3 DEF SameDispatch, TypeOK, EmitError, BeginFail, callVars, routeVars
  <1>4. ASSUME FailInsert(r) PROVE SameDispatch(r)
    BY <1>4 DEF SameDispatch, TypeOK, FailInsert, callVars, routeVars
  <1>5. ASSUME GuardTaskInsert(r) PROVE SameDispatch(r)
    BY <1>5 DEF SameDispatch, TypeOK, GuardTaskInsert, callVars, routeVars
  <1>6. ASSUME SpawnedStart(r) PROVE SameDispatch(r)
    BY <1>6 DEF SameDispatch, TypeOK, SpawnedStart, callVars, routeVars
  <1>7. ASSUME NEW w \in Writers, FinishWrite(r, w) PROVE SameDispatch(r)
    BY <1>7 DEF SameDispatch, TypeOK, FinishWrite, callVars, routeVars
  <1>8. ASSUME NEW w \in Writers, FinishLog(r, w) PROVE SameDispatch(r)
    BY <1>8 DEF SameDispatch, TypeOK, FinishLog, callVars, routeVars
  <1>9. ASSUME AnswerStream(r) PROVE SameDispatch(r)
    BY <1>9 DEF SameDispatch, TypeOK, AnswerStream, callVars, routeVars
  <1>10. ASSUME AnswerFull(r) PROVE SameDispatch(r)
    BY <1>10 DEF SameDispatch, TypeOK, AnswerFull, callVars, routeVars
  <1>11. ASSUME AnswerEmbed(r) PROVE SameDispatch(r)
    BY <1>11 DEF SameDispatch, TypeOK, AnswerEmbed, callVars, routeVars
  <1>12. ASSUME AnswerMedia(r) PROVE SameDispatch(r)
    BY <1>12 DEF SameDispatch, TypeOK, AnswerMedia, callVars, routeVars
  <1>13. ASSUME Chunk(r) PROVE SameDispatch(r)
    BY <1>13 DEF SameDispatch, TypeOK, Chunk, callVars, routeVars
  <1>14. ASSUME StreamEnd(r) PROVE SameDispatch(r)
    BY <1>14 DEF SameDispatch, TypeOK, StreamEnd, callVars, routeVars
  <1>15. ASSUME StreamBreak(r) PROVE SameDispatch(r)
    BY <1>15 DEF SameDispatch, TypeOK, StreamBreak, callVars, routeVars
  <1>16. ASSUME Hangup(r) PROVE SameDispatch(r)
    BY <1>16 DEF SameDispatch, TypeOK, Hangup, callVars, routeVars
  <1>17. CASE Start(r)
    <2>1. PICK c \in Routes : route' = [route EXCEPT ![r] = c]
      BY <1>17 DEF Start
    <2>2. \A i, j \in 1..Len(c) : c[i] = c[j] => i = j
      BY RoutesAssumption
    <2>3. /\ route'[r] = c
          /\ c \in Seq(Deployments)
          /\ at'[r] = 1
          /\ asked'[r] = asked[r]
          /\ \A d \in Deployments : asked[r][d] = 0
          /\ pc'[r] = "dispatch"
      BY <1>17, <2>1, RoutesAssumption DEF Start, AskInv, TypeOK
    <2>4. \A i \in 1..Len(c) : asked'[r][c[i]] = 0
      BY <2>3
    <2> QED
      BY <2>2, <2>3, <2>4 DEF AskInv, HasCandidate, Candidate
  <1>18. CASE Skip(r)
    <2>1. /\ HasCandidate(r) /\ KindOf[Candidate(r)] # kind[r]
          /\ kind'[r] = kind[r]
          /\ route'[r] = route[r]
          /\ asked'[r] = asked[r]
          /\ at'[r] = at[r] + 1
          /\ pc'[r] = "dispatch"
      BY <1>18 DEF Skip, callVars, TypeOK
    <2> QED
      BY <2>1, AskAdvances
  <1>19. CASE Send(r)
    <2>1. kind'[r] = kind[r]
      BY <1>19 DEF Send, callVars
    <2> QED
      BY <1>19, <2>1, AskCounts DEF Send
  <1>20. CASE SendFails(r)
    <2>1. kind'[r] = kind[r] /\ pc[r] \in {"send", "resend", "errbody"}
      BY <1>20 DEF SendFails, callVars
    <2>2. HasCandidate(r) /\ KindOf[Candidate(r)] = kind[r]
      BY <2>1 DEF AskInv
    <2> QED
      BY <1>20, <2>1, <2>2, AskCounts, AskMovesOn DEF SendFails
  <1>21. ASSUME NEW c \in ErrorClasses, ErrorRead(r, c), kind'[r] = kind[r],
              pc[r] \in {"send", "resend", "errbody"}
       PROVE  AskInv(r)'
    <2>1. CASE c = "final"
      BY <1>21, <2>1, AskStays DEF SameDispatch, ErrorRead, TypeOK
    <2>2. CASE c # "final"
      BY <1>21, <2>2, AskMovesOn DEF ErrorRead
    <2> QED
      BY <2>1, <2>2
  <1>22. CASE AnswerError(r)
    <2>1. kind'[r] = kind[r] /\ pc[r] \in {"send", "resend", "errbody"}
      BY <1>22 DEF AnswerError, callVars
    <2>2. CASE kind[r] = "chat"
      <3>1. /\ route'[r] = route[r] /\ at'[r] = at[r] /\ asked'[r] = asked[r]
            /\ pc'[r] = "errbody"
        BY <1>22, <2>2 DEF AnswerError, TypeOK
      <3> QED
        BY <2>1, <3>1 DEF AskInv, HasCandidate, Candidate
    <2>3. CASE kind[r] # "chat"
      BY <1>21, <1>22, <2>1, <2>3 DEF AnswerError
    <2> QED
      BY <2>2, <2>3
  <1>23. CASE ErrBodyRead(r)
    <2>1. errAs[r] \in ErrorClasses /\ kind'[r] = kind[r]
      BY <1>23 DEF ErrBodyRead, callVars, TypeOK
    <2> QED
      BY <1>21, <1>23, <2>1 DEF ErrBodyRead
  <1> QED
    BY <1>1, <1>2, <1>3, <1>4, <1>5, <1>6, <1>7, <1>8, <1>9, <1>10, <1>11, <1>12, <1>13, <1>14, <1>15, <1>16, <1>17, <1>18, <1>19, <1>20, <1>21, <1>22, <1>23,
       AskStays DEF Step, GatewayStep, SendReturns

\* Failover asks the candidates of the turn's universe in the order of the
\* route, each before the next and none twice but an embedding's.
THEOREM AskedInOrderHolds == Spec => []AskedInOrder
  <1> DEFINE I == \A q \in Requests : AskInv(q)
  <1>1. Init => I
    BY InitAsk
  <1>2. TypeOK /\ TypeOK' /\ I /\ [Next]_vars => I'
    <2> SUFFICES ASSUME TypeOK, TypeOK', I, [Next]_vars, NEW q \in Requests
                 PROVE  AskInv(q)'
      OBVIOUS
    <2>1. CASE UNCHANGED vars
      BY <2>1, AskFrame DEF vars, Same
    <2>2. ASSUME NEW r \in Requests, Step(r) PROVE AskInv(q)'
      <3>1. CASE q = r
        BY <2>2, <3>1, StepAsk
      <3>2. CASE q # r
        BY <2>2, <3>2, StepFrame, AskFrame
      <3> QED
        BY <3>1, <3>2
    <2> QED
      BY <2>1, <2>2 DEF Next, Served
  <1>3. I => AskedInOrder
    BY DEF AskInv, AskedInOrder
  <1> QED
    BY <1>1, <1>2, <1>3, TypeCorrect, PTL DEF Spec

-----------------------------------------------------------------------------
(* A committed turn is over only when it was filed, or its client left.    *)

\* The books of r are empty.
Blank(r) ==
    /\ \A s \in Sinks : book[r][s] = 0 /\ spent[r][s] = 0 /\ refused[r][s] = 0
    /\ charged[r] = 0
    /\ marks[r] = {}

\* Sink s of r has had its one write, or the store refused it.
FiledIn(r, s) ==
    /\ book[r][s] + refused[r][s] = 1
    /\ spent[r][s] = IF book[r][s] = 1 THEN charged[r] ELSE 0

\* Sinks an inline finish at stage st still has to write to.
Ahead(st) ==
    CASE st = "telemetry" -> Sinks \ {"observer"}
      [] st = "key"       -> {"key", "user", "team", "log"}
      [] st = "user"      -> {"user", "team", "log"}
      [] st = "team"      -> {"team", "log"}
      [] OTHER            -> {"log"}

\* The strengthening of AnsweredIsFiledOnce: only a finish the client waits for
\* runs inline, it started from empty books, and each sink behind it is filed.
FileInv(r) ==
    /\ outcome[r] # "none" <=> pc[r] = "done"
    /\ pc[r] # "recording" => stage[r]["inline"] = "off"
    /\ pc[r] # "done" => stage[r]["spawned"] = "off"
    /\ pc[r] \notin {"recording", "done"} => Blank(r)
    /\ pc[r] = "recording" =>
          /\ stage[r]["inline"] \in StoreSinks \cup {"log"}
          /\ stage[r]["inline"] = "team" => HasTeam[r]
          /\ \A s \in SinksOf(r) :
                IF s \in Ahead(stage[r]["inline"])
                  THEN book[r][s] = 0 /\ refused[r][s] = 0 /\ spent[r][s] = 0
                  ELSE FiledIn(r, s)
          /\ charged[r] = note[r]["inline"].tokens
          /\ marks[r] \subseteq {note[r]["inline"].mark}
    /\ outcome[r] = "answered" =>
          /\ committed[r]
          /\ stage[r]["spawned"] = "off"
          /\ \A s \in SinksOf(r) : FiledIn(r, s)
          /\ marks[r] \subseteq {"ok"}

LEMMA InitFile == ASSUME Init, NEW q \in Requests PROVE FileInv(q)
  BY DEF Init, FileInv, Blank, Writers

LEMMA FileFrame ==
    ASSUME NEW q \in Requests, FileInv(q), Same(q) PROVE FileInv(q)'
  BY DEF FileInv, Blank, FiledIn, Same

\* A finish that starts inline from empty books.
LEMMA FileStarts ==
    ASSUME TypeOK, NEW r \in Requests, FileInv(r),
           pc[r] \notin {"recording", "done"}, NEW u \in Nat,
           NEW m \in {"ok", "error"}, FinishStart(r, "inline", u, m),
           pc'[r] = "recording", outcome'[r] = outcome[r]
    PROVE  FileInv(r)'
  <1>1. /\ stage'[r]["inline"] = "telemetry"
        /\ stage'[r]["spawned"] = "off"
        /\ note'[r]["inline"].tokens = u
        /\ charged'[r] = u
        /\ refused'[r] = refused[r]
        /\ marks'[r] = {}
    BY DEF FinishStart, TypeOK, FileInv, Blank, Writers, Note
  <1>2. /\ book'[r] = [book[r] EXCEPT !["observer"] = 1]
        /\ spent'[r] = [spent[r] EXCEPT !["observer"] = u]
    <2>1. "observer" \in Sinks
      BY DEF Sinks
    <2>2. book[r]["observer"] = 0 /\ spent[r]["observer"] = 0
      BY <2>1 DEF FileInv, Blank
    <2> QED
      BY <2>2 DEF FinishStart, TypeOK
  <1>3. \A s \in SinksOf(r) :
           IF s \in Ahead("telemetry")
             THEN book'[r][s] = 0 /\ refused'[r][s] = 0 /\ spent'[r][s] = 0
             ELSE FiledIn(r, s)'
    <2> TAKE s \in SinksOf(r)
    <2>1. s \in Sinks /\ (s \in Ahead("telemetry") <=> s # "observer")
      BY DEF SinksOf, Ahead
    <2>2. book[r][s] = 0 /\ spent[r][s] = 0 /\ refused[r][s] = 0
      BY <2>1 DEF FileInv, Blank
    <2> QED
      BY <1>1, <1>2, <2>1, <2>2 DEF FiledIn, TypeOK
  <1> QED
    BY <1>1, <1>3 DEF FileInv, StoreSinks

\* A step before the finish that leaves the books alone.
LEMMA FileWaits ==
    ASSUME NEW r \in Requests, FileInv(r), UNCHANGED finishVars,
           pc[r] \notin {"recording", "done"},
           pc'[r] # "recording",
           \/ pc'[r] # "done" /\ outcome'[r] = outcome[r]
           \/ pc'[r] = "done" /\ outcome'[r] \in {"rejected", "error", "gone"}
    PROVE  FileInv(r)'
  BY DEF FileInv, Blank, FiledIn, finishVars, ledgerVars

\* One write of an inline finish files its sink and moves to the next one.
LEMMA FileWrites ==
    ASSUME TypeOK, NEW r \in Requests, FileInv(r), FinishWrite(r, "inline")
    PROVE  FileInv(r)'
  <1>0. PICK s \in Stages, n \in Note : s = stage[r]["inline"] /\ n = note[r]["inline"]
    BY DEF TypeOK, Writers
  <1>1. s \in StoreSinks /\ s \in Sinks /\ pc[r] = "recording"
    BY <1>0 DEF FinishWrite, FileInv, Sinks, StoreSinks
  <1>2. /\ pc'[r] = pc[r] /\ outcome'[r] = outcome[r] /\ note'[r] = note[r]
        /\ charged'[r] = charged[r]
    BY DEF FinishWrite
  <1>3. /\ stage'[r]["inline"] = AfterSink(r, s)
        /\ stage'[r]["spawned"] = stage[r]["spawned"]
    BY <1>0 DEF FinishWrite, TypeOK, Writers
  <1>4. s \in SinksOf(r) /\ s \in Ahead(s)
    BY <1>0, <1>1 DEF SinksOf, Ahead, StoreSinks, Sinks, FileInv
  <1>5. book[r][s] = 0 /\ refused[r][s] = 0 /\ spent[r][s] = 0
    BY <1>0, <1>1, <1>4 DEF FileInv
  <1>6. n.tokens \in Nat /\ charged[r] = n.tokens
    BY <1>0, <1>1 DEF FileInv, Note
  <1>7. FiledIn(r, s)' /\ \A x \in Sinks \ {s} : /\ book'[r][x] = book[r][x]
                                                  /\ spent'[r][x] = spent[r][x]
                                                  /\ refused'[r][x] = refused[r][x]
    <2>1. CASE /\ book' = [book EXCEPT ![r][s] = book[r][s] + 1]
               /\ spent' = [spent EXCEPT ![r][s] = spent[r][s] + n.tokens]
               /\ UNCHANGED refused
      <3>1. /\ book'[r][s] = 1 /\ spent'[r][s] = n.tokens /\ refused'[r][s] = 0
            /\ \A x \in Sinks \ {s} : /\ book'[r][x] = book[r][x]
                                      /\ spent'[r][x] = spent[r][x]
                                      /\ refused'[r][x] = refused[r][x]
        BY <1>1, <1>5, <1>6, <2>1 DEF TypeOK
      <3> QED
        BY <1>2, <1>6, <3>1 DEF FiledIn
    <2>2. CASE /\ refused' = [refused EXCEPT ![r][s] = refused[r][s] + 1]
               /\ UNCHANGED <<book, spent>>
      <3>1. /\ book'[r][s] = 0 /\ spent'[r][s] = 0 /\ refused'[r][s] = 1
            /\ \A x \in Sinks \ {s} : /\ book'[r][x] = book[r][x]
                                      /\ spent'[r][x] = spent[r][x]
                                      /\ refused'[r][x] = refused[r][x]
        BY <1>1, <1>5, <2>2 DEF TypeOK
      <3> QED
        BY <3>1 DEF FiledIn
    <2> QED
      BY <1>0, <2>1, <2>2 DEF FinishWrite
  <1>8. marks'[r] \subseteq {n.mark}
    <2>1. marks[r] \subseteq {n.mark}
      BY <1>0, <1>1 DEF FileInv
    <2>2. marks'[r] \in {marks[r], marks[r] \cup {n.mark}}
      BY <1>0 DEF FinishWrite, TypeOK
    <2> QED
      BY <2>1, <2>2
  <1>9. \A x \in SinksOf(r) : x \in Ahead(AfterSink(r, s)) <=> x \in Ahead(s) /\ x # s
    BY <1>1 DEF SinksOf, Sinks, StoreSinks, Ahead, AfterSink
  <1>10. \A x \in SinksOf(r) :
            IF x \in Ahead(AfterSink(r, s))
              THEN book'[r][x] = 0 /\ refused'[r][x] = 0 /\ spent'[r][x] = 0
              ELSE FiledIn(r, x)'
    <2> TAKE x \in SinksOf(r)
    <2>1. x \in Sinks
      BY DEF SinksOf
    <2>2. CASE x = s
      BY <1>7, <1>9, <2>2
    <2>3. CASE x # s
      <3>1. /\ book'[r][x] = book[r][x]
            /\ spent'[r][x] = spent[r][x]
            /\ refused'[r][x] = refused[r][x]
        BY <1>7, <2>1, <2>3
      <3>2. IF x \in Ahead(s)
              THEN book[r][x] = 0 /\ refused[r][x] = 0 /\ spent[r][x] = 0
              ELSE FiledIn(r, x)
        BY <1>0, <1>1 DEF FileInv
      <3> QED
        BY <1>2, <1>9, <2>3, <3>1, <3>2 DEF FiledIn
    <2> QED
      BY <2>2, <2>3
  <1>11. /\ AfterSink(r, s) \in StoreSinks \cup {"log"}
         /\ AfterSink(r, s) = "team" => HasTeam[r]
    BY <1>1 DEF AfterSink, StoreSinks
  <1> QED
    BY <1>0, <1>1, <1>2, <1>3, <1>6, <1>8, <1>10, <1>11 DEF FileInv

\* The last step of an inline finish: every sink is filed.
LEMMA FileEnds ==
    ASSUME TypeOK, NEW r \in Requests, AuthorInv(r), FileInv(r), FinishLog(r, "inline")
    PROVE  FileInv(r)'
  <1>1. pc[r] = "recording" /\ stage[r]["inline"] = "log" /\ committed[r]
    BY DEF FinishLog, FileInv, AuthorInv
  <1>2. /\ pc'[r] = "done"
        /\ outcome'[r] = IF note[r]["inline"].mark = "ok" THEN "answered" ELSE "error"
        /\ stage'[r]["inline"] = "off"
        /\ stage'[r]["spawned"] = "off"
        /\ charged'[r] = charged[r] /\ refused'[r] = refused[r] /\ marks'[r] = marks[r]
        /\ committed'[r]
    BY <1>1 DEF FinishLog, FileInv, TypeOK, Writers
  <1>3. "log" \in Sinks /\ "log" \in SinksOf(r)
    BY DEF Sinks, SinksOf
  <1>4. book[r]["log"] = 0 /\ refused[r]["log"] = 0 /\ spent[r]["log"] = 0
    BY <1>1, <1>3 DEF FileInv, Ahead
  <1>5. charged[r] = note[r]["inline"].tokens /\ charged[r] \in Nat
    BY <1>1 DEF FileInv, TypeOK
  <1>6. /\ book'[r]["log"] = 1 /\ spent'[r]["log"] = charged[r]
        /\ \A x \in Sinks \ {"log"} : /\ book'[r][x] = book[r][x]
                                      /\ spent'[r][x] = spent[r][x]
    <2>1. book' = [book EXCEPT ![r]["log"] = book[r]["log"] + 1]
      BY DEF FinishLog
    <2>2. spent' = [spent EXCEPT ![r]["log"] = spent[r]["log"] + charged[r]]
      BY <1>5 DEF FinishLog
    <2>3. book \in [Requests -> [Sinks -> Nat]] /\ spent \in [Requests -> [Sinks -> Nat]]
      BY DEF TypeOK
    <2>4. book'[r]["log"] = 1 /\ spent'[r]["log"] = charged[r]
      BY <1>3, <1>4, <1>5, <2>1, <2>2, <2>3
    <2>5. ASSUME NEW x \in Sinks \ {"log"}
          PROVE  book'[r][x] = book[r][x] /\ spent'[r][x] = spent[r][x]
      BY <2>1, <2>2, <2>3
    <2> QED
      BY <2>4, <2>5
  <1>7. \A x \in SinksOf(r) : FiledIn(r, x)'
    <2> TAKE x \in SinksOf(r)
    <2>1. x \in Sinks
      BY DEF SinksOf
    <2>2. CASE x = "log"
      BY <1>2, <1>4, <1>6, <2>2 DEF FiledIn
    <2>3. CASE x # "log"
      <3>1. FiledIn(r, x)
        BY <1>1, <2>3 DEF FileInv, Ahead
      <3>2. book'[r][x] = book[r][x] /\ spent'[r][x] = spent[r][x]
        BY <1>6, <2>1, <2>3
      <3> QED
        BY <1>2, <3>1, <3>2 DEF FiledIn
    <2> QED
      BY <2>2, <2>3
  <1>8. marks[r] \subseteq {note[r]["inline"].mark}
    BY <1>1 DEF FileInv
  <1> QED
    BY <1>2, <1>7, <1>8 DEF FileInv

\* A turn that is over and was not answered owes nothing more.
LEMMA FileOver ==
    ASSUME NEW r \in Requests, pc'[r] = "done", stage'[r]["inline"] = "off",
           outcome'[r] \in {"rejected", "error", "gone"}
    PROVE  FileInv(r)'
  BY DEF FileInv

\* What the error of a final answer does before its books are opened.
LEMMA FileErrorRead ==
    ASSUME TypeOK, NEW r \in Requests, FileInv(r), NEW c \in ErrorClasses,
           ErrorRead(r, c), pc[r] \in {"send", "resend", "errbody"},
           outcome'[r] = outcome[r]
    PROVE  FileInv(r)'
  <1>1. CASE c = "final"
    <2>1. FinishStart(r, "inline", 0, "error") /\ pc'[r] = "recording"
      BY <1>1 DEF ErrorRead, TypeOK
    <2> QED
      BY <2>1, FileStarts
  <1>2. CASE c # "final"
    <2>1. UNCHANGED finishVars /\ pc'[r] = "dispatch"
      BY <1>2 DEF ErrorRead, NextCandidate, TypeOK
    <2> QED
      BY <2>1, FileWaits
  <1> QED
    BY <1>1, <1>2

LEMMA StepFile ==
    ASSUME TypeOK, NEW r \in Requests, AuthorInv(r), FileInv(r), Step(r)
    PROVE  FileInv(r)'
  <1>1. CASE Reject(r)
    <2>1. pc[r] = "idle" /\ pc'[r] = "done" /\ outcome'[r] = "rejected" /\ UNCHANGED finishVars
      BY <1>1 DEF Reject, TypeOK
    <2> QED
      BY <2>1, FileWaits
  <1>2. CASE Start(r)
    <2>1. pc[r] = "idle" /\ pc'[r] = "dispatch" /\ outcome'[r] = outcome[r] /\ UNCHANGED finishVars
      BY <1>2 DEF Start, TypeOK
    <2> QED
      BY <2>1, FileWaits
  <1>3. CASE Skip(r)
    <2>1. pc[r] = "dispatch" /\ pc'[r] = pc[r] /\ outcome'[r] = outcome[r] /\ UNCHANGED finishVars
      BY <1>3 DEF Skip
    <2> QED
      BY <2>1, FileWaits
  <1>4. CASE Exhausted(r) \/ EmitError(r)
    <2>1. pc[r] = "dispatch" /\ pc'[r] = "failing" /\ outcome'[r] = outcome[r] /\ UNCHANGED finishVars
      BY <1>4 DEF Exhausted, EmitError, BeginFail, TypeOK
    <2> QED
      BY <2>1, FileWaits
  <1>5. CASE Send(r)
    <2>1. pc[r] = "dispatch" /\ pc'[r] = "send" /\ outcome'[r] = outcome[r] /\ UNCHANGED finishVars
      BY <1>5 DEF Send, Ask, TypeOK
    <2> QED
      BY <2>1, FileWaits
  <1>6. CASE FailInsert(r)
    <2>1. pc[r] = "failing" /\ pc'[r] = "done" /\ outcome'[r] = "error" /\ stage'[r] = stage[r]
      BY <1>6 DEF FailInsert, TypeOK
    <2>2. stage[r]["inline"] = "off"
      BY <2>1 DEF FileInv
    <2> QED
      BY <2>1, <2>2, FileOver
  <1>7. CASE GuardTaskInsert(r)
    <2>1. /\ guardTask[r] /\ pc'[r] = pc[r] /\ outcome'[r] = outcome[r]
          /\ stage'[r] = stage[r]
      BY <1>7 DEF GuardTaskInsert
    <2>2. pc[r] = "done" /\ outcome[r] # "answered"
      BY <2>1 DEF AuthorInv, FileInv, TypeOK, Locations
    <2>3. outcome[r] \in {"rejected", "error", "gone"} /\ stage[r]["inline"] = "off"
      BY <2>2 DEF FileInv, TypeOK, Outcomes
    <2> QED
      BY <2>1, <2>2, <2>3, FileOver
  <1>8. ASSUME stage[r]["spawned"] # "off"
        PROVE  /\ pc[r] = "done" /\ outcome[r] \in {"rejected", "error", "gone"}
               /\ stage[r]["inline"] = "off"
    BY <1>8 DEF FileInv, TypeOK, Outcomes
  <1>9. CASE SpawnedStart(r)
    <2>1. /\ pc'[r] = pc[r] /\ outcome'[r] = outcome[r] /\ stage[r]["spawned"] = "start"
          /\ stage'[r]["inline"] = stage[r]["inline"]
      BY <1>9 DEF SpawnedStart, FinishStart, TypeOK, Writers
    <2> QED
      BY <1>8, <2>1, FileOver
  <1>10. CASE FinishWrite(r, "spawned")
    <2>1. /\ pc'[r] = pc[r] /\ outcome'[r] = outcome[r] /\ stage[r]["spawned"] # "off"
          /\ stage'[r]["inline"] = stage[r]["inline"]
      BY <1>10 DEF FinishWrite, StoreSinks, TypeOK, Writers
    <2> QED
      BY <1>8, <2>1, FileOver
  <1>11. CASE FinishLog(r, "spawned")
    <2>1. /\ pc'[r] = pc[r] /\ outcome'[r] = outcome[r] /\ stage[r]["spawned"] # "off"
          /\ stage'[r]["inline"] = stage[r]["inline"]
      BY <1>11 DEF FinishLog, TypeOK, Writers
    <2> QED
      BY <1>8, <2>1, FileOver
  <1>12. CASE SendFails(r)
    <2>1. /\ pc[r] \in {"send", "resend"} /\ pc'[r] \in {"resend", "dispatch"}
          /\ outcome'[r] = outcome[r] /\ UNCHANGED finishVars
      BY <1>12 DEF SendFails, Ask, NextCandidate, TypeOK
    <2> QED
      BY <2>1, FileWaits
  <1>13. CASE AnswerError(r)
    <2>1. pc[r] \in {"send", "resend", "errbody"} /\ outcome'[r] = outcome[r]
      BY <1>13 DEF AnswerError
    <2>2. CASE kind[r] = "chat"
      <3>1. pc'[r] = "errbody" /\ UNCHANGED finishVars
        BY <1>13, <2>2 DEF AnswerError, TypeOK
      <3> QED
        BY <2>1, <3>1, FileWaits
    <2>3. CASE kind[r] # "chat"
      BY <1>13, <2>1, <2>3, FileErrorRead DEF AnswerError
    <2> QED
      BY <2>2, <2>3
  <1>14. CASE ErrBodyRead(r)
    <2>1. /\ pc[r] = "errbody" /\ outcome'[r] = outcome[r] /\ errAs[r] \in ErrorClasses
          /\ ErrorRead(r, errAs[r])
      BY <1>14 DEF ErrBodyRead, TypeOK
    <2> QED
      BY <2>1, FileErrorRead
  <1>15. CASE AnswerStream(r)
    <2>1. /\ pc[r] = "send" /\ pc'[r] \in {"streaming", "aggregate"}
          /\ outcome'[r] = outcome[r] /\ UNCHANGED finishVars
      BY <1>15 DEF AnswerStream, TypeOK
    <2> QED
      BY <2>1, FileWaits
  <1>16. ASSUME pc[r] \in {"send", "resend", "aggregate", "streaming"},
                NEW u \in Nat, NEW m \in {"ok", "error"},
                FinishStart(r, "inline", u, m),
                pc' = [pc EXCEPT ![r] = "recording"], UNCHANGED outcome
         PROVE  FileInv(r)'
    <2>1. pc'[r] = "recording" /\ outcome'[r] = outcome[r]
      BY <1>16 DEF TypeOK
    <2> QED
      BY <1>16, <2>1, FileStarts
  <1>17. ASSUME pc[r] \in {"send", "resend"}, pc' = [pc EXCEPT ![r] = "done"],
                outcome' = [outcome EXCEPT ![r] = "error"], UNCHANGED finishVars
         PROVE  FileInv(r)'
    <2>1. pc'[r] = "done" /\ outcome'[r] = "error"
      BY <1>17 DEF TypeOK
    <2> QED
      BY <1>17, <2>1, FileWaits
  <1>18. \A u \in 0..MaxTokens : u \in Nat
    BY BoundsAssumption
  <1>19. CASE AnswerFull(r)
    BY <1>16, <1>17, <1>18, <1>19 DEF AnswerFull
  <1>20. CASE AnswerEmbed(r)
    BY <1>16, <1>17, <1>18, <1>20 DEF AnswerEmbed
  <1>21. CASE AnswerMedia(r)
    BY <1>16, <1>21 DEF AnswerMedia
  <1>22. CASE Chunk(r)
    <2>1. /\ pc[r] \in {"aggregate", "streaming"} /\ pc'[r] = pc[r]
          /\ outcome'[r] = outcome[r] /\ UNCHANGED finishVars
      BY <1>22 DEF Chunk, Reading
    <2> QED
      BY <2>1, FileWaits
  <1>23. CASE StreamEnd(r)
    <2>1. usage[r] \in Nat
      BY DEF TypeOK
    <2> QED
      BY <1>16, <1>23, <2>1 DEF StreamEnd, Reading
  <1>24. CASE StreamBreak(r)
    <2>1. usage[r] \in Nat
      BY DEF TypeOK
    <2> QED
      BY <1>16, <1>24, <2>1 DEF StreamBreak, Reading
  <1>25. CASE Hangup(r)
    <2>1. pc'[r] = "done" /\ outcome'[r] = "gone" /\ stage'[r]["inline"] = "off"
      BY <1>25 DEF Hangup, DropStream, TypeOK
    <2> QED
      BY <2>1, FileOver
  <1>26. ASSUME NEW w \in Writers, FinishWrite(r, w) \/ FinishLog(r, w)
         PROVE  FileInv(r)'
    BY <1>10, <1>11, <1>26, FileWrites, FileEnds DEF Writers
  <1> QED
    BY <1>1, <1>2, <1>3, <1>4, <1>5, <1>6, <1>7, <1>9, <1>12, <1>13, <1>14,
       <1>15, <1>19, <1>20, <1>21, <1>22, <1>23, <1>24, <1>25, <1>26
       DEF Step, GatewayStep, SendReturns

\* The books are right in every reachable state.
LEMMA BooksKept == Spec => [](\A q \in Requests : AuthorInv(q) /\ FileInv(q))
  <1> DEFINE I == \A q \in Requests : AuthorInv(q) /\ FileInv(q)
  <1>1. Init => I
    BY InitAuthor, InitFile
  <1>2. TypeOK /\ I /\ [Next]_vars => I'
    <2> SUFFICES ASSUME TypeOK, I, [Next]_vars, NEW q \in Requests
                 PROVE  AuthorInv(q)' /\ FileInv(q)'
      OBVIOUS
    <2>1. CASE UNCHANGED vars
      BY <2>1, AuthorFrame, FileFrame DEF vars, Same
    <2>2. ASSUME NEW r \in Requests, Step(r) PROVE AuthorInv(q)' /\ FileInv(q)'
      <3>1. CASE q = r
        BY <2>2, <3>1, StepAuthor, StepFile
      <3>2. CASE q # r
        BY <2>2, <3>2, StepFrame, AuthorFrame, FileFrame
      <3> QED
        BY <3>1, <3>2
    <2> QED
      BY <2>1, <2>2 DEF Next, Served
  <1> QED
    BY <1>1, <1>2, TypeCorrect, PTL DEF Spec

\* An answered turn is in every book once, for the tokens its meter was
\* charged, but for the writes the store refused.
THEOREM AnsweredIsFiledOnceHolds == Spec => []AnsweredIsFiledOnce
  <1>1. (\A q \in Requests : AuthorInv(q) /\ FileInv(q)) => AnsweredIsFiledOnce
    BY DEF AuthorInv, FileInv, FiledIn, AnsweredIsFiledOnce
  <1> QED
    BY <1>1, BooksKept, PTL

-----------------------------------------------------------------------------
\* Once an answer was committed to, or the turn is over, no upstream is asked.
THEOREM NoAskAfterCommitHolds == Spec => NoAskAfterCommit
  <1> DEFINE I == \A q \in Requests : AuthorInv(q) /\ FileInv(q)
             A == \A r \in Requests :
                     committed[r] \/ outcome[r] # "none" => asked'[r] = asked[r]
  <1>1. TypeOK /\ I /\ [Next]_vars => [A]_vars
    <2> SUFFICES ASSUME TypeOK, I, Next, NEW q \in Requests,
                        committed[q] \/ outcome[q] # "none"
                 PROVE  asked'[q] = asked[q]
      OBVIOUS
    <2>1. pc[q] \notin {"dispatch", "send", "resend", "errbody"}
      BY DEF AuthorInv, FileInv
    <2>2. ASSUME NEW r \in Requests, Step(r) PROVE asked'[q] = asked[q]
      <3>1. CASE q # r
        BY <2>2, <3>1, StepFrame DEF Same
      <3>2. CASE q = r
        <4>1. CASE Reject(r) \/ Start(r) \/ Chunk(r) \/ StreamEnd(r) \/ StreamBreak(r) \/ Hangup(r)
          BY <4>1, <3>2 DEF Reject, Start, Chunk, StreamEnd, StreamBreak, Hangup, routeVars
        <4>2. CASE GatewayStep(r)
          BY <2>1, <3>2, <4>2 DEF GatewayStep, Skip, Exhausted, EmitError, Send, FailInsert,
             GuardTaskInsert, SpawnedStart, FinishWrite, FinishLog, routeVars
        <4>3. CASE SendReturns(r) \/ ErrBodyRead(r)
          BY <2>1, <3>2, <4>3 DEF SendReturns, SendFails, AnswerError, AnswerStream, AnswerFull,
             AnswerEmbed, AnswerMedia, ErrBodyRead
        <4> QED
          BY <2>2, <4>1, <4>2, <4>3 DEF Step
      <3> QED
        BY <3>1, <3>2
    <2>3. CASE UNCHANGED vars
      BY <2>3 DEF vars
    <2> QED
      BY <2>2, <2>3 DEF Next, Served
  <1> QED
    BY <1>1, BooksKept, TypeCorrect, PTL DEF Spec, NoAskAfterCommit


-----------------------------------------------------------------------------
(* Twice only when the client of a stream left.                            *)

\* The strengthening of FiledTwiceOnlyOnHangup: a StreamState not yet recorded
\* is one the client asked for, only a hang-up spawns a finish, that finish
\* files a 499, and until it has written its row there is at most one.
TwiceInv(r) ==
    /\ unrecorded[r] => wantStream[r] /\ pc[r] \in {"streaming", "recording"}
    /\ stage[r]["spawned"] # "off" => outcome[r] = "gone" /\ wantStream[r]
    /\ stage[r]["spawned"] \in {"start", "telemetry"} => book[r]["telemetry"] <= 1
    /\ stage[r]["spawned"] \in StoreSinks \cup {"log"} =>
          note[r]["spawned"].mark = "499"
    /\ book[r]["telemetry"] <= 2
    /\ book[r]["telemetry"] = 2 =>
          outcome[r] = "gone" /\ wantStream[r] /\ "499" \in marks[r]


\* No turn is filed or streamed at first.
LEMMA InitTwice == ASSUME Init, NEW q \in Requests PROVE TwiceInv(q)
  <1>1. "telemetry" \in Sinks /\ "spawned" \in Writers
    BY DEF Sinks, StoreSinks, Writers
  <1> QED
    BY <1>1 DEF Init, TwiceInv, StoreSinks

\* A step of another request leaves it so.
LEMMA TwiceFrame ==
    ASSUME NEW q \in Requests, TwiceInv(q), Same(q) PROVE TwiceInv(q)'
  BY DEF TwiceInv, Same

\* Only the rows of telemetry, the spawned finish and the StreamState matter.
SameRows(r) ==
    /\ book'[r]["telemetry"] = book[r]["telemetry"]
    /\ marks'[r] = marks[r]
    /\ stage'[r]["spawned"] = stage[r]["spawned"]
    /\ note'[r]["spawned"] = note[r]["spawned"]
    /\ wantStream'[r] = wantStream[r]

\* A step that leaves them alone, and does not end the turn of an open
\* StreamState, keeps the invariant.
LEMMA TwiceStays ==
    ASSUME NEW r \in Requests, TwiceInv(r), SameRows(r),
           outcome[r] = "gone" => outcome'[r] = "gone",
           unrecorded'[r] => wantStream'[r] /\ pc'[r] \in {"streaming", "recording"}
    PROVE  TwiceInv(r)'
  BY DEF TwiceInv, SameRows

\* What runs of a finish before its first await writes no row of telemetry.
LEMMA StartsNoRow ==
    ASSUME TypeOK, NEW r \in Requests, NEW w \in Writers, NEW u, NEW m,
           FinishStart(r, w, u, m)
    PROVE  /\ book'[r]["telemetry"] = book[r]["telemetry"]
           /\ marks'[r] = marks[r]
  <1>1. "telemetry" \in Sinks /\ "telemetry" # "observer"
    BY DEF Sinks, StoreSinks
  <1> QED
    BY <1>1 DEF FinishStart, TypeOK

\* A finish that starts inline touches neither the rows nor the spawned one.
LEMMA InlineStarts ==
    ASSUME TypeOK, NEW r \in Requests, NEW u, NEW m,
           FinishStart(r, "inline", u, m), wantStream'[r] = wantStream[r]
    PROVE  SameRows(r)
  <1>1. "inline" \in Writers /\ "spawned" \in Writers
    BY DEF Writers
  <1>2. /\ stage'[r]["spawned"] = stage[r]["spawned"]
        /\ note'[r]["spawned"] = note[r]["spawned"]
    BY <1>1 DEF FinishStart, TypeOK
  <1> QED
    BY <1>1, <1>2, StartsNoRow DEF SameRows

\* A step that leaves RecordCtx::finish alone.
LEMMA NoFinishRows ==
    ASSUME NEW r \in Requests, UNCHANGED finishVars, wantStream'[r] = wantStream[r]
    PROVE  SameRows(r)
  BY DEF SameRows, finishVars, ledgerVars

\* One write of the finish StreamState::drop spawned: its row of telemetry is
\* the second one at most, and marked 499.
LEMMA SpawnedWrites ==
    ASSUME TypeOK, NEW r \in Requests, TwiceInv(r), FinishWrite(r, "spawned")
    PROVE  TwiceInv(r)'
  <1>0. "telemetry" \in Sinks /\ "spawned" \in Writers
    BY DEF Sinks, StoreSinks, Writers
  <1>1. PICK s \in Stages, n \in Note : s = stage[r]["spawned"] /\ n = note[r]["spawned"]
    BY <1>0 DEF TypeOK
  <1>2. s \in StoreSinks /\ s \in Sinks
    BY <1>1 DEF FinishWrite, Sinks
  <1>3. /\ outcome[r] = "gone" /\ wantStream[r] /\ n.mark = "499"
    BY <1>1, <1>2 DEF TwiceInv, StoreSinks
  <1>4. /\ outcome'[r] = outcome[r] /\ wantStream'[r] = wantStream[r]
        /\ pc'[r] = pc[r] /\ unrecorded'[r] = unrecorded[r] /\ note'[r] = note[r]
    BY DEF FinishWrite, callVars
  <1>5. /\ stage'[r]["spawned"] = AfterSink(r, s)
        /\ AfterSink(r, s) \in {"key", "user", "team", "log"}
    BY <1>0, <1>1, <1>2 DEF FinishWrite, TypeOK, AfterSink, StoreSinks
  <1>6. book[r] \in [Sinks -> Nat] /\ book[r]["telemetry"] \in Nat
    BY <1>0 DEF TypeOK
  <1>7. /\ book'[r]["telemetry"] <= 2
        /\ book'[r]["telemetry"] = 2 => "499" \in marks'[r]
    <2>1. CASE /\ book' = [book EXCEPT ![r][s] = book[r][s] + 1]
               /\ marks' = [marks EXCEPT ![r] =
                               IF s = "telemetry" THEN marks[r] \cup {n.mark} ELSE marks[r]]
      <3>1. CASE s = "telemetry"
        <4>1. book[r]["telemetry"] <= 1
          BY <1>1, <3>1 DEF TwiceInv
        <4>2. book'[r]["telemetry"] = book[r]["telemetry"] + 1
          BY <1>0, <1>6, <2>1, <3>1 DEF TypeOK
        <4>3. "499" \in marks'[r]
          BY <1>3, <2>1, <3>1 DEF TypeOK
        <4> QED
          BY <1>6, <4>1, <4>2, <4>3
      <3>2. CASE s # "telemetry"
        <4>1. book'[r]["telemetry"] = book[r]["telemetry"] /\ marks'[r] = marks[r]
          BY <1>0, <1>2, <2>1, <3>2 DEF TypeOK
        <4> QED
          BY <4>1 DEF TwiceInv
      <3> QED
        BY <3>1, <3>2
    <2>2. CASE UNCHANGED <<book, marks>>
      BY <2>2 DEF TwiceInv
    <2> QED
      BY <1>1, <2>1, <2>2 DEF FinishWrite
  <1> QED
    BY <1>1, <1>3, <1>4, <1>5, <1>7 DEF TwiceInv

\* One write of an inline finish: its row of telemetry is the first one.
LEMMA InlineWrites ==
    ASSUME TypeOK, NEW r \in Requests, FileInv(r), TwiceInv(r), FinishWrite(r, "inline")
    PROVE  TwiceInv(r)'
  <1>0. "telemetry" \in Sinks /\ "spawned" \in Writers /\ "inline" \in Writers
    BY DEF Sinks, StoreSinks, Writers
  <1>1. PICK s \in Stages, n \in Note : s = stage[r]["inline"] /\ n = note[r]["inline"]
    BY <1>0 DEF TypeOK
  <1>2. s \in StoreSinks /\ s \in Sinks
    BY <1>1 DEF FinishWrite, Sinks
  <1>3. pc[r] = "recording" /\ stage[r]["spawned"] = "off"
    BY <1>1, <1>2 DEF FileInv, StoreSinks
  <1>4. /\ outcome'[r] = outcome[r] /\ wantStream'[r] = wantStream[r]
        /\ pc'[r] = pc[r] /\ unrecorded'[r] = unrecorded[r] /\ note'[r] = note[r]
    BY DEF FinishWrite, callVars
  <1>5. stage'[r]["spawned"] = "off"
    BY <1>0, <1>3 DEF FinishWrite, TypeOK
  <1>6. book[r] \in [Sinks -> Nat] /\ book[r]["telemetry"] \in Nat
    BY <1>0 DEF TypeOK
  <1>7. "telemetry" \in SinksOf(r)
    BY <1>0 DEF SinksOf
  <1>8. book[r]["telemetry"] <= 1 /\ (s = "telemetry" => book[r]["telemetry"] = 0)
    <2>1. CASE "telemetry" \in Ahead(s)
      <3>1. book[r]["telemetry"] = 0
        BY <1>1, <1>3, <1>7, <2>1 DEF FileInv
      <3> QED
        BY <3>1
    <2>2. CASE "telemetry" \notin Ahead(s)
      <3>1. s # "telemetry"
        BY <1>0, <2>2 DEF Ahead
      <3>2. FiledIn(r, "telemetry")
        BY <1>1, <1>3, <1>7, <2>2 DEF FileInv
      <3>3. refused[r]["telemetry"] \in Nat
        BY <1>0 DEF TypeOK
      <3> QED
        BY <1>6, <3>1, <3>2, <3>3 DEF FiledIn
    <2> QED
      BY <2>1, <2>2
  <1>9. book'[r]["telemetry"] <= 1
    <2>1. CASE book' = [book EXCEPT ![r][s] = book[r][s] + 1]
      <3>1. book'[r]["telemetry"] = book[r]["telemetry"] + (IF s = "telemetry" THEN 1 ELSE 0)
        BY <1>0, <1>2, <1>6, <2>1 DEF TypeOK
      <3> QED
        BY <1>6, <1>8, <3>1
    <2>2. CASE UNCHANGED book
      BY <1>8, <2>2
    <2> QED
      BY <1>1, <2>1, <2>2 DEF FinishWrite
  <1>10. book'[r]["telemetry"] \in Nat
    BY <1>0, <1>1, <1>2, <1>6 DEF FinishWrite, TypeOK
  <1> QED
    BY <1>4, <1>5, <1>9, <1>10 DEF TwiceInv, StoreSinks


\* Every step of a request's handler, stream and tasks keeps it so.
LEMMA StepTwice ==
    ASSUME TypeOK, NEW r \in Requests, AuthorInv(r), FileInv(r), TwiceInv(r), Step(r)
    PROVE  TwiceInv(r)'
  <1>0. /\ "telemetry" \in Sinks /\ "log" \in Sinks
        /\ "inline" \in Writers /\ "spawned" \in Writers
    BY DEF Sinks, StoreSinks, Writers
  <1>1. ASSUME pc[r] \notin {"streaming", "recording"} PROVE ~unrecorded[r]
    BY <1>1 DEF TwiceInv
  <1>2. ASSUME pc[r] # "done" PROVE outcome[r] # "gone"
    BY <1>2 DEF FileInv
  <1>3. ASSUME SameRows(r), pc[r] \notin {"streaming", "recording", "done"},
               UNCHANGED unrecorded
        PROVE  TwiceInv(r)'
    BY <1>1, <1>2, <1>3, TwiceStays
  <1>4. CASE Reject(r) \/ Skip(r) \/ Exhausted(r) \/ EmitError(r) \/ Send(r) \/ SendFails(r)
    <2>1. /\ UNCHANGED finishVars /\ wantStream'[r] = wantStream[r] /\ UNCHANGED unrecorded
          /\ pc[r] \in {"idle", "dispatch", "send", "resend"}
      BY <1>4 DEF Reject, Skip, Exhausted, EmitError, Send, SendFails, callVars
    <2> QED
      BY <1>3, <2>1, NoFinishRows
  <1>5. CASE Start(r)
    <2>1. /\ UNCHANGED finishVars /\ unrecorded' = unrecorded /\ outcome' = outcome
          /\ pc[r] = "idle"
      BY <1>5 DEF Start
    <2>2. book[r]["telemetry"] = 0 /\ stage[r]["spawned"] = "off"
      BY <1>0, <2>1 DEF FileInv, Blank
    <2>3. book'[r]["telemetry"] = 0 /\ stage'[r]["spawned"] = "off"
      BY <2>1, <2>2 DEF finishVars, ledgerVars
    <2>4. ~unrecorded'[r]
      BY <1>1, <2>1
    <2> QED
      BY <2>3, <2>4 DEF TwiceInv, StoreSinks
  <1>6. CASE FailInsert(r)
    <2>1. /\ book' = book /\ stage' = stage /\ note' = note /\ marks' = marks
          /\ wantStream' = wantStream /\ UNCHANGED unrecorded /\ pc[r] = "failing"
      BY <1>6 DEF FailInsert, callVars
    <2> QED
      BY <1>3, <2>1 DEF SameRows
  <1>7. CASE GuardTaskInsert(r)
    <2>1. /\ book' = book /\ stage' = stage /\ note' = note /\ marks' = marks
          /\ wantStream' = wantStream /\ unrecorded' = unrecorded
          /\ outcome' = outcome /\ pc' = pc
      BY <1>7 DEF GuardTaskInsert, callVars
    <2> QED
      BY <2>1 DEF TwiceInv
  <1>8. CASE SpawnedStart(r)
    <2>1. /\ stage[r]["spawned"] = "start" /\ FinishStart(r, "spawned", usage[r], "499")
          /\ pc' = pc /\ wantStream' = wantStream /\ unrecorded' = unrecorded
          /\ outcome' = outcome
      BY <1>8 DEF SpawnedStart, callVars
    <2>2. /\ stage'[r]["spawned"] = "telemetry"
          /\ note'[r]["spawned"].mark = "499"
      BY <1>0, <2>1 DEF FinishStart, TypeOK
    <2>3. book'[r]["telemetry"] = book[r]["telemetry"] /\ marks'[r] = marks[r]
      BY <1>0, <2>1, StartsNoRow
    <2> QED
      BY <2>1, <2>2, <2>3 DEF TwiceInv
  <1>9. ASSUME NEW w \in Writers, FinishWrite(r, w) PROVE TwiceInv(r)'
    BY <1>9, SpawnedWrites, InlineWrites DEF Writers
  <1>10. ASSUME NEW w \in Writers, FinishLog(r, w)
         PROVE  /\ book'[r]["telemetry"] = book[r]["telemetry"]
                /\ stage'[r][w] = "off"
                /\ \A x \in Writers \ {w} : stage'[r][x] = stage[r][x]
                /\ note' = note /\ marks' = marks /\ wantStream' = wantStream
    <2>1. "telemetry" # "log"
      OBVIOUS
    <2> QED
      BY <1>0, <1>10, <2>1 DEF FinishLog, TypeOK, callVars
  <1>11. CASE FinishLog(r, "inline")
    <2>1. SameRows(r)
      BY <1>0, <1>10, <1>11 DEF SameRows
    <2>2. pc[r] = "recording"
      BY <1>11 DEF FinishLog, FileInv
    <2>3. ~unrecorded'[r]
      BY <1>11 DEF FinishLog, TypeOK
    <2> QED
      BY <1>2, <2>1, <2>2, <2>3, TwiceStays
  <1>12. CASE FinishLog(r, "spawned")
    <2>1. /\ stage'[r]["spawned"] = "off"
          /\ book'[r]["telemetry"] = book[r]["telemetry"]
          /\ marks' = marks /\ wantStream' = wantStream
      BY <1>0, <1>10, <1>12
    <2>2. pc' = pc /\ outcome' = outcome /\ unrecorded' = unrecorded
      BY <1>12 DEF FinishLog
    <2> QED
      BY <2>1, <2>2 DEF TwiceInv, StoreSinks
  <1>13. ASSUME NEW c \in ErrorClasses, ErrorRead(r, c), wantStream' = wantStream
         PROVE  SameRows(r)
    BY <1>13, InlineStarts, NoFinishRows DEF ErrorRead
  <1>14. CASE AnswerError(r) \/ ErrBodyRead(r)
    <2>1. /\ pc[r] \in {"send", "resend", "errbody"} /\ wantStream' = wantStream
          /\ UNCHANGED unrecorded
      BY <1>14 DEF AnswerError, ErrBodyRead, callVars
    <2>2. errAs[r] \in ErrorClasses
      BY DEF TypeOK
    <2>3. SameRows(r)
      <3>1. CASE UNCHANGED finishVars
        BY <2>1, <3>1, NoFinishRows
      <3>2. CASE \E c \in ErrorClasses : ErrorRead(r, c)
        BY <1>13, <2>1, <3>2
      <3> QED
        BY <1>14, <2>2, <3>1, <3>2 DEF AnswerError, ErrBodyRead
    <2> QED
      BY <1>3, <2>1, <2>3
  <1>15. CASE AnswerStream(r)
    <2>1. /\ pc[r] = "send" /\ wantStream' = wantStream /\ UNCHANGED finishVars
          /\ unrecorded'[r] = wantStream[r]
          /\ pc'[r] = IF wantStream[r] THEN "streaming" ELSE "aggregate"
      BY <1>15 DEF AnswerStream, callVars, TypeOK
    <2>2. SameRows(r)
      BY <2>1, NoFinishRows
    <2> QED
      BY <1>2, <2>1, <2>2, TwiceStays
  <1>16. CASE AnswerFull(r) \/ AnswerEmbed(r) \/ AnswerMedia(r)
    <2>1. /\ pc[r] \in {"send", "resend"} /\ wantStream' = wantStream
          /\ UNCHANGED unrecorded
      BY <1>16 DEF AnswerFull, AnswerEmbed, AnswerMedia, callVars
    <2>2. SameRows(r)
      <3>1. CASE UNCHANGED finishVars
        BY <2>1, <3>1, NoFinishRows
      <3>2. ASSUME NEW u, FinishStart(r, "inline", u, "ok") PROVE SameRows(r)
        BY <2>1, <3>2, InlineStarts
      <3> QED
        BY <1>16, <3>1, <3>2 DEF AnswerFull, AnswerEmbed, AnswerMedia
    <2> QED
      BY <1>3, <2>1, <2>2
  <1>17. CASE Chunk(r)
    <2>1. /\ UNCHANGED finishVars /\ wantStream' = wantStream /\ pc' = pc
          /\ unrecorded' = unrecorded /\ outcome' = outcome
      BY <1>17 DEF Chunk, callVars
    <2>2. SameRows(r)
      BY <2>1, NoFinishRows
    <2>3. unrecorded'[r] => wantStream'[r] /\ pc'[r] \in {"streaming", "recording"}
      BY <2>1 DEF TwiceInv
    <2> QED
      BY <2>1, <2>2, <2>3, TwiceStays
  <1>18. CASE StreamEnd(r) \/ StreamBreak(r)
    <2>1. /\ wantStream' = wantStream /\ pc'[r] = "recording"
          /\ unrecorded' = unrecorded /\ outcome' = outcome
      BY <1>18 DEF StreamEnd, StreamBreak, callVars, TypeOK
    <2>2. SameRows(r)
      BY <1>18, <2>1, InlineStarts DEF StreamEnd, StreamBreak
    <2>3. unrecorded'[r] => wantStream'[r] /\ pc'[r] \in {"streaming", "recording"}
      BY <2>1 DEF TwiceInv
    <2> QED
      BY <2>1, <2>2, <2>3, TwiceStays
  <1>19. CASE Hangup(r)
    <2>1. /\ wantStream' = wantStream /\ book' = book /\ marks' = marks /\ note' = note
          /\ outcome'[r] = "gone"
          /\ ~unrecorded'[r] /\ pc[r] # "done"
          /\ stage'[r]["spawned"] = IF unrecorded[r] THEN "start" ELSE stage[r]["spawned"]
      BY <1>19 DEF Hangup, DropStream, callVars, ledgerVars, Awaits, TypeOK
    <2>2. stage[r]["spawned"] = "off"
      BY <2>1 DEF FileInv
    <2>3. book[r]["telemetry"] <= 1
      <3>1. book[r]["telemetry"] \in Nat /\ book[r]["telemetry"] # 2
        BY <1>0, <1>2, <2>1 DEF TwiceInv, TypeOK
      <3> QED
        BY <3>1 DEF TwiceInv
    <2>4. unrecorded[r] => wantStream[r]
      BY DEF TwiceInv
    <2>5. book[r]["telemetry"] \in Nat
      BY <1>0 DEF TypeOK
    <2> QED
      BY <2>1, <2>2, <2>3, <2>4, <2>5 DEF TwiceInv, StoreSinks
  <1> QED
    BY <1>4, <1>5, <1>6, <1>7, <1>8, <1>9, <1>11, <1>12, <1>14, <1>15, <1>16,
       <1>17, <1>18, <1>19 DEF Step, GatewayStep, SendReturns, Writers

\* Only a stream whose client hung up is filed twice by RecordCtx::finish, the
\* second time as a 499, and no turn is filed three times.
THEOREM FiledTwiceOnlyOnHangupHolds == Spec => []FiledTwiceOnlyOnHangup
  <1> DEFINE B == \A q \in Requests : AuthorInv(q) /\ FileInv(q)
             I == \A q \in Requests : TwiceInv(q)
  <1>1. Init => I
    BY InitTwice
  <1>2. TypeOK /\ B /\ I /\ [Next]_vars => I'
    <2> SUFFICES ASSUME TypeOK, B, I, [Next]_vars, NEW q \in Requests
                 PROVE  TwiceInv(q)'
      OBVIOUS
    <2>1. CASE UNCHANGED vars
      BY <2>1, TwiceFrame DEF vars, Same
    <2>2. ASSUME NEW r \in Requests, Step(r) PROVE TwiceInv(q)'
      <3>1. CASE q = r
        BY <2>2, <3>1, StepTwice
      <3>2. CASE q # r
        BY <2>2, <3>2, StepFrame, TwiceFrame
      <3> QED
        BY <3>1, <3>2
    <2> QED
      BY <2>1, <2>2 DEF Next, Served
  <1>3. I => FiledTwiceOnlyOnHangup
    BY DEF TwiceInv, FiledTwiceOnlyOnHangup
  <1> QED
    BY <1>1, <1>2, <1>3, BooksKept, TypeCorrect, PTL DEF Spec

=============================================================================
