------------------------- MODULE BotRuntime_proofs -------------------------
(***************************************************************************)
(* Proofs about BotRuntime, for any number of updates of any kinds, any    *)
(* PollLimit and any number of deaths and failures.                        *)
(***************************************************************************)
EXTENDS BotRuntime, TLAPS

InHand == pc \in {"handling", "replying", "saving"}

\* The process goes on right after the last committed update.
OffsetInv ==
  /\ pc # "down" => offset = lastUpdateId + 1
  /\ InHand => offset <= fetched

\* Uncommitted writes are those of the update in hand, and tell how far it is.
StagedInv ==
  /\ pc \in {"down", "polling", "handling"} => staged = {} /\ stagedEvents = {}
  /\ pc = "replying" => /\ Kind[offset] # "ignored" /\ Kind[offset] # "broken"
                        /\ stagedEvents = {}
  /\ InHand => /\ staged \subseteq {offset} /\ stagedEvents \subseteq {offset}
               /\ staged # {} => Kind[offset] = "press"
  /\ pc \in {"replying", "saving"} /\ Kind[offset] = "press" =>
       offset \in staged \/ offset \in stagedEvents
  /\ pc = "saving" /\ Kind[offset] # "ignored" =>
       replies[offset] > 0 \/ offset \in stagedEvents
  /\ pc = "saving" /\ Kind[offset] = "broken" => offset \in stagedEvents

\* Nothing is committed for an update that is not done.
FutureInv == \A u \in Updates : u > lastUpdateId => effects[u] = 0

IInv ==
  /\ TypeOK /\ OffsetInv /\ StagedInv /\ FutureInv
  /\ NothingForgotten /\ TakenOnce /\ AnsweredOrRecorded

LEMMA InitIInv == Init => IInv
BY BotAssumption DEF Init, IInv, TypeOK, OffsetInv, StagedInv, FutureInv, InHand,
   NothingForgotten, TakenOnce, AnsweredOrRecorded, Updates

(* The steps that leave the database alone cannot disturb what is said of  *)
(* committed updates, as long as no ignored one is answered.               *)
LEMMA DatabaseKept ==
  ASSUME IInv, UNCHANGED database,
         \A u \in Updates : replies'[u] >= replies[u],
         \A u \in Updates : Kind[u] = "ignored" => replies'[u] = replies[u],
         replies' \in [Updates -> Nat]
  PROVE  FutureInv' /\ TakenOnce' /\ AnsweredOrRecorded'
<1> USE BotAssumption DEF IInv, database, Updates
<1>1. FutureInv' /\ TakenOnce'
  BY DEF FutureInv, TakenOnce
<1>2. AnsweredOrRecorded'
  <2> SUFFICES ASSUME NEW u \in Updates
               PROVE  /\ Kind[u] = "ignored" => replies'[u] = 0
                      /\ u <= lastUpdateId /\ Kind[u] # "ignored" =>
                           replies'[u] > 0 \/ u \in events
    BY DEF AnsweredOrRecorded
  <2>1. replies[u] \in Nat /\ replies'[u] \in Nat /\ replies'[u] >= replies[u]
    BY DEF TypeOK
  <2> QED BY <2>1 DEF AnsweredOrRecorded
<1> QED BY <1>1, <1>2

LEMMA NextIInv == IInv /\ [Next]_vars => IInv'
<1> SUFFICES ASSUME IInv, [Next]_vars PROVE IInv'
  OBVIOUS
<1> USE BotAssumption DEF IInv
<1>0. /\ replies \in [Updates -> Nat] /\ effects \in [Updates -> Nat]
      /\ InHand => offset \in Updates
  BY DEF TypeOK, OffsetInv, InHand, Updates
<1>1. CASE NewUpdate \/ Start \/ Poll \/ PollFails \/ Ignore \/ HandleCommand
           \/ HandlePress \/ HandlerRaises \/ HandleBroken \/ Die \/ UNCHANGED vars
  <2>1. UNCHANGED <<database, replies>>
    BY <1>1 DEF NewUpdate, Start, Poll, PollFails, Ignore, HandleCommand,
       HandlePress, HandlerRaises, HandleBroken, Die, Down, vars
  <2>2. FutureInv' /\ TakenOnce' /\ AnsweredOrRecorded'
    BY <1>0, <2>1, DatabaseKept
  <2>3. NothingForgotten'
    BY <1>1, <2>1 DEF NewUpdate, Start, Poll, PollFails, Ignore, HandleCommand,
       HandlePress, HandlerRaises, HandleBroken, Die, Down, vars, telegram, database,
       NothingForgotten, OffsetInv, TypeOK, Larger, Updates
  <2>4. TypeOK' /\ OffsetInv' /\ StagedInv'
    <3>1. CASE NewUpdate
      BY <3>1 DEF NewUpdate, TypeOK, OffsetInv, StagedInv, InHand, process, database,
         bounds, Updates
    <3>2. CASE Start
      BY <3>2 DEF Start, TypeOK, OffsetInv, StagedInv, InHand, telegram, database,
         bounds, Updates
    <3>3. CASE Poll
      <4>1. /\ Larger(confirmed, offset - 1) \in 0 .. MaxUpdates
            /\ Smaller(arrived, offset + PollLimit - 1) \in 0 .. MaxUpdates
        BY DEF TypeOK, Larger, Smaller
      <4>2. /\ confirmed' = Larger(confirmed, offset - 1)
            /\ fetched' = Smaller(arrived, offset + PollLimit - 1)
            /\ pc = "polling" /\ offset' = offset
            /\ UNCHANGED <<arrived, staged, stagedEvents, database, replies, bounds>>
        BY <3>3 DEF Poll
      <4>3. \/ pc' = "polling"
            \/ pc' = "handling" /\ fetched' >= offset
        BY <3>3 DEF Poll
      <4>4. TypeOK'
        BY <4>1, <4>2, <4>3 DEF TypeOK, database, bounds
      <4> QED BY <4>1, <4>2, <4>3, <4>4 DEF TypeOK, OffsetInv, StagedInv, InHand,
              database, Updates
    <3>4. CASE PollFails
      BY <3>4 DEF PollFails, TypeOK, OffsetInv, StagedInv, InHand, telegram, process,
         database, Updates
    <3>5. CASE Ignore
      BY <3>5 DEF Ignore, Current, TypeOK, OffsetInv, StagedInv, InHand, telegram,
         database, bounds, Updates
    <3>6. CASE HandleCommand
      BY <3>6 DEF HandleCommand, Current, TypeOK, OffsetInv, StagedInv, InHand, telegram,
         database, bounds, Updates
    <3>7. CASE HandlePress
      BY <1>0, <3>7 DEF HandlePress, Current, TypeOK, OffsetInv, StagedInv, InHand,
         telegram, database, bounds, Updates
    <3>8. CASE HandlerRaises
      BY <1>0, <3>8 DEF HandlerRaises, Current, TypeOK, OffsetInv, StagedInv, InHand,
         telegram, database, Updates
    <3>9. CASE HandleBroken \/ Die
      <4>1. /\ pc' = "down" /\ staged' = {} /\ stagedEvents' = {}
            /\ UNCHANGED <<arrived, confirmed, offset, fetched, database, replies>>
            /\ deaths' \in 0 .. MaxDeaths /\ errors' \in 0 .. MaxErrors
        BY <3>9 DEF HandleBroken, Die, Down, TypeOK, telegram, bounds
      <4>2. TypeOK'
        BY <4>1 DEF TypeOK, database
      <4> QED BY <4>1, <4>2 DEF OffsetInv, StagedInv, InHand
    <3>10. CASE UNCHANGED vars
      BY <3>10 DEF vars, TypeOK, OffsetInv, StagedInv, InHand, telegram, process,
         database, bounds, Updates
    <3> QED BY <1>1, <3>1, <3>2, <3>3, <3>4, <3>5, <3>6, <3>7, <3>8, <3>9, <3>10
  <2> QED BY <2>2, <2>3, <2>4
<1>2. CASE Reply \/ \E delivered \in BOOLEAN : ReplyFails(delivered)
  <2>1. PICK n \in {0, 1} : replies' = [replies EXCEPT ![offset] = @ + n]
    BY <1>2 DEF Reply, ReplyFails, Current
  <2>2. /\ pc = "replying" /\ pc' = "saving" /\ InHand /\ Kind[offset] # "ignored"
        /\ UNCHANGED <<telegram, offset, fetched, staged, database, deaths>>
        /\ errors' \in 0 .. MaxErrors
        /\ \/ n = 1 /\ stagedEvents' = stagedEvents
           \/ stagedEvents' = stagedEvents \union {offset}
    <3>1. CASE Reply
      <4>1. pc = "replying" /\ replies' = [replies EXCEPT ![offset] = @ + 1]
        BY <3>1 DEF Reply, Current
      <4>2. n = 1
        BY <1>0, <2>1, <4>1 DEF InHand
      <4> QED BY <3>1, <4>1, <4>2 DEF Reply, InHand, StagedInv, TypeOK, bounds
    <3>2. CASE \E delivered \in BOOLEAN : ReplyFails(delivered)
      BY <3>2 DEF ReplyFails, InHand, StagedInv, TypeOK, Current
    <3> QED BY <1>2, <3>1, <3>2
  <2>3. /\ replies' \in [Updates -> Nat]
        /\ \A u \in Updates : replies'[u] >= replies[u]
        /\ \A u \in Updates : Kind[u] = "ignored" => replies'[u] = replies[u]
        /\ n = 1 => replies'[offset] > 0
    BY <1>0, <2>1, <2>2
  <2>4. FutureInv' /\ TakenOnce' /\ AnsweredOrRecorded'
    BY <2>2, <2>3, DatabaseKept
  <2>5. NothingForgotten' /\ OffsetInv'
    BY <2>2 DEF NothingForgotten, OffsetInv, InHand, telegram, database
  <2>6. TypeOK'
    BY <1>0, <2>2, <2>3 DEF TypeOK, telegram, database
  <2>7. StagedInv'
    BY <2>2, <2>3 DEF StagedInv, InHand
  <2> QED BY <2>4, <2>5, <2>6, <2>7
<1>3. CASE Save
  <2>1. /\ pc = "saving" /\ offset \in Updates /\ offset = lastUpdateId + 1
        /\ lastUpdateId' = offset /\ offset' = offset + 1
        /\ events' = events \union stagedEvents
        /\ staged' = {} /\ stagedEvents' = {}
        /\ UNCHANGED <<arrived, confirmed, fetched, replies, deaths, errors>>
        /\ \/ pc' = "polling"
           \/ pc' = "handling" /\ offset' <= fetched
    BY <1>0, <1>3 DEF Save, Current, OffsetInv, InHand, telegram, bounds
  <2>2. /\ effects' \in [Updates -> Nat]
        /\ \A u \in Updates \ {offset} : effects'[u] = effects[u]
        /\ effects'[offset] = IF offset \in staged THEN 1 ELSE 0
    <3>1. effects' = [u \in Updates |-> effects[u] + (IF u \in staged THEN 1 ELSE 0)]
      BY <1>3 DEF Save
    <3>2. staged \subseteq {offset}
      BY <2>1 DEF StagedInv, InHand
    <3>3. effects[offset] = 0
      <4>1. offset > lastUpdateId
        BY <2>1 DEF TypeOK
      <4> QED BY <2>1, <4>1 DEF FutureInv
    <3> QED BY <1>0, <2>1, <3>1, <3>2, <3>3
  <2>3. TypeOK'
    BY <1>0, <2>1, <2>2 DEF TypeOK, Updates
  <2>4. OffsetInv' /\ StagedInv' /\ NothingForgotten'
    BY <2>1 DEF TypeOK, OffsetInv, StagedInv, InHand, NothingForgotten, Updates
  <2>5. FutureInv'
    BY <2>1, <2>2 DEF FutureInv, TypeOK, Updates
  <2>6. TakenOnce'
    <3>1. SUFFICES ASSUME NEW u \in Updates
                   PROVE  /\ effects'[u] <= 1
                          /\ effects'[u] = 1 => u <= offset /\ Kind[u] = "press"
                          /\ u <= offset /\ Kind[u] = "press" =>
                               effects'[u] = 1 \/ u \in events'
      BY <2>1 DEF TakenOnce
    <3>2. CASE u = offset
      BY <2>1, <2>2, <3>2 DEF StagedInv, InHand, Updates
    <3>3. CASE u # offset
      <4>1. effects'[u] = effects[u] /\ (u <= offset => u <= lastUpdateId)
        BY <2>1, <2>2, <3>3 DEF TypeOK, Updates
      <4> QED BY <2>1, <4>1 DEF TakenOnce, TypeOK, Updates
    <3> QED BY <3>2, <3>3
  <2>7. AnsweredOrRecorded'
    <3>1. SUFFICES ASSUME NEW u \in Updates
                   PROVE  /\ Kind[u] = "ignored" => replies[u] = 0
                          /\ u <= offset /\ Kind[u] # "ignored" =>
                               replies[u] > 0 \/ u \in events'
      BY <2>1 DEF AnsweredOrRecorded
    <3>2. CASE u = offset
      BY <2>1, <3>2 DEF AnsweredOrRecorded, StagedInv
    <3>3. CASE u # offset
      <4>1. u <= offset => u <= lastUpdateId
        BY <2>1, <3>3 DEF TypeOK, Updates
      <4> QED BY <2>1, <4>1 DEF AnsweredOrRecorded
    <3> QED BY <3>2, <3>3
  <2> QED BY <2>3, <2>4, <2>5, <2>6, <2>7
<1> QED BY <1>1, <1>2, <1>3 DEF Next

LEMMA IInvAlways == Spec => []IInv
BY InitIInv, NextIInv, PTL DEF Spec

\* Every variable keeps its type.
THEOREM TypeCorrect == Spec => []TypeOK
BY IInvAlways, PTL DEF IInv

\* Telegram forgets no update before the commit of its handling.
THEOREM NothingForgottenAlways == Spec => []NothingForgotten
BY IInvAlways, PTL DEF IInv

(* A press changes the database once however often its update comes, and   *)
(* an update that is done without its effect has left an event.            *)
THEOREM TakenOnceAlways == Spec => []TakenOnce
BY IInvAlways, PTL DEF IInv

\* The owner was answered, or an event is committed, for every update done.
THEOREM AnsweredOrRecordedAlways == Spec => []AnsweredOrRecorded
BY IInvAlways, PTL DEF IInv

-----------------------------------------------------------------------------
(* What the process does in one life.                                      *)

(* Only what Telegram has can be in hand, and nothing else is ever done.   *)
ArrivedInv == lastUpdateId <= arrived /\ fetched <= arrived

(* Only the update whose commit is next has been answered in this life.    *)
LivesInv ==
  \A u \in Updates :
    /\ replies[u] <= deaths + 1
    /\ u > lastUpdateId /\ ~(u = offset /\ pc = "saving") => replies[u] <= deaths

LEMMA ArrivedStep == IInv /\ ArrivedInv /\ [Next]_vars => ArrivedInv'
<1> SUFFICES ASSUME IInv, ArrivedInv, [Next]_vars PROVE ArrivedInv'
  OBVIOUS
<1> USE DEF ArrivedInv
<1>1. /\ arrived \in Int /\ fetched \in Int /\ offset \in Int /\ lastUpdateId \in Int
      /\ InHand => offset <= fetched
  BY DEF IInv, TypeOK, OffsetInv, Updates
<1>2. CASE NewUpdate
  BY <1>1, <1>2 DEF NewUpdate, process, database
<1>3. CASE Start
  BY <1>3 DEF Start, telegram, database
<1>4. CASE Poll
  <2>1. fetched' = Smaller(arrived, offset + PollLimit - 1) /\ UNCHANGED <<arrived, lastUpdateId>>
    BY <1>4 DEF Poll, database
  <2>2. PollLimit \in Int
    BY BotAssumption
  <2>3. QED
    BY <1>1, <2>1, <2>2 DEF Smaller
<1>5. CASE Save
  BY <1>1, <1>5 DEF Save, Current, InHand, telegram
<1>6. CASE UNCHANGED <<arrived, fetched, lastUpdateId>>
  BY <1>6
<1>7. QED
  BY <1>2, <1>3, <1>4, <1>5, <1>6
     DEF Next, PollFails, Ignore, HandleCommand, HandlePress, HandleBroken, HandlerRaises,
         Reply, ReplyFails, Die, Down, vars, telegram, process, database

LEMMA LivesStep == IInv /\ LivesInv /\ [Next]_vars => LivesInv'
<1> SUFFICES ASSUME IInv, LivesInv, [Next]_vars,
                    NEW u \in Updates
             PROVE  /\ replies'[u] <= deaths' + 1
                    /\ u > lastUpdateId' /\ ~(u = offset' /\ pc' = "saving") => replies'[u] <= deaths'
  BY DEF LivesInv
<1>0. TypeOK /\ OffsetInv
  BY DEF IInv
<1>1. /\ u \in Int /\ replies[u] \in Int /\ deaths \in Int /\ lastUpdateId \in Int /\ offset \in Int
      /\ replies \in [Updates -> Nat]
      /\ InHand => offset \in Updates /\ offset = lastUpdateId + 1
  BY <1>0, BotAssumption DEF TypeOK, OffsetInv, InHand, Updates
<1>2. /\ replies[u] <= deaths + 1
      /\ u > lastUpdateId /\ ~(u = offset /\ pc = "saving") => replies[u] <= deaths
  BY DEF LivesInv
<1>3. ASSUME UNCHANGED <<replies, deaths, lastUpdateId>>, pc # "saving"
      PROVE  /\ replies'[u] <= deaths' + 1
             /\ u > lastUpdateId' => replies'[u] <= deaths'
  BY <1>2, <1>3
<1>4. CASE Reply \/ \E delivered \in BOOLEAN : ReplyFails(delivered)
  <2>1. PICK n \in {0, 1} : replies' = [replies EXCEPT ![offset] = @ + n]
    BY <1>4 DEF Reply, ReplyFails, Current
  <2>2. pc = "replying" /\ pc' = "saving" /\ UNCHANGED <<offset, lastUpdateId, deaths>>
    BY <1>4 DEF Reply, ReplyFails, database, bounds
  <2>3. replies'[u] = IF u = offset THEN replies[u] + n ELSE replies[u]
    BY <1>1, <2>1
  <2>4. QED
    BY <1>1, <1>2, <2>2, <2>3 DEF InHand
<1>5. CASE Save
  BY <1>1, <1>2, <1>5 DEF Save, Current, InHand, bounds
<1>6. CASE Die
  BY <1>1, <1>2, <1>6 DEF Die, Down, database
<1>7. CASE UNCHANGED vars
  BY <1>2, <1>7 DEF vars, process, database, bounds
<1>8. CASE NewUpdate
  BY <1>2, <1>8 DEF NewUpdate, process, database, bounds
<1>9. QED
  BY <1>3, <1>4, <1>5, <1>6, <1>7, <1>8
     DEF Next, Start, Poll, PollFails, Ignore, HandleCommand, HandlePress, HandleBroken,
         HandlerRaises, Down, vars, telegram, process, database, bounds

LEMMA LivesHold == Spec => [](IInv /\ ArrivedInv /\ LivesInv)
<1>1. Init => ArrivedInv /\ LivesInv
  BY DEF Init, ArrivedInv, LivesInv
<1>2. QED
  BY <1>1, InitIInv, NextIInv, ArrivedStep, LivesStep, PTL DEF Spec

(* However often Telegram delivers an update, no life of the process       *)
(* answers it twice: it has at most one answer more than there were deaths.*)
THEOREM OneAnswerALife == Spec => []AnsweredOncePerLife
<1>1. LivesInv => AnsweredOncePerLife
  BY DEF LivesInv, AnsweredOncePerLife
<1>2. QED
  BY <1>1, LivesHold, PTL

(* What the runbook says holds exactly as long as the process is not       *)
(* killed: without deaths no update is answered twice.                     *)
THEOREM NoDeathNoRepeat == ASSUME MaxDeaths = 0 PROVE Spec => []RepliedOnce
<1>1. IInv /\ LivesInv => RepliedOnce
  BY DEF IInv, TypeOK, LivesInv, RepliedOnce
<1>2. QED
  BY <1>1, LivesHold, PTL

-----------------------------------------------------------------------------
(* The promise.                                                            *)

LEMMA PromiseInit == Init => Promise!Init
BY DEF Init, Promise!Init

LEMMA PromiseStep == IInv /\ ArrivedInv /\ [Next]_vars => [Promise!Next]_(Promise!promiseVars)
<1> SUFFICES ASSUME IInv, ArrivedInv, [Next]_vars
             PROVE  Promise!Next \/ UNCHANGED Promise!promiseVars
  OBVIOUS
<1>1. /\ TypeOK /\ StagedInv /\ FutureInv /\ NothingForgotten
      /\ pc # "down" => offset = lastUpdateId + 1
      /\ InHand => offset <= fetched
  BY DEF IInv, OffsetInv
<1>2. /\ arrived \in Int /\ fetched \in Int /\ offset \in Int /\ lastUpdateId \in Int
      /\ confirmed \in Int
      /\ lastUpdateId <= arrived /\ fetched <= arrived
  BY <1>1 DEF TypeOK, ArrivedInv, Updates
<1>3. CASE NewUpdate
  <2>1. Promise!Arrive
    BY <1>1, <1>3, BotAssumption DEF TypeOK, NewUpdate, database, Promise!Arrive, Updates
  <2>2. QED
    BY <2>1 DEF Promise!Next
<1>4. CASE Poll
  <2>1. pc = "polling" /\ confirmed' = Larger(confirmed, offset - 1) /\ UNCHANGED <<arrived, database, replies>>
    BY <1>4 DEF Poll
  <2>2. \/ UNCHANGED confirmed
        \/ confirmed < confirmed' /\ confirmed' <= lastUpdateId
    BY <1>1, <1>2, <2>1 DEF Larger
  <2>3. Promise!Forget \/ UNCHANGED Promise!promiseVars
    BY <2>1, <2>2 DEF Promise!Forget, Promise!promiseVars, database
  <2>4. QED
    BY <2>3 DEF Promise!Next
<1>5. CASE Reply \/ ReplyFails(TRUE)
  <2>1. pc = "replying" /\ InHand /\ lastUpdateId + 1 = offset /\ lastUpdateId < arrived
    BY <1>1, <1>2, <1>5 DEF Reply, ReplyFails, InHand
  <2>2. offset \in Updates /\ Kind[offset] \in {"command", "press"}
    <3>1. offset \in Updates
      BY <1>1, <1>2, <2>1, BotAssumption DEF TypeOK, Updates
    <3>2. Kind[offset] # "ignored" /\ Kind[offset] # "broken"
      BY <1>1, <2>1 DEF StagedInv
    <3>3. QED
      BY <3>1, <3>2, BotAssumption
  <2>3. replies' = [replies EXCEPT ![lastUpdateId + 1] = @ + 1]
    BY <1>5, <2>1 DEF Reply, ReplyFails, Current
  <2>4. Promise!Answer
    BY <1>5, <2>1, <2>2, <2>3 DEF Reply, ReplyFails, telegram, database, Promise!Answer
  <2>5. QED
    BY <2>4 DEF Promise!Next
<1>6. CASE ReplyFails(FALSE)
  <2>1. replies \in [Updates -> Nat]
    BY <1>1 DEF TypeOK
  <2>2. replies' = [replies EXCEPT ![offset] = @ + 0]
    BY <1>6 DEF ReplyFails, Current
  <2>3. replies' = replies
    BY <2>1, <2>2
  <2>4. QED
    BY <1>6, <2>3 DEF ReplyFails, telegram, database, Promise!promiseVars
<1>7. CASE Save
  <2>1. /\ pc = "saving" /\ InHand /\ lastUpdateId < arrived
        /\ lastUpdateId' = lastUpdateId + 1 /\ offset = lastUpdateId'
        /\ events' = events \union stagedEvents /\ UNCHANGED <<arrived, confirmed, replies>>
    BY <1>1, <1>2, <1>7 DEF Save, Current, InHand, telegram
  <2>2. /\ lastUpdateId' \in Updates /\ staged \subseteq {lastUpdateId'}
        /\ stagedEvents \subseteq {lastUpdateId'}
    BY <1>1, <1>2, <2>1, BotAssumption DEF TypeOK, StagedInv, Updates
  <2>3. effects' = [effects EXCEPT ![lastUpdateId'] = IF lastUpdateId' \in staged THEN 1 ELSE 0]
    <3>1. effects' = [u \in Updates |-> effects[u] + (IF u \in staged THEN 1 ELSE 0)]
      BY <1>7 DEF Save
    <3>2. effects \in [Updates -> Nat]
      BY <1>1 DEF TypeOK
    <3>3. effects[offset] = 0
      <4>1. offset \in Updates /\ offset > lastUpdateId
        BY <1>2, <2>1, <2>2
      <4>2. QED
        BY <1>1, <4>1 DEF FutureInv
    <3>4. QED
      <4>1. staged \subseteq {offset} /\ offset \in Updates
        BY <2>1, <2>2
      <4>2. effects' = [effects EXCEPT ![offset] = IF offset \in staged THEN 1 ELSE 0]
        <5> DEFINE f == [effects EXCEPT ![offset] = IF offset \in staged THEN 1 ELSE 0]
        <5>1. ASSUME NEW u \in Updates PROVE f[u] = effects[u] + (IF u \in staged THEN 1 ELSE 0)
          BY <3>2, <3>3, <4>1
        <5>2. f = [u \in Updates |-> f[u]]
          BY <3>2
        <5>3. QED
          BY <3>1, <5>1, <5>2
      <4>3. QED
        BY <2>1, <4>2
  <2>4. CASE lastUpdateId' \in stagedEvents
    <3>1. events' = events \union {lastUpdateId'}
      BY <2>1, <2>2, <2>4
    <3>2. lastUpdateId' \in staged => Kind[lastUpdateId'] = "press"
      BY <1>1, <2>1 DEF StagedInv
    <3>3. Promise!FailRecorded
      BY <2>1, <2>3, <3>1, <3>2 DEF Promise!FailRecorded
    <3>4. QED
      BY <3>3 DEF Promise!Next
  <2>5. CASE lastUpdateId' \notin stagedEvents
    <3>1. events' = events
      BY <2>1, <2>2, <2>5
    <3>2. /\ lastUpdateId' \in staged <=> Kind[lastUpdateId'] = "press"
          /\ Kind[lastUpdateId'] # "ignored" => replies[lastUpdateId'] > 0
          /\ Kind[lastUpdateId'] # "broken"
      BY <1>1, <2>1, <2>2, <2>5 DEF StagedInv
    <3>3. Promise!Succeed
      BY <2>1, <2>3, <3>1, <3>2 DEF Promise!Succeed
    <3>4. QED
      BY <3>3 DEF Promise!Next
  <2>6. QED
    BY <2>4, <2>5
<1>8. ASSUME UNCHANGED <<telegram, database, replies>> PROVE UNCHANGED Promise!promiseVars
  BY <1>8 DEF telegram, database, Promise!promiseVars
<1>9. QED
  BY <1>3, <1>4, <1>5, <1>6, <1>7, <1>8
     DEF Next, Start, PollFails, Ignore, HandleCommand, HandlePress, HandleBroken,
         HandlerRaises, Die, Down, vars

(* However often updates are delivered and the process dies, the bot keeps *)
(* BotPromise: updates are done in order, each once and with its effect or *)
(* the record of its failure in the same step, answers go to the next one  *)
(* only, and Telegram forgets none that is not done.                       *)
THEOREM Refinement == Spec => ImplementsPromise
BY PromiseInit, PromiseStep, LivesHold, PTL DEF Spec, ImplementsPromise, Promise!Spec

=============================================================================
