----------------------------- MODULE BotRuntime -----------------------------
(***************************************************************************)
(* How app-bot takes updates from the Telegram Bot API: long polling with  *)
(* an offset, one update after the other, the last update_id stored in     *)
(* bot_runtime_state.  The process holds one database connection: what a   *)
(* handler writes, the event of its failure and the new update_id become   *)
(* visible in one commit, and are dropped together if the process dies.    *)
(* What it sends through the Bot API is not taken back.                    *)
(*                                                                         *)
(* The handlers are told apart by what they do to the two: a "command"     *)
(* (/tasks, /review, ...) answers; a "press" of a button (or /cancel)      *)
(* changes the database and then answers; an "ignored" update is not the   *)
(* owner's, or is no command; and "broken" stands for an update whose      *)
(* handler meets an error of the database, after which PostgreSQL refuses  *)
(* every statement until rollback.                                         *)
(***************************************************************************)
EXTENDS Integers

CONSTANTS MaxUpdates,  \* bound: update ids are 1 .. MaxUpdates
          Kind,        \* Kind[u]: what handler update u meets
          PollLimit,   \* how many updates one getUpdates returns at most
          MaxDeaths,   \* bound: deaths of the process, other than by an update
          MaxErrors    \* bound: Bot API failures and handlers that raise

Updates == 1 .. MaxUpdates

ASSUME BotAssumption ==
  /\ MaxUpdates \in Nat
  /\ Kind \in [Updates -> {"command", "press", "ignored", "broken"}]
  /\ PollLimit \in Nat \ {0}
  /\ MaxDeaths \in Nat /\ MaxErrors \in Nat

VARIABLES
  arrived,       \* Telegram: updates 1 .. arrived exist
  confirmed,     \* Telegram: updates 1 .. confirmed are forgotten
  pc,            \* "down", "polling", "handling", "replying" or "saving"
  offset,        \* the offset of the next getUpdates
  fetched,       \* the last update of the list in hand
  staged,        \* uncommitted: updates whose handler changed the database
  stagedEvents,  \* uncommitted: updates with an update_failed event
  lastUpdateId,  \* committed row of bot_runtime_state, 0 for none
  effects,       \* effects[u]: how often u's change was committed
  events,        \* committed update_failed events
  replies,       \* replies[u]: messages sent in answer to u
  deaths, errors

telegram == <<arrived, confirmed>>
process == <<pc, offset, fetched, staged, stagedEvents>>
database == <<lastUpdateId, effects, events>>
bounds == <<deaths, errors>>
vars == <<telegram, process, database, replies, bounds>>

Init ==
  /\ arrived = 0 /\ confirmed = 0
  /\ pc = "down" /\ offset = 1 /\ fetched = 0
  /\ staged = {} /\ stagedEvents = {}
  /\ lastUpdateId = 0
  /\ effects = [u \in Updates |-> 0]
  /\ events = {}
  /\ replies = [u \in Updates |-> 0]
  /\ deaths = 0 /\ errors = 0

-----------------------------------------------------------------------------
\* The update in hand: the first of the list that is not done.
Current == offset

Larger(x, y) == IF x > y THEN x ELSE y

\* Mutant: takes the limit for the number of updates returned.
Second(x, y) == y

Smaller(x, y) == IF x < y THEN x ELSE y

NewUpdate ==
  /\ arrived < MaxUpdates
  /\ arrived' = arrived + 1
  /\ UNCHANGED <<confirmed, process, database, replies, bounds>>

\* No row yet and update_id 0 come to the same: getUpdates returns the oldest.
Start ==
  /\ pc = "down"
  /\ pc' = "polling"
  /\ offset' = lastUpdateId + 1
  /\ fetched' = lastUpdateId
  /\ UNCHANGED <<telegram, staged, stagedEvents, database, replies, bounds>>

\* Mutant: a list of one update is taken for an empty one.
PollSeveral ==
  /\ pc = "polling"
  /\ confirmed' = Larger(confirmed, offset - 1)
  /\ fetched' = Smaller(arrived, offset + PollLimit - 1)
  /\ pc' = IF fetched' > offset THEN "handling" ELSE "polling"
  /\ UNCHANGED <<arrived, offset, staged, stagedEvents, database, replies, bounds>>

\* getUpdates: what is before the offset is confirmed, the rest returned.
Poll ==
  /\ pc = "polling"
  /\ confirmed' = Larger(confirmed, offset - 1)
  /\ fetched' = Smaller(arrived, offset + PollLimit - 1)
  /\ pc' = IF fetched' >= offset THEN "handling" ELSE "polling"
  /\ UNCHANGED <<arrived, offset, staged, stagedEvents, database, replies, bounds>>

\* The poll_failed event is committed on its own, then the process sleeps.
PollFails ==
  /\ pc = "polling"
  /\ errors < MaxErrors
  /\ errors' = errors + 1
  /\ UNCHANGED <<telegram, process, database, replies, deaths>>

\* No service runs and no message is sent; at most an alert, Access denied.
Ignore ==
  /\ pc = "handling"
  /\ Kind[Current] = "ignored"
  /\ pc' = "saving"
  /\ UNCHANGED <<telegram, offset, fetched, staged, stagedEvents, database,
                 replies, bounds>>

HandleCommand ==
  /\ pc = "handling"
  /\ Kind[Current] = "command"
  /\ pc' = "replying"
  /\ UNCHANGED <<telegram, offset, fetched, staged, stagedEvents, database,
                 replies, bounds>>

HandlePress ==
  /\ pc = "handling"
  /\ Kind[Current] = "press"
  /\ staged' = staged \union {Current}
  /\ pc' = "replying"
  /\ UNCHANGED <<telegram, offset, fetched, stagedEvents, database, replies, bounds>>

\* The handler raises before it changed anything.
HandlerRaises ==
  /\ pc = "handling"
  /\ errors < MaxErrors
  /\ errors' = errors + 1
  /\ stagedEvents' = stagedEvents \union {Current}
  /\ pc' = "saving"
  /\ UNCHANGED <<telegram, offset, fetched, staged, database, replies, deaths>>

Reply ==
  /\ pc = "replying"
  /\ replies' = [replies EXCEPT ![Current] = @ + 1]
  /\ pc' = "saving"
  /\ UNCHANGED <<telegram, offset, fetched, staged, stagedEvents, database, bounds>>

\* Mutant: a failed answer leaves no event.
ReplyFailsSilently(delivered) ==
  /\ pc = "replying"
  /\ errors < MaxErrors
  /\ errors' = errors + 1
  /\ replies' = [replies EXCEPT ![Current] = @ + (IF delivered THEN 1 ELSE 0)]
  /\ pc' = "saving"
  /\ UNCHANGED <<telegram, offset, fetched, staged, stagedEvents, database, deaths>>

\* The Bot API refuses, or its answer is lost after the message was delivered.
ReplyFails(delivered) ==
  /\ pc = "replying"
  /\ errors < MaxErrors
  /\ errors' = errors + 1
  /\ replies' = [replies EXCEPT ![Current] = @ + (IF delivered THEN 1 ELSE 0)]
  /\ stagedEvents' = stagedEvents \union {Current}
  /\ pc' = "saving"
  /\ UNCHANGED <<telegram, offset, fetched, staged, database, deaths>>

\* Mutant: the offset moves on before the commit.
SaveLater ==
  /\ pc = "saving"
  /\ offset' = Current + 1
  /\ pc' = IF offset' <= fetched THEN "handling" ELSE "polling"
  /\ UNCHANGED <<telegram, fetched, staged, stagedEvents, database, replies, bounds>>

\* _save_last_update_id and _commit.
Save ==
  /\ pc = "saving"
  /\ lastUpdateId' = Current
  /\ offset' = Current + 1
  /\ effects' = [u \in Updates |-> effects[u] + (IF u \in staged THEN 1 ELSE 0)]
  /\ events' = events \union stagedEvents
  /\ staged' = {}
  /\ stagedEvents' = {}
  /\ pc' = IF offset' <= fetched THEN "handling" ELSE "polling"
  /\ UNCHANGED <<telegram, fetched, replies, bounds>>

\* Mutant: what the handler wrote is committed when the process dies.
DownCommitted ==
  /\ pc' = "down"
  /\ effects' = [u \in Updates |-> effects[u] + (IF u \in staged THEN 1 ELSE 0)]
  /\ staged' = {}
  /\ stagedEvents' = {}
  /\ UNCHANGED <<telegram, offset, fetched, lastUpdateId, events, replies>>

\* Rollback; what Telegram was sent remains.
Down ==
  /\ pc' = "down"
  /\ staged' = {}
  /\ stagedEvents' = {}
  /\ UNCHANGED <<telegram, offset, fetched, database, replies>>

\* Recording the failure fails too, and that exception ends the process.
HandleBroken ==
  /\ pc = "handling"
  /\ Kind[Current] = "broken"
  /\ Down
  /\ UNCHANGED bounds

Die ==
  /\ pc # "down"
  /\ deaths < MaxDeaths
  /\ deaths' = deaths + 1
  /\ Down
  /\ UNCHANGED errors

Next ==
  \/ NewUpdate
  \/ Start \/ Poll \/ PollFails
  \/ Ignore \/ HandleCommand \/ HandlePress \/ HandleBroken \/ HandlerRaises
  \/ Reply \/ \E delivered \in BOOLEAN : ReplyFails(delivered)
  \/ Save
  \/ Die

Spec == Init /\ [][Next]_vars

(* The loop of run_forever goes on, docker restarts the process, and the   *)
(* Bot API answers in the end: its failures are bounded.                   *)
FairSpec ==
  /\ Spec
  /\ WF_vars(Start) /\ WF_vars(Poll)
  /\ WF_vars(Ignore) /\ WF_vars(HandleCommand)
  /\ WF_vars(HandlePress) /\ WF_vars(HandleBroken)
  /\ WF_vars(Reply) /\ WF_vars(Save)

-----------------------------------------------------------------------------
(* Safety *)

\* Every variable has its type, and only an update in hand leaves writes behind.
TypeOK ==
  /\ arrived \in 0 .. MaxUpdates /\ confirmed \in 0 .. MaxUpdates
  /\ pc \in {"down", "polling", "handling", "replying", "saving"}
  /\ offset \in 1 .. MaxUpdates + 1 /\ fetched \in 0 .. MaxUpdates
  /\ staged \subseteq Updates /\ stagedEvents \subseteq Updates
  /\ lastUpdateId \in 0 .. MaxUpdates
  /\ effects \in [Updates -> Nat] /\ events \subseteq Updates
  /\ replies \in [Updates -> Nat]
  /\ deaths \in 0 .. MaxDeaths /\ errors \in 0 .. MaxErrors

(* Telegram never forgets an update whose handling is not committed, so    *)
(* none is lost whenever the process dies.                                 *)
NothingForgotten == confirmed <= lastUpdateId

(* Each press changes the database once, no matter how often its update is *)
(* delivered; every other kind changes nothing; and an update that is done *)
(* without its effect has left an event.                                   *)
TakenOnce ==
  \A u \in Updates :
    /\ effects[u] <= 1
    /\ effects[u] = 1 => u <= lastUpdateId /\ Kind[u] = "press"
    /\ u <= lastUpdateId /\ Kind[u] = "press" => effects[u] = 1 \/ u \in events

(* The owner hears of every update that is done: an answer was sent, or an *)
(* event says why not.                                                     *)
AnsweredOrRecorded ==
  \A u \in Updates :
    /\ Kind[u] = "ignored" => replies[u] = 0
    /\ u <= lastUpdateId /\ Kind[u] # "ignored" => replies[u] > 0 \/ u \in events

(* Each life of the process answers an update once at most: only a death   *)
(* between the answer and the commit makes the next life answer again.     *)
AnsweredOncePerLife == \A u \in Updates : replies[u] <= deaths + 1

(* The bot keeps the promise of BotPromise: in order, each update once, and *)
(* its effect, its failure and its being done in one step.                 *)
Promise == INSTANCE BotPromise WITH
  forgotten <- confirmed,
  done      <- lastUpdateId,
  failures  <- events,
  answers   <- replies

ImplementsPromise == Promise!Spec

(* What the runbook says of restarts, and the code does not do.            *)

\* No update is answered twice.
RepliedOnce == \A u \in Updates : replies[u] <= 1

-----------------------------------------------------------------------------
(* Liveness *)

(* Until an update breaks the database connection, every update is done in  *)
(* the end, across deaths, lost polls and handlers that raise.             *)
DoneUntilBroken ==
  \A u \in Updates :
    (\A v \in 1 .. u : Kind[v] # "broken") => (arrived >= u ~> lastUpdateId >= u)

\* Every update is done in the end, whatever the ones before it have met.
EveryUpdateDone == \A u \in Updates : arrived >= u ~> lastUpdateId >= u

=============================================================================
