--------------------------- MODULE ChatIngestion ---------------------------
(***************************************************************************)
(* How new messages reach the archive: app-listener (live updates and the  *)
(* catch-up it runs on startup), the one-shot `run ingestor`, the cursor   *)
(* last_ingested_message_id of each chat, and the read policy the owner    *)
(* changes through the bot.                                                *)
(*                                                                         *)
(* The listener is one thread: a handler of a live update runs to its end, *)
(* but may run between any two messages of the catch-up.  A handler reads  *)
(* the policy in one transaction and saves in another, so the bot and the  *)
(* ingestor, which are other processes, act in between.                    *)
(*                                                                         *)
(* Of bot-managed backfill, the subject of BackfillJobs, only what meets   *)
(* live updates is here: the transaction of a batch.                       *)
(***************************************************************************)
EXTENDS Integers, FiniteSets

CONSTANTS Chats,
          Kind,          \* what Telegram says each chat is: "chat" or "channel"
          BaseDenied,    \* TELEGRAM_LISTENER_DENIED_CHAT_IDS
          BaseAllowed,   \* TELEGRAM_LISTENER_ALLOWED_CHANNEL_IDS
          MaxMessages,   \* bound, for each chat: how many messages it ever gets
          IngestLimit,   \* TELEGRAM_INGEST_LIMIT
          InOrder,       \* Telegram dispatches the updates of a chat in order
          Bare,          \* a live event can come without event.chat
          MaxStops,      \* bound: deaths of the listener
          MaxErrors,     \* bound: live handlers that fail
          MaxIngests,    \* bound: runs of the ingestor
          MaxBackfills,  \* bound: backfill batches
          MaxPolicies    \* bound: policy changes by the owner

Ids == UNION {1 .. MaxMessages[c] : c \in Chats}
NoChat == "none"

ASSUME IngestionAssumption ==
  /\ NoChat \notin Chats
  /\ Kind \in [Chats -> {"chat", "channel"}]
  /\ BaseDenied \subseteq Chats /\ BaseAllowed \subseteq Chats
  /\ MaxMessages \in [Chats -> Nat]
  /\ IngestLimit \in Nat  \* from_env takes 0 as well
  /\ InOrder \in BOOLEAN /\ Bare \in BOOLEAN
  /\ MaxStops \in Nat /\ MaxErrors \in Nat
  /\ MaxIngests \in Nat /\ MaxBackfills \in Nat /\ MaxPolicies \in Nat

VARIABLES
  history,   \* history[c]: message ids Telegram can return for chat c
  latest,    \* latest[c]: the newest id chat c ever had
  updates,   \* live updates <<c, m>> dispatched to the handler
  messages,  \* messages[c]: committed rows of the messages table
  rows,      \* rows[c]: committed row of the chats table
  override,  \* override[c]: committed row of chat_policy_overrides
  up,        \* the listener process is connected
  listed,    \* the chats rows that list_catch_up_chats returned
  chosen,    \* the listed chats that startup catch-up covers
  todo,      \* those of them it has not finished
  current,   \* the chat it is reading, or NoChat
  position,  \* latest_message_id of that chat
  batch,     \* ids fetched and not saved yet
  handling,  \* live updates between policy check and save: at most one
  skipped,   \* history variable: updates refused or failed in this process
  permitted, \* history variable: chats readable at some time in this process
  ingest,    \* the ingestor and its open transaction
  backfilling, \* the chat of the listener's open backfill batch, or NoChat
  stops, errors, ingests, backfills, policies  \* bounded so far

telegramVars == <<history, latest, updates>>
catchUpVars  == <<listed, chosen, todo, current, position, batch>>
liveVars     == <<handling, skipped>>
transactions == <<ingest, backfilling>>
boundVars    == <<stops, errors, ingests, backfills, policies>>
vars == <<telegramVars, messages, rows, override, up, catchUpVars, liveVars,
          permitted, transactions, boundVars>>

(* A row of chats; "absent" when there is none, "unknown" for an empty     *)
(* chat_type.  private, group and supergroup are all "chat": can_read      *)
(* treats them alike.                                                      *)
Types == {"absent", "unknown", "chat", "channel"}
Rows  == [type : Types, cursor : Nat]
NoRow == [type |-> "absent", cursor |-> 0]

Modes   == {"recent", "start_now", "cursor"}
Ingests == [stage : {"off", "open", "read"}, chat : Chats \cup {NoChat}, mode : Modes,
            from : Nat, got : SUBSET Ids, to : Nat]
NoIngest == [stage |-> "off", chat |-> NoChat, mode |-> "cursor",
             from |-> 0, got |-> {}, to |-> 0]

Larger(a, b) == IF a < b THEN b ELSE a

Init ==
  /\ history = [c \in Chats |-> {}]
  /\ latest = [c \in Chats |-> 0]
  /\ updates = {}
  /\ messages = [c \in Chats |-> {}]
  /\ rows = [c \in Chats |-> NoRow]
  /\ override = [c \in Chats |-> "none"]
  /\ up = FALSE
  /\ listed = rows
  /\ chosen = {} /\ todo = {} /\ current = NoChat /\ position = 0 /\ batch = {}
  /\ handling = {} /\ skipped = {} /\ permitted = {}
  /\ ingest = NoIngest /\ backfilling = NoChat
  /\ stops = 0 /\ errors = 0 /\ ingests = 0 /\ backfills = 0 /\ policies = 0

-----------------------------------------------------------------------------
(* The read policy.                                                        *)

EffectiveAllowWins(o) ==  \* faulty: an allow override lifts a denial
  LET allowed == BaseAllowed \cup {c \in Chats : o[c] = "allow"}
  IN  [allowed |-> allowed,
       denied  |-> (BaseDenied \cup {c \in Chats : o[c] = "deny"}) \ allowed]
Effective(o) ==
  LET denied == BaseDenied \cup {c \in Chats : o[c] = "deny"}
  IN  [denied  |-> denied,
       allowed |-> (BaseAllowed \cup {c \in Chats : o[c] = "allow"}) \ denied]

CanRead(policy, c, type) ==
  /\ c \notin policy.denied
  /\ type = "channel" => c \in policy.allowed
  /\ type \in {"chat", "channel"}

Readable(o) == {c \in Chats : CanRead(Effective(o), c, Kind[c])}

(* The owner presses Allow, Deny or Reset under a chat the bot lists.      *)
SetPolicy(c, state) ==
  /\ policies < MaxPolicies
  /\ rows[c].type # "absent"
  /\ override[c] # state
  /\ policies' = policies + 1
  /\ override' = [override EXCEPT ![c] = state]
  /\ permitted' = IF up THEN permitted \cup Readable(override') ELSE permitted
  /\ UNCHANGED <<telegramVars, messages, rows, up, catchUpVars, liveVars, transactions,
                 stops, errors, ingests, backfills>>

-----------------------------------------------------------------------------
(* Telegram dispatches a new message to the handler run_forever has        *)
(* registered before anything else; a process that is down gets none.      *)

Dispatched(c, m) == IF up THEN {<<c, m>>} ELSE {}

NewMessage(c) ==
  /\ latest[c] < MaxMessages[c]
  /\ latest' = [latest EXCEPT ![c] = @ + 1]
  /\ history' = [history EXCEPT ![c] = @ \cup {latest[c] + 1}]
  /\ updates' = updates \cup Dispatched(c, latest[c] + 1)
  /\ UNCHANGED <<messages, rows, override, up, catchUpVars, liveVars, permitted,
                 transactions, boundVars>>

DeleteMessage(c, m) ==
  /\ m \in history[c]
  /\ history' = [history EXCEPT ![c] = @ \ {m}]
  /\ UNCHANGED <<latest, updates, messages, rows, override, up, catchUpVars, liveVars,
                 permitted, transactions, boundVars>>

(* At most IngestLimit of the ids in S, the oldest ones (reverse=True).    *)
NewestOf(S, T) ==  \* faulty: reverse=False
  /\ T \subseteq S
  /\ \A m \in S \ T : \A k \in T : m < k
  /\ Cardinality(T) <= IngestLimit
  /\ T = S \/ Cardinality(T) = IngestLimit
OldestOf(S, T) ==
  /\ T \subseteq S
  /\ \A m \in S \ T : \A k \in T : k < m
  /\ Cardinality(T) <= IngestLimit
  /\ T = S \/ Cardinality(T) = IngestLimit

After(c, id) == {m \in history[c] : m > id}

-----------------------------------------------------------------------------
(* Saving.  ensure_account and ensure_chat are upserts, so an open         *)
(* transaction of the ingestor or of a backfill batch holds the rows of    *)
(* the account and of its chat: a save waits for it, and so does the whole *)
(* event loop.                                                             *)

NobodyWaits == TRUE  \* faulty: an INSERT ... DO NOTHING takes no row lock
RowsFree == ingest.stage = "off" /\ backfilling = NoChat

SaveMessage(c, m, type) ==
  /\ messages' = [messages EXCEPT ![c] = @ \cup {m}]
  /\ rows' = [rows EXCEPT ![c] = [type |-> type, cursor |-> Larger(rows[c].cursor, m)]]

-----------------------------------------------------------------------------
(* Live updates.                                                           *)

(* What extract_chat_metadata makes of the chat of an event.               *)
EventTypes(c) == {Kind[c]} \cup (IF Bare THEN {"unknown"} ELSE {})

CheckUpdate(c, m, type) ==
  /\ up /\ handling = {}
  /\ <<c, m>> \in updates
  /\ InOrder => \A k \in Ids : <<c, k>> \in updates => m <= k
  /\ updates' = updates \ {<<c, m>>}
  /\ IF CanRead(Effective(override), c, type)
       THEN handling' = {<<c, m>>} /\ UNCHANGED skipped
       ELSE skipped' = skipped \cup {<<c, m>>} /\ UNCHANGED handling
  /\ UNCHANGED <<history, latest, messages, rows, override, up, catchUpVars, permitted,
                 transactions, boundVars>>

SaveUpdateIfNewer(c, m) ==  \* faulty: what the cursor has passed is dropped
  /\ <<c, m>> \in handling
  /\ RowsFree
  /\ IF m > rows[c].cursor THEN SaveMessage(c, m, Kind[c]) ELSE UNCHANGED <<messages, rows>>
  /\ handling' = {}
  /\ UNCHANGED <<telegramVars, override, up, catchUpVars, skipped, permitted, transactions,
                 boundVars>>
SaveUpdate(c, m) ==
  /\ <<c, m>> \in handling
  /\ RowsFree
  /\ SaveMessage(c, m, Kind[c])
  /\ handling' = {}
  /\ UNCHANGED <<telegramVars, override, up, catchUpVars, skipped, permitted, transactions,
                 boundVars>>

(* An exception in the handler: Telethon logs it and goes on.              *)
FailUpdate(c, m) ==
  /\ <<c, m>> \in handling
  /\ errors < MaxErrors
  /\ errors' = errors + 1
  /\ handling' = {}
  /\ skipped' = skipped \cup {<<c, m>>}
  /\ UNCHANGED <<telegramVars, messages, rows, override, up, catchUpVars, permitted,
                 transactions, stops, ingests, backfills, policies>>

-----------------------------------------------------------------------------
(* Startup catch-up.                                                       *)

(* The process connects, registers the handler, lists the chats and reads  *)
(* the policy once; nothing of the event loop runs in between.             *)
Covered(table, policy) ==
  {c \in Chats : table[c].cursor > 0 /\ CanRead(policy, c, table[c].type)}

Start ==
  /\ ~up
  /\ up' = TRUE
  /\ listed' = rows
  /\ chosen' = Covered(rows, Effective(override))
  /\ todo' = chosen'
  /\ permitted' = Readable(override)
  /\ UNCHANGED <<telegramVars, messages, rows, override, current, position, batch,
                 liveVars, transactions, boundVars>>

(* The next chat of the list; order by last_ingested_at is any order.      *)
NextChatStale(c) ==  \* faulty: latest_message_id kept from the last chat
  /\ up /\ handling = {}
  /\ current = NoChat
  /\ c \in todo
  /\ current' = c
  /\ UNCHANGED <<telegramVars, messages, rows, override, up, listed, chosen, todo, batch,
                 position, liveVars, permitted, transactions, boundVars>>
NextChat(c) ==
  /\ up /\ handling = {}
  /\ current = NoChat
  /\ c \in todo
  /\ current' = c /\ position' = listed[c].cursor
  /\ UNCHANGED <<telegramVars, messages, rows, override, up, listed, chosen, todo, batch,
                 liveVars, permitted, transactions, boundVars>>

(* iter_new_messages with min_id = latest_message_id; an empty batch ends  *)
(* the chat.                                                               *)
NothingNew == OldestOf(After(current, position), {})

FetchBatch ==
  /\ up /\ handling = {}
  /\ current # NoChat /\ batch = {}
  /\ ~NothingNew
  /\ \E S \in SUBSET After(current, position) :
        OldestOf(After(current, position), S) /\ batch' = S
  /\ UNCHANGED <<telegramVars, messages, rows, override, up, listed, chosen, todo,
                 current, position, liveVars, permitted, transactions, boundVars>>

FinishChat ==
  /\ up /\ handling = {}
  /\ current # NoChat /\ batch = {}
  /\ NothingNew
  /\ todo' = todo \ {current}
  /\ current' = NoChat
  /\ UNCHANGED <<telegramVars, messages, rows, override, up, listed, chosen, position,
                 batch, liveVars, permitted, transactions, boundVars>>

SaveWithoutProgress(m) ==  \* faulty: latest_message_id is not moved on
  /\ up /\ handling = {}
  /\ m \in batch /\ \A k \in batch : m <= k
  /\ RowsFree
  /\ SaveMessage(current, m, listed[current].type)
  /\ batch' = batch \ {m}
  /\ UNCHANGED <<telegramVars, override, up, listed, chosen, todo, current, position,
                 liveVars, permitted, transactions, boundVars>>
SaveCaughtUp(m) ==
  /\ up /\ handling = {}
  /\ m \in batch /\ \A k \in batch : m <= k
  /\ RowsFree
  /\ SaveMessage(current, m, listed[current].type)
  /\ batch' = batch \ {m}
  /\ position' = Larger(position, m)
  /\ UNCHANGED <<telegramVars, override, up, listed, chosen, todo, current,
                 liveVars, permitted, transactions, boundVars>>

(* The process dies, disconnects, or Telegram or the database fails during *)
(* catch-up; docker restarts it.  Updates not handled yet are gone.        *)
Stop ==
  /\ up
  /\ stops < MaxStops
  /\ stops' = stops + 1
  /\ up' = FALSE
  /\ updates' = {} /\ handling' = {} /\ skipped' = {} /\ permitted' = {}
  /\ chosen' = {} /\ todo' = {} /\ current' = NoChat /\ position' = 0 /\ batch' = {}
  /\ backfilling' = NoChat
  /\ UNCHANGED <<history, latest, messages, rows, override, listed, ingest, errors,
                 ingests, backfills, policies>>

-----------------------------------------------------------------------------
(* One batch of a bot-managed backfill job, once catch-up is over: no      *)
(* policy, no cursor, but ensure_chat with an empty chat_type.  The batch  *)
(* awaits Telegram inside its transaction; meanwhile a handler may run     *)
(* that waits for the rows of this transaction, on the only thread there   *)
(* is.                                                                     *)

BeginBackfill(c) ==
  /\ up /\ handling = {} /\ todo = {} /\ RowsFree
  /\ backfills < MaxBackfills
  /\ rows[c].type # "absent"
  /\ backfills' = backfills + 1
  /\ backfilling' = c
  /\ UNCHANGED <<telegramVars, messages, rows, override, up, catchUpVars, liveVars,
                 permitted, ingest, stops, errors, ingests, policies>>

CommitBackfill(a, b) ==
  /\ backfilling # NoChat /\ handling = {}
  /\ messages' = [messages EXCEPT ![backfilling] =
                    @ \cup {m \in history[backfilling] : a <= m /\ m <= b}]
  /\ rows' = [rows EXCEPT ![backfilling].type = "unknown"]
  /\ backfilling' = NoChat
  /\ UNCHANGED <<telegramVars, override, up, catchUpVars, liveVars, permitted, ingest,
                 boundVars>>

(* Telegram or the normalizer fails: the batch is rolled back.             *)
FailBackfill ==
  /\ backfilling # NoChat /\ handling = {}
  /\ backfilling' = NoChat
  /\ UNCHANGED <<telegramVars, messages, rows, override, up, catchUpVars, liveVars,
                 permitted, ingest, boundVars>>

-----------------------------------------------------------------------------
(* `run ingestor`: one chat, one transaction, no policy.                   *)

BeginIngest(c, mode) ==
  /\ ingests < MaxIngests
  /\ RowsFree
  /\ ingests' = ingests + 1
  /\ ingest' = [NoIngest EXCEPT !.stage = "open", !.chat = c, !.mode = mode,
                                !.from = rows[c].cursor, !.to = rows[c].cursor]
  /\ UNCHANGED <<telegramVars, messages, rows, override, backfilling, up, catchUpVars, liveVars,
                 permitted, stops, errors, backfills, policies>>

(* "recent" reads from any date `since`, here an id, on an empty cursor.   *)
ReadNewMessages(S, since) ==
  /\ OldestOf(IF ingest.from = 0 /\ ingest.mode = "recent"
                THEN {m \in history[ingest.chat] : m >= since}
                ELSE After(ingest.chat, ingest.from), S)
  /\ \E top \in S \cup {ingest.from} :
        /\ \A m \in S \cup {ingest.from} : m <= top
        /\ ingest' = [ingest EXCEPT !.stage = "read", !.got = S, !.to = top]

SkipBacklog ==
  \E top \in history[ingest.chat] \cup {0} :
     /\ \A m \in history[ingest.chat] : m <= top
     /\ ingest' = [ingest EXCEPT !.stage = "read", !.to = Larger(ingest.from, top)]

ReadIngest ==
  /\ ingest.stage = "open"
  /\ IF ingest.mode = "start_now"
       THEN SkipBacklog
       ELSE \E S \in SUBSET history[ingest.chat], since \in Ids : ReadNewMessages(S, since)
  /\ UNCHANGED <<telegramVars, messages, rows, override, backfilling, up, catchUpVars, liveVars,
                 permitted, boundVars>>

(* The commit: ensure_chat has put empty title and chat_type into the row. *)
CommitIngest ==
  /\ ingest.stage = "read"
  /\ messages' = [messages EXCEPT ![ingest.chat] = @ \cup ingest.got]
  /\ rows' = [rows EXCEPT ![ingest.chat] = [type |-> "unknown", cursor |-> ingest.to]]
  /\ ingest' = NoIngest
  /\ UNCHANGED <<telegramVars, override, backfilling, up, catchUpVars, liveVars, permitted, boundVars>>

(* Telegram, the database or the process fails: everything rolls back.     *)
FailIngest ==
  /\ ingest.stage # "off"
  /\ ingest' = NoIngest
  /\ UNCHANGED <<telegramVars, messages, rows, override, backfilling, up, catchUpVars, liveVars,
                 permitted, boundVars>>

-----------------------------------------------------------------------------
Telegram == \E c \in Chats : NewMessage(c) \/ \E m \in history[c] : DeleteMessage(c, m)
Owner    == \E c \in Chats, state \in {"none", "allow", "deny"} : SetPolicy(c, state)
Live     == \E c \in Chats, m \in Ids :
              SaveUpdate(c, m) \/ \E type \in EventTypes(c) : CheckUpdate(c, m, type)
Fail     == \E c \in Chats, m \in Ids : FailUpdate(c, m)
CatchUp  == \/ \E c \in Chats : NextChat(c)
            \/ FetchBatch \/ FinishChat
            \/ \E m \in Ids : SaveCaughtUp(m)
Archive  == \E a, b \in Ids : CommitBackfill(a, b)
Batch    == Archive \/ FailBackfill \/ \E c \in Chats : BeginBackfill(c)
Ingestor == \/ \E c \in Chats, mode \in Modes : BeginIngest(c, mode)
            \/ ReadIngest \/ CommitIngest \/ FailIngest

Next == Telegram \/ Owner \/ Start \/ Live \/ Fail \/ CatchUp \/ Stop \/ Batch \/ Ingestor

Spec == Init /\ [][Next]_vars

(* asyncio runs every ready task in turn, so neither the handlers nor the  *)
(* catch-up starve; the ingestor ends, one way or the other.               *)
Fairness ==
  /\ WF_vars(Live) /\ WF_vars(CatchUp) /\ WF_vars(Archive)
  /\ WF_vars(ReadIngest \/ CommitIngest)
FairSpec == Spec /\ Fairness

-----------------------------------------------------------------------------
(* Rows and positions have the values the schema and the code give them;   *)
(* catch-up reads a chat only while it is on its list, and never behind    *)
(* the cursor it found there.                                              *)
TypeOK ==
  /\ history \in [Chats -> SUBSET Ids]
  /\ latest \in [Chats -> Nat] /\ \A c \in Chats : latest[c] <= MaxMessages[c]
  /\ updates \subseteq Chats \X Ids
  /\ messages \in [Chats -> SUBSET Ids]
  /\ rows \in [Chats -> Rows]
  /\ override \in [Chats -> {"none", "allow", "deny"}]
  /\ up \in BOOLEAN
  /\ listed \in [Chats -> Rows]
  /\ chosen \subseteq Chats /\ todo \subseteq chosen
  /\ current \in todo \cup {NoChat}
  /\ position \in Nat /\ (current # NoChat => position >= listed[current].cursor)
  /\ batch \subseteq Ids /\ (batch # {} => current # NoChat)
  /\ handling \subseteq Chats \X Ids /\ skipped \subseteq Chats \X Ids
  /\ permitted \subseteq Chats
  /\ ingest \in Ingests /\ (ingest.stage # "off" => ingest.chat \in Chats)
  /\ backfilling \in Chats \cup {NoChat} /\ (backfilling # NoChat => up /\ todo = {})
  /\ stops \in Nat /\ errors \in Nat /\ policies \in Nat
  /\ ingests \in Nat /\ backfills \in Nat

Pending(c, m) == <<c, m>> \in updates \cup handling \cup skipped

(* No message falls between startup catch-up and the live handler: once    *)
(* catch-up has finished a chat, every message newer than the cursor it    *)
(* started from is archived, or is an update still to be handled, or was   *)
(* refused by the policy or lost to a failing handler in this process.     *)
NothingMissed ==
  \A c \in chosen \ todo : \A m \in history[c] :
    m > listed[c].cursor => m \in messages[c] \/ Pending(c, m)

(* The cursor only moves forward, whichever of listener and ingestor       *)
(* writes it, and names a message committed with it or before; only        *)
(* start_now moves it over messages that are not archived.                 *)
CursorNeverRewinds ==
  [][\A c \in Chats : rows'[c].cursor # rows[c].cursor =>
        /\ rows'[c].cursor > rows[c].cursor
        /\ rows'[c].cursor \in messages'[c] \/ ingest.mode = "start_now"]_vars

(* What is archived exists, and no cursor runs ahead of Telegram: each     *)
(* message that arrives lies beyond the cursor of its chat, however the    *)
(* writers of the cursor overlap, and so within the next catch-up.         *)
NewIsAhead ==
  \A c \in Chats : messages[c] \subseteq 1 .. latest[c] /\ rows[c].cursor <= latest[c]

(* Catch-up by itself never leaves a hole: whatever it has passed in the   *)
(* chat it is reading is archived, whatever the live handler did or failed *)
(* to do, so the position it would store after a stop hides nothing.       *)
CatchUpLeavesNoGap ==
  current # NoChat =>
    \A m \in history[current] :
      listed[current].cursor < m /\ m <= position => m \in messages[current]

(* No readable chat with a cursor is left out of catch-up before the first *)
(* import or batch: nothing else erases the type catch-up decides by.      *)
CaughtUpUntilImport ==
  [][~up /\ up' /\ ingests = 0 /\ backfills = 0 =>
        \A c \in Readable(override) : rows[c].cursor > 0 => c \in chosen']_vars

(* The archive as BackfillJobs sees it too: ArchivePromise.                *)
Shared == INSTANCE ArchivePromise WITH
  newest  <- latest,
  archive <- messages,
  cursor  <- [c \in Chats |-> rows[c].cursor]

ImplementsArchive == Shared!Spec

(* Steps that ingest on the owner's explicit order, outside the policy.    *)
Imported == transactions' # transactions

(* On its own account the listener stores nothing of a chat that has been  *)
(* denied since the process started, whatever overrides the owner adds.    *)
DeniedStaysUnread ==
  [][\A c \in Chats : messages'[c] # messages[c] /\ ~Imported =>
        c \in permitted /\ c \notin BaseDenied]_vars

(* Catch-up ends, though messages arrive and are deleted meanwhile.        *)
CatchUpEnds == todo # {} ~> todo = {}

(* Every dispatched update is archived or refused, or its process stops.   *)
UpdateHandled ==
  \A c \in Chats : \A m \in 1 .. MaxMessages[c] :
    <<c, m>> \in updates ~> (m \in messages[c] \/ <<c, m>> \in skipped \/ ~up)

(* The runbook's promise that catch-up recovers missed messages: after it, *)
(* a readable chat has no hole after its first archived message.           *)
RecoveredAtStartup ==
  \A c \in chosen \ todo : \A m \in history[c] :
    (\E k \in messages[c] : k < m) => m \in messages[c] \/ Pending(c, m)

(* The runbook's promise that catch-up covers every known chat with a      *)
(* cursor: none that the policy lets the listener read is left out.        *)
KnownChatsCaughtUp ==
  [][~up /\ up' =>
        \A c \in Readable(override) : rows[c].cursor > 0 => c \in chosen']_vars

(* The runbook's promise that deny overrides are enforced: the listener    *)
(* archives nothing of a chat while a committed override denies it.        *)
DenyEnforced ==
  [][\A c \in Chats : messages'[c] # messages[c] /\ ~Imported =>
        override[c] # "deny"]_vars
=============================================================================
