# A verification of telegram_ai_assistant

This directory holds TLA+ models of the assistant in `src/telegram_ai_assistant`
(paths below are relative to that package, those under `docs/` to `src/`), the TLC configurations that check
them, and proofs checked by TLAPS. `PROJECT.json` is the index: components, runs,
mutants, the map from definitions to source lines, findings, hazards, theorems.

    tlc -config ChatIngestion.cfg ChatIngestionMC     # any run of PROJECT.json
    tlapm BackfillJobs_proofs.tla                     # any module of proofs

## The system

Three long-lived processes share one PostgreSQL database and nothing else.

- `app-listener` owns the Telegram user session. It saves live messages, catches
  up on missed ones at startup, and executes backfill jobs in a task of the same
  event loop. Its database calls are synchronous: while one waits, everything
  in the process waits.
- `app-worker` scores saved messages, sends candidates to LM Studio, stores the
  proposed actions and applies or queues them, one transaction per cycle.
- `app-bot` polls the Bot API and answers the owner: it creates and cancels
  backfill jobs, approves and rejects reviews, changes item status and chat policy.

`run ingestor` and `run backfill` are one-shot commands beside them. Docker
restarts a process that dies (`restart: unless-stopped`), and leaves one that
hangs alone. A message flows Telegram → `messages` (listener, backfill,
ingestor) → `message_processing_state` and `message_candidates` (worker) →
LLM → `llm_actions`, `extracted_items`, `review_queue` (worker) → owner (bot).
Backwards flow only the owner's decisions: `backfill_jobs`,
`chat_policy_overrides`, reviews and item status.

| Component | State it keeps | Operations | Hard behaviour | What makes it correct | Module |
|---|---|---|---|---|---|
| Backfill jobs (`backfill.py`, `ingestion/backfill.py`, `BackfillJobRepository`) | `backfill_jobs`, `messages` | create, cancel, claim, batch, progress, fail, complete | two transactions per batch, cancel at any moment, crashes, a row lock over awaits | cursor never ahead of the archive, cancel never lost, finished is final, every job ends | `BackfillJobs`, `BackfillPromise`, `ArchivePromise` |
| Live ingestion and catch-up (`ingestion/listener.py`, `live.py`) | `messages`, `chats.last_ingested_message_id` | live update, catch-up batch, ingestor run | handlers between any two steps of catch-up, restarts, two processes on one cursor, row locks | nothing missed, cursor monotone, every update handled | `ChatIngestion`, `ArchivePromise` |
| Read policy (`chat_policy.py`, `ChatPolicyRepository`) | base lists, `chat_policy_overrides` | allow, deny, reset, can_read | policy read long before it is used | denied chats stay unread | `ChatIngestion` |
| Worker pipeline (`worker.py`, `app_context.py`) | processing state, candidates, actions, reviews, items | score, enqueue, extract, route, commit | failures between stages, arbitrary LLM answers | no candidate lost, no action hidden, consent | `ActionPipeline`, `PipelinePromise` |
| Reviews and status buttons (`ReviewRepository`, `ItemRepository`) | `review_queue`, `llm_actions`, `extracted_items` | list, approve, reject, set status | old buttons, repeated presses | nothing without consent, reviews stay answerable | `ActionPipeline` |
| Menus and pages for imports and policy (`bot_router.py`, `bot_services.py`, `ChatQueryRepository`) | none of its own: the messages in the chat, and rows others write | show periods, pages, a question, a job; start, cancel, allow, deny, reset | buttons of every age, pages by offset over a changing list, lost answers, rollbacks | a button does what the owner reads above it, no job without a question, no chat missed | `BotScreens` |
| Bot loop (`bot_runtime.py`, `bot_router.py`, `bot_api.py`) | `bot_runtime_state`, the offset | poll, handle, reply, save, fail | deaths between effect, reply, commit; redelivery; broken transactions | no update lost or taken twice | `BotRuntime`, `BotPromise` |
| LM Studio startup (`llm_client.py`) | the server's loaded instances | list, unload, load, validate, undo | a shared server, lost answers, late loads | the right instance, nobody else's | `ModelLoading` |

Components without a module, and why, are under *Not modelled*.

## Modules

Each module has its parameters as CONSTANTS with a named ASSUME, one action per
operation, `TypeOK`, and properties at its end. `...MC` modules only give
constants values. Definitions marked *faulty* or *Mutant* are plausible bugs; no
specification uses them. `PROJECT.json` names for each property a mutant that
breaks it.

**BackfillPromise** is what the owner is promised of a job: `open`, `completed`
(only with the whole period archived), `failed`, or `stopping` and `cancelled`,
with no archiving after the stop is asked for.

**BackfillJobs** is the code. `jobs` are the committed rows of `backfill_jobs`;
a NULL `next_before_message_id` is `before = to + 1`. One poll is two
transactions: A claims (`ClaimJob`, `CancelJob`: `FOR UPDATE SKIP LOCKED`, held
till A ends) and records the outcome (`RecordProgress`, `CompleteJob`,
`FailBatch`); B reads and commits the batch in between (`ReadBatch`,
`CommitBatch`). `claimed` is the row A has locked; `botJob` the row a cancel has
updated and not committed. `Crash` strikes anywhere, `DbError` wherever A's
connection is in use, and the latter ends the process during the first run and only the
background task afterwards (`looping`). Message ids stand for dates, which grow
with them in a chat. That ids and dates may part (edited or migrated history) is
not modelled.

**ArchivePromise** is what all writers of `messages` and of the chats' cursors promise together:
what is archived exists and stays, writes touch one chat at a time, what is stored leaves the
cursor or moves it forward onto an archived message, and a cursor may also be moved forward over
existing messages (`SkipTo`). The promise does not say when: that only `start_now` does this is
`CursorNeverRewinds` of ChatIngestion. ChatIngestion and BackfillJobs (which leaves cursors alone) implement it, so each
may take the other's writes for steps of this specification.

**ChatIngestion** is the listener with the ingestor, the policy and the
transaction of a backfill batch. `updates` are dispatched events, `handling` the
one handler between its policy check and its save, and nothing else of the
event loop runs meanwhile; `current`, `position` and `batch` are the catch-up.
An open transaction of the ingestor or of a batch (`ingest`, `backfilling`)
holds the account's and the chat's row, so `RowsFree` is a conjunct of every save.
`ensure_chat`'s defaults erase the chat type (`"unknown"`), which `CanRead` refuses; a live event
that comes without its chat (`Bare`) is of unknown type as well, and is refused (`CheckUpdate`).

**PipelinePromise** is what the owner is promised of a message: it goes forward through its
stages and is extracted at most once; what an extraction proposes is done or put to
her, never both; a question is put once and answered once; an item changes only by an
approval or her own button. There are no batches, queues, transactions or failures in it.

**ActionPipeline** is the worker with the bot's review and status buttons. A cycle is one
transaction: its writes stay in `verdict`, `fresh` (candidates), `saved`, `enqueued`, `created` until
`CommitCycle`, and `WorkerDies`, `LLMFails` or `UnknownTarget` (a foreign key)
decide what survives. The answer is revealed a proposal at a time
(`RouteProposal`), and may be anything the parser lets through. Action keys are
records of type, source, target and status, as the digest of them is.

**BotPromise** is what the bot promises of its updates: they are done in order and once each, with
their effect or a recorded failure in the same step, answers go only to the next update and never
to an ignored one, and Telegram is told to forget only what is done. It has no polls, offsets,
transactions or restarts.

**BotRuntime** takes updates 1, 2, ... of four kinds: commands (answer), presses
(change the database, answer), ignored ones (not the owner's), and broken ones
(the database refuses a statement, after which PostgreSQL refuses all of them).
`staged` and `stagedEvents` are uncommitted; `confirmed` is what Telegram forgets.

**ModelLoading** is `ensure_model_loaded` with `load_model` against a server
that others use too, whose answers may be lost after it has acted, and where a
load may end after its request was given up. An id is unique among the instances of a moment and
may be given out again once its instance is gone (the server of `tests/test_llm_client.py` answers
with the key of the model). `recycled` are the ids that came to another's instance since the
worker learnt them, from its list or from its load's answer.

**BotScreens** is the part of the bot with buttons for imports and for the read policy.
`screens` are the messages of the bot in the chat; `Buttons` what the `..._markup` functions
put under each, all of which stay pressable. A press is handler, answer and commit in
one transaction: `PressUnanswered` loses the answer and commits, `PressUndone` answers and is
rolled back, when only the sequence `lastJob` keeps its step. `LiveUpdate` and `RunBatch` are
what the listener does to the listed rows meanwhile. A page is the set of chats that
`Place` puts between its borders, as OFFSET and LIMIT do. Two history variables are about the
owner: `silent` (jobs whose creation was never answered) and `walk` (a walk with *Next*); neither
has an effect on anything else.
Some behaviour the model shows and no document speaks of: pressing Start twice makes two
jobs, whose dates are computed at the press; `bf:cancel` answers "requested" even for a finished
job; a batch erases type and title of its own chat, which leaves the list of
imports until its next live message; a chat on the base denial list stays denied though its page
says "allow"; and a chat that enters the list and leaves it between two pages pulls others back
over a border already passed, so that paging misses one.

The modules compose through the database: `messages` written by BackfillJobs and
ChatIngestion are the `StoreMessage` of ActionPipeline, and a press of
BotRuntime is one `CreateJob`, `RequestCancel`, `SetPolicy`, `Approve`, `Reject` or
`SetStatus` there. Where two meet on locks rather than on rows, the meeting is
modelled in one module: the cancel against the batch in BackfillJobs, live
updates against batch and ingestor in ChatIngestion.

## Runs

Nothing in a run is without end: the owner stops pressing, Telegram stops sending, failures
stop. So every behaviour comes to rest and every cfg says `CHECK_DEADLOCK FALSE`;
that something does *not* come to rest too early is what the liveness properties say.

| Run | Shows | Bounds, and why they are enough |
|---|---|---|
| `backfill` | `CoveredAboveCursor`, `CompletedMeansSaved`, `CountNeverAhead`, `OnlyRequestedPeriods`, `CancelIsNeverLost`, `FinishedIsFinal`, `NothingSavedAfterCancel`, `ImplementsPromise`; `CancelTakesEffect`, `EveryJobEnds` while the background task lives | two jobs (the claim must choose, and one may be cancelled while the other runs), two messages read one at a time (a batch that is full, one after it, and an empty one), one crash, one lost connection, each at any point. What is safety here is proved for all bounds |
| `ingestion_safety` | `NothingMissed`, `CursorNeverRewinds` | four messages that arrive while the process is up or down, live ones handled in any order, and batches of two; live events with and without their chat; one each of restart, failing handler, ingestor run and backfill batch, so that any two of the four writers meet |
| `ingestion_liveness` | `DeniedStaysUnread`, `CatchUpEnds`, `UpdateHandled` | two chats of different kinds, live events with and without their chat, one chat on the base denial list, two changes of policy (deny and back), an ingestor run and a restart; no backfill batch, with which the last does not hold |
| `ingestion_gap` | `RecoveredAtStartup` violated | three messages, two stops, `Bare = FALSE`: with `TRUE` TLC finds a shorter way first, a live message refused for want of its chat and the cursor moved over it by the next one |
| `ingestion_hang` | `UpdateHandled` violated | one live message, one backfill batch |
| `pipeline_safety` | `NoCandidateLost`, `NothingHidden`, `CreatedWithConsent`, `ChangedWithConsent`, `ImplementsPromise` | two messages of one chat in batches of one, an item that exists and an identifier that does not, two proposals an answer, a failure anywhere, a press on any button ever shown |
| `pipeline_liveness` | `EveryCandidateExtracted`, `EveryReviewShown` | three messages, batches of two (one full, one not), two failures, a review list of one, so that it must page. Answers name only items that exist (`Invented = {}`), so the database refuses no insert: with one it would refuse, `EveryCandidateExtracted` does not hold, and `pipeline_target` shows that case |
| `pipeline_target` | `AnswerKept` violated | one proposal about an item that does not exist |
| `bot` | `NothingForgotten`, `TakenOnce`, `AnsweredOrRecorded`, `DoneUntilBroken` | five updates of all four kinds in lists of two, two deaths and two failures: one update may be delivered three times |
| `bot_broken` | `EveryUpdateDone` violated | a broken update with one after it |
| `screens` | `ConfirmedFirst`, `NumberMeansOneJob`, `CancelReachable`, `StartedAsAllowed`, `WalkMissesNothing` | three chats on pages of one, one a channel (two at first; the third comes in before or between them, and so moves others to a later page; behind them it moves nothing); two jobs, so that a number can be drawn twice or mistaken; one lost answer or death, one live update, one batch; eight different messages: room for the menu, the periods, two pages, two questions and two jobs, or for a whole walk |
| `model_loading` | `ReadyMeansLoaded`, `OthersUntouched`, `ReadyInTheEnd` | a wanted and a wrong context length, two failures, three acts of others: an instance can be unloaded and loaded again, under its old id or another, between any two requests. The server has six ids and at most five instances others or failures made, so a load never lacks one |

Each passing run also checks the module's `TypeOK` where it checks safety.

**Fairness**, always weak, for one action or for the steps of one loop:

- asyncio runs what is ready, poll intervals are finite, and a dead process is started
  again: the steps of each loop are fair, and so is the restart in BackfillJobs and
  BotRuntime. ChatIngestion needs no restart, since what it promises is promised until
  the process stops. Crashes, stops, failures and what the owner, Telegram and other
  users do are never fair.
- Bot API and LM Studio failures are bounded by constants. A failure that
  returns for ever makes the program wait for ever, and no retry can help that.
- An import by the ingestor ends, since its message limit is finite.
- In `EveryReviewShown` the owner opens /review again and settles what it shows. Without this
  a full list stays full, and that is intended.
- Nothing is assumed of LM Studio's other users: they need not unload anything.
- In `backfill` no live update arrives while a batch is open. With
  one the process may hang; that is `ingestion_hang`, and it is the one place
  where a property of one module leans on what another module refutes.

## Proofs

Every theorem is about `Spec`, without fairness, for all values of the constants that the
module's assumption allows, and rests on an inductive invariant `IInv`; hardly any
property is inductive as stated.

`BackfillJobs_proofs` proves, from `BackfillAssumption` alone (any numbers of jobs,
messages, crashes and lost connections, any finite batch of at least one), every safety
property of its run, and that `Spec` implements `BackfillPromise`. `IInv` adds:

- `LockInv`: a claimed row is open and no cancel is pending on it, since both need its
  lock; without it a commit could land on a cancelled job;
- `BatchInv`: the batch is the newest part of what its job still has to read, and
  once transaction B has committed it is archived; without it `RecordProgress` could
  pass over messages;
- `PeriodInv`: a period ends at a message that existed when the job was created, so
  no new message falls into a period already read.

`StepKinds` reduces every step to seven kinds (a new or deleted message, a new
job, one change of status, nothing, and the three writes of a batch); the action
properties and the refinements follow case by case. The refinement mapping reads the
promised state off the status: `pending` and `running` are `open`, a requested cancel is
`stopping`; cursor, count, loop and lock are hidden. Beyond the run: `EveryBatchCounts` (from
`SizeInv`: no batch is larger than `backfill_batch_size`), `ServedInOrder` (from `NumberedInv`: job
numbers have no gaps, so no earlier job appears after the claim: through any crashes, the claim
passes over one active job at most, the one whose row the bot holds) and `ImplementsArchive`.

`BotRuntime_proofs` proves, from `BotAssumption` (any number of updates, deaths and
failures, any kinds), the type invariant, `NothingForgotten`, `TakenOnce` and
`AnsweredOrRecorded`. `IInv` adds `OffsetInv` (what Telegram confirmed, what is committed
and what is in hand are in this order), `StagedInv` (only the update in
hand has uncommitted effects) and `FutureInv` (an update not
reached has had no effect); without the last, taking an update could be the second time.
`LivesInv` counts answers by lives of the process: an update not done has at most as many as there
were deaths, and one more only between its answer and its commit, so `AnsweredOncePerLife` holds and, with
`MaxDeaths = 0`, `RepliedOnce`. The refinement of `BotPromise` maps an answer to `Answer`, a commit
to `Succeed` or `FailRecorded`, a confirmed poll to `Forget`, and all else to stuttering.

`ChatIngestion_proofs` proves `CursorNeverRewinds`, `DeniedStaysUnread` and, for
`IngestLimit # 0`, `NothingMissed`: a premise the code does not establish (*Divergences*). Its
invariant says of each chosen chat and each message above its listed cursor that it is archived,
pending or still ahead of catch-up, and that an open transaction has read the
cursor it will write over, which its row locks keep as it was. Three more results need no
premise: `NewIsAhead` (from `ExistInv`: every id the processes hold, in a listed row, an update, a position or a
transaction, is of a message that has existed), `CatchUpLeavesNoGap`, and `CaughtUpUntilImport`
(from `ErasedInv`: until the first import or batch, every chat with a cursor has its true type, in
the table and in the listed rows). `ImplementsArchive` follows with `ExistInv`.

`ActionPipeline_proofs` proves `NoCandidateLost` and `NothingHidden` for any answers, and, for answers without repeats
(`~MayRepeat`), `CreatedWithConsent` and `ChangedWithConsent`. `QueueInv` and `CycleInv` say that a
candidate is in one place and that the open cycle's batch is the head of the queue; `RouteInv`
and `StoreInv` relate its uncommitted writes to the tables; `OnceInv`, `OneReview`
and `ConsentInv` say that an action has one review and an item its proposal or approval.
Beyond the run, and for any answers: `ItemsAreTheOwners` (from `MadeInv`: an item somebody made
comes from an extracted message, while an open cycle's items come from messages not yet extracted), `AskedOnce`,
`InTurn` (the step from queue to queue is the operator `Takes`), and `ShownInOrder`: no review is shown
while an older one never was, since a review without buttons is still unanswered (`AnsweredInv`), a
list takes the oldest of those (`OlderListed`), and new ones come last. For answers without repeats,
`RejectedWhileAsked`.
`PipelinePromise_proofs` proves from the same invariant and premise that `Spec` implements
`PipelinePromise`: a commit is one `Work`, an approval one `Approve`, and everything else the
worker does in a cycle stutters.

`ModelLoading_proofs` proves `ReadyMeansLoaded` and `OthersUntouched`: until a startup is
disturbed, what is loaded is what it listed less what it unloaded and with what it loaded; and, whatever
others do, an id the worker is about to unload is gone, recycled, or of the instance it was learnt for. The
exception is real: the worker unloads by id from a list that may be old, and `FittingKept`, without it, does
not hold (*Divergences*). It also proves `OneInstanceUnlessLate`, from `AloneInv`: when the worker is about to load, there are no more
instances of its model than others have loaded. The premise is about the behaviour, not about a constant:
an LM Studio that never finishes a load it was told had failed.

`BotScreens_proofs` proves every property of its run. `IInv` adds `RowInv` (a stored
type is the one Telegram says, or erased) and `ScreenInv` (the numbers of messages have
been drawn): a rollback does not give a number back, so a message that outlives its job names no
other. `ButtonFacts` reduces the buttons of any message to what the handlers may be called with.
The walk has an invariant beside it, `WalkOK`: the chats on the pages passed so far have been seen. It
rests on two facts about places: they have no gaps (`PlaceBefore`: so nothing comes after an
empty page), and none falls while no chat leaves or is renamed (`PlaceKept`). Beyond the run:
`FewUnreachable`, whose invariant `SilentInv` counts the unanswered jobs by the faults that made them.

The properties that are in no cfg of this directory (those *beyond the run*, and
`AnsweredOncePerLife`, the refinement of `BotPromise`, `OneInstanceUnlessLate`, `NewIsAhead`,
`CatchUpLeavesNoGap`, `CaughtUpUntilImport`, `ImplementsArchive`) are stated by a theorem for all
constants. TLC finds each of them satisfied with the constants of its module's safety run
(`ServedInOrder` also with three jobs and two crashes).

Only model-checked: all liveness (`CancelTakesEffect`, `EveryJobEnds`, `CatchUpEnds`, `UpdateHandled`,
`EveryCandidateExtracted`, `EveryReviewShown`, `DoneUntilBroken`, `ReadyInTheEnd`), which is out of the
prover's reach like everything else about fairness and `ENABLED`. Every safety property of a
passing run is a theorem. Induction over data is out of
reach too; no module here declares a RECURSIVE operator, and that a chain of batches covers a
period is an invariant over the cursor, not an induction over the batches.

## Assumptions

- One account; ids of a chat grow with its dates.
- PostgreSQL runs at READ COMMITTED, and an exception rolls the open transaction back.
- In BackfillJobs a batch is all ids of a range that still exist: deleted messages are absent from the
  start of a read and not between two reads.
- In ActionPipeline the passing run has one chat and answers
  without repeats; `schedule_notification` stands for the four action types the
  worker refuses; `payload.target_item_id` and a `CREATE_ITEM` with a target are left out, as are
  the review types `item` and `status_change`, which nothing writes any more.
  `Approve` is modelled as its code means it, although PostgreSQL refuses its
  `FOR UPDATE` over `LEFT JOIN` (see below, `bot_broken`).
- In BotRuntime an "Access denied" alert is no answer.
- In BotScreens titles are compared by their place in the alphabet; chats without a title come first,
  ordered by id as a number, where the query compares the id as text among the titles. Telegram
  does not change what kind a chat is.
- In ModelLoading, LM Studio echoes the load configuration, or the worker refuses
  the answer. An answer without one is accepted unchecked by the code. An unload whose request
  fails has been done by then or is never done; only a load may end later.

## Divergences

Four runs end in a counterexample to what the repository says of itself:

| Run | The repository says | The code does |
|---|---|---|
| `ingestion_gap` | missed messages are recovered on startup (`docs/operations/local-runbook.md:124`) | a live message saved during catch-up moves the stored cursor over what catch-up has not reached; a stop before catch-up ends loses that for good (`ingestion/listener.py:207`) |
| `ingestion_hang` | bounded batches keep live updates responsive (`docs/superpowers/specs/2026-06-06-listener-managed-backfill-design.md:90`) | a live handler waits, synchronously, for the row locks of a batch that awaits Telegram in the same event loop (`ingestion/listener.py:184`) |
| `pipeline_target` | failed actions are marked failed (`local-runbook.md:150`) | an unknown `target_item_id` breaks a foreign key and throws the cycle away, each time (`db/repositories.py:1558`) |
| `bot_broken` | restarts continue from the next update (`local-runbook.md:168`) | after a database error the connection refuses all statements, also the one that records the failure, and the restart begins with the same update (`bot_runtime.py:63`) |

Eleven more properties of the modules do not hold, two of them (`ChangedWithConsent` and
`NothingMissed`) only beyond the bounds of the run that passes. These are not runs; to see
one, make the change in the second column and check the property alone.

| Property | Change | What the code does |
|---|---|---|
| `CancelAlwaysTakesEffect` (BackfillJobs) | `BackfillJobs.cfg` as it is | an exception ends the backfill task, not the process: nothing restarts it, and a cancel asked for later stays asked for (`ingestion/listener.py:92`); `CancelTakesEffect`, which passes, excepts this end |
| `NothingMissed` (ChatIngestion) | `ChatIngestion.cfg`, `IngestLimit = 0` | `TELEGRAM_INGEST_LIMIT` is not checked to be positive: catch-up asks for no messages, gets none and takes each chat for caught up (`config.py:114`) |
| `KnownChatsCaughtUp` (ChatIngestion) | `ChatIngestionGap.cfg`, `MaxBackfills = 1` | a batch or an import calls `ensure_chat` without a chat type and so erases it; the next startup denies the chat (`db/repositories.py:515`) |
| `DenyEnforced` (ChatIngestion) | `ChatIngestionGap.cfg`, `MaxPolicies = 1` | the policy is as old as the catch-up pass or the handler that read it (`ingestion/listener.py:134`) |
| `RejectedHasNoEffect` (ActionPipeline) | `ActionPipelineTarget.cfg` as it is | rejecting never looks at the review's state: an old button on an approved review marks its action rejected and answers "Review rejected.", and the created item stays (`db/repositories.py:1595`) |
| `ButtonsWork` (ActionPipeline) | the same | approving a proposal of another type than `create_item` and `update_item_status` raises, so the review the bot lists can only be rejected (`db/repositories.py:1737`) |
| `ChangedWithConsent` (ActionPipeline) | `ActionPipeline.cfg`, `MayRepeat = TRUE` | two proposals of one answer may share a key, and so a row: the first creates its item, the second queues a review of the same action, and approving that reopens the item the owner has since completed (`db/repositories.py:1538`); `ImplementsPromise` fails with it |
| `SourceAsCited` (ActionPipeline) | `ActionPipeline.cfg`, `Number <- TwoChats`, `BatchSize = 2` | a source is found by its message id alone, which two chats may share (`worker.py:238`) |
| `EveryJobReachable` (BotScreens) | `BotScreens.cfg` as it is | the answer to Start fails after the job is created, and bot_runtime commits it: it runs, and no message has its buttons (`bot_router.py:153`), from which the owner should "inspect or request cancellation" (`local-runbook.md:202`) |
| `FittingKept` (ModelLoading) | `ModelLoading.cfg` as it is | the list is old when the worker unloads from it: what others have loaded meanwhile under an id it has listed is unloaded, even if it fits or is another model (`llm_client.py:99`); the tests' server gives every instance the key of its model for an id (`tests/test_llm_client.py:113`) |
| `RepliedOnce` (BotRuntime) | `BotRuntime.cfg` | the answer is sent before the commit; a death between sends it again (`bot_runtime.py:68`) |

For most of these a theorem says exactly what is missing, by proving the property without it:

| Does not hold | Holds, for all constants |
|---|---|
| `RecoveredAtStartup` | catch-up alone leaves no gap (`CatchUpLeavesNoGap`): the live handler's cursor does |
| `KnownChatsCaughtUp` | until the first import or batch (`CaughtUpUntilImport`) |
| `DenyEnforced` | for a chat denied since the process started (`DeniedStaysUnread`) |
| `NothingMissed` | with a positive limit (`NothingMissedHolds`: `IngestLimit # 0`) |
| `RejectedHasNoEffect` | of a review rejected while it waits, for answers without repeats (`RejectedWhileAsked`) |
| `ChangedWithConsent` | for answers without repeats; for any, that only the owner's presses change an item (`ItemsAreTheOwners`) |
| `EveryJobReachable` | each lost answer or death hides one job at most (`FewUnreachable`) |
| `FittingKept` | of ids that were not given out again since the worker learnt them (`OthersUntouched`) |
| `RepliedOnce` | without deaths (`NoDeathNoRepeat`); with them, once by each life of the process (`AnsweredOncePerLife`) |

`WORKER_STATUS_AUTO_APPLY_THRESHOLD` is described as controlling automatic status updates
(`local-runbook.md:146`), and is read by nothing.

## Not modelled

- *One-shot `run backfill`* is one transaction B without a job, and the documents forbid
  it beside the listener. `BackfillRunner` is used by tests only.
- *Configuration, environment, logging*: parsing at start. What matters to behaviour is a constant.
- *CLI, `run all`, `run scheduler`*: dispatch. `run all` starts its processes one after another, and
  since the worker does not return the bot never starts; `docker-compose.yml` does not use it.
- *Health checks*: independent reads folded into the worst status, without state.
- *Menus, pages, formatting*: what BotScreens and ActionPipeline leave out is text that is only
  shown (help, health, logs, settings, chat details). *Bot sessions* are saved by nothing.
- *Scoring, content, status words*: regular expressions with weights. ActionPipeline
  lets the verdict be anything.
- *Normalizer and Telethon adapter*, except what iterators return and that a conversion may fail.
- *Prompt and answer text*, except what the parser lets through.
- *Migrations* (one idempotent script), the *read-only guard* (a constant set), and
  *runtime events and LLM run records* other than `update_failed`, which are only shown.

## Plan

The modules were written most important first: jobs, ingestion, pipeline, bot, model
loading, screens. What is left, in order:

1. The scorer and the status words as pure operators, checked against the thresholds of
   the configuration; the sessions of the bot once something saves them.
2. One composition of BackfillJobs and ChatIngestion over the archive, each seeing the other as
   steps of `ArchivePromise`, which both implement.
3. More of what is only assumed of data: that a page of chats without titles is ordered by id as text.
