--------------------------- MODULE BackfillJobs ---------------------------
(***************************************************************************)
(* Bot-managed backfill: the rows of backfill_jobs, the owner's bot that   *)
(* creates and cancels them, and the backfill loop of app-listener that    *)
(* executes them one bounded batch at a time.                              *)
(*                                                                         *)
(* One poll of the loop spans two Postgres transactions.  Transaction A    *)
(* (ConnectionScopedBackfillJobRunner) claims a job, holds its row lock    *)
(* over the whole batch and records the outcome; transaction B             *)
(* (BackfillService) upserts the batch and commits before A does.  The     *)
(* process may die between any two steps.                                  *)
(*                                                                         *)
(* Message ids stand for dates as well: within a chat Telegram's ids and   *)
(* dates grow together, so a job's period is an interval of ids.           *)
(***************************************************************************)
EXTENDS Integers, FiniteSets

CONSTANTS MaxJobs,      \* bound: how many jobs the owner creates
          Chats,        \* chats the owner can pick
          MaxMessages,  \* bound: how many messages each chat ever gets
          BatchSize,    \* backfill_batch_size
          MaxCrashes,   \* bound: process deaths (listener or bot)
          MaxDbErrors   \* bound: lost database connections in the listener

ASSUME BackfillAssumption ==
  /\ MaxJobs \in Nat
  /\ Chats # {}
  /\ MaxMessages \in Nat
  /\ BatchSize \in Nat \ {0}
  /\ MaxCrashes \in Nat
  /\ MaxDbErrors \in Nat

Jobs == 1 .. MaxJobs
Nobody == 0     \* a job id that no row has

VARIABLES
  history,   \* history[c]: message ids Telegram can return for chat c
  latest,    \* latest[c]: the newest id chat c ever had
  messages,  \* messages[c]: committed rows of the messages table
  jobs,      \* jobs[j]: committed row j of backfill_jobs
  pc,        \* where the backfill loop is
  claimed,   \* the job whose row transaction A has locked
  batch,     \* ids transaction B has upserted
  looping,   \* FALSE until the run before _start_backfill_loop is over
  botJob,    \* the job whose row the bot's open transaction has updated
  crashes, dbErrors  \* faults so far

telegramVars == <<history, latest>>
listenerVars == <<pc, claimed, batch, looping>>
faultVars    == <<crashes, dbErrors>>
vars == <<telegramVars, messages, jobs, listenerVars, botJob, faultVars>>

ActiveStatuses   == {"pending", "running", "cancel_requested"}
TerminalStatuses == {"completed", "cancelled", "failed"}
Statuses == {"absent"} \cup ActiveStatuses \cup TerminalStatuses
LoopStates == {"idle", "claimed", "read", "saved", "stopped", "down"}
InTransaction == {"claimed", "read", "saved"}

(* A row; "from" and "to" are from_date and to_date as ids.  A NULL        *)
(* next_before_message_id excludes nothing that to_date admits, so it is   *)
(* before = to + 1.                                                        *)
Rows == [status : Statuses, chat : Chats, from : Nat, to : Nat,
         before : Nat, saved : Nat]
NoRow == [status |-> "absent", chat |-> CHOOSE c \in Chats : TRUE,
          from |-> 1, to |-> 0, before |-> 1, saved |-> 0]

Init ==
  /\ history = [c \in Chats |-> {}]
  /\ latest = [c \in Chats |-> 0]
  /\ messages = [c \in Chats |-> {}]
  /\ jobs = [j \in Jobs |-> NoRow]
  /\ pc = "idle" /\ claimed = Nobody /\ batch = {} /\ looping = FALSE
  /\ botJob = Nobody
  /\ crashes = 0 /\ dbErrors = 0

-----------------------------------------------------------------------------
(* Telegram: messages arrive with growing ids and may be deleted.          *)

NewMessage(c) ==
  /\ latest[c] < MaxMessages
  /\ latest' = [latest EXCEPT ![c] = @ + 1]
  /\ history' = [history EXCEPT ![c] = @ \cup {latest[c] + 1}]
  /\ UNCHANGED <<messages, jobs, listenerVars, botJob, faultVars>>

DeleteMessage(c, m) ==
  /\ m \in history[c]
  /\ history' = [history EXCEPT ![c] = @ \ {m}]
  /\ UNCHANGED <<latest, messages, jobs, listenerVars, botJob, faultVars>>

-----------------------------------------------------------------------------
(* The bot: one update is handled in one transaction, committed after the  *)
(* reply is sent.                                                          *)

UnlockedByBot(j) == botJob # j  \* faulty: the claim keeps no row lock
Unlocked(j) == ~(pc \in InTransaction /\ claimed = j) /\ botJob # j

(* Start pressed on chat c for the last n days: the period ends now, at    *)
(* the newest message, and begins at message f (f = to + 1 when the period *)
(* holds no message).                                                      *)
CreateJob(j, c, f) ==
  /\ botJob = Nobody
  /\ jobs[j].status = "absent"
  /\ \A i \in Jobs : i < j => jobs[i].status # "absent"
  /\ f \in 1 .. latest[c] + 1
  /\ jobs' = [jobs EXCEPT ![j] =
                [status |-> "pending", chat |-> c, from |-> f, to |-> latest[c],
                 before |-> latest[c] + 1, saved |-> 0]]
  /\ UNCHANGED <<telegramVars, messages, listenerVars, botJob, faultVars>>

(* Cancel pressed: the UPDATE waits for a row the listener has locked, and *)
(* takes the row when its committed status still allows it.                *)
CancelAnyStatus(j) ==  \* faulty: the UPDATE without its status filter
  /\ botJob = Nobody
  /\ Unlocked(j)
  /\ jobs[j].status # "absent"
  /\ botJob' = j
  /\ UNCHANGED <<telegramVars, messages, jobs, listenerVars, faultVars>>
RequestCancel(j) ==
  /\ botJob = Nobody
  /\ Unlocked(j)
  /\ jobs[j].status \in {"pending", "running"}
  /\ botJob' = j
  /\ UNCHANGED <<telegramVars, messages, jobs, listenerVars, faultVars>>

CancelAtOnce ==  \* faulty: the bot ends the job itself
  /\ botJob # Nobody
  /\ jobs' = [jobs EXCEPT ![botJob].status = "cancelled"]
  /\ botJob' = Nobody
  /\ UNCHANGED <<telegramVars, messages, listenerVars, faultVars>>
CommitCancel ==
  /\ botJob # Nobody
  /\ jobs' = [jobs EXCEPT ![botJob].status = "cancel_requested"]
  /\ botJob' = Nobody
  /\ UNCHANGED <<telegramVars, messages, listenerVars, faultVars>>

(* The bot process dies before its commit; docker restarts it.             *)
BotCrash ==
  /\ botJob # Nobody
  /\ crashes < MaxCrashes
  /\ crashes' = crashes + 1
  /\ botJob' = Nobody
  /\ UNCHANGED <<telegramVars, messages, jobs, listenerVars, dbErrors>>

-----------------------------------------------------------------------------
(* The listener's backfill loop.                                           *)

(* claim_next_job: the oldest active row nobody has locked.                *)
ClaimableUnlessCancelled(j) ==  \* faulty: cancel_requested not selected
  jobs[j].status \in {"pending", "running"} /\ Unlocked(j)
ClaimableOnce(j) ==  \* faulty: a running job is not resumed
  jobs[j].status \in {"pending", "cancel_requested"} /\ Unlocked(j)
Claimable(j) == jobs[j].status \in ActiveStatuses /\ Unlocked(j)
NextJob(j) == Claimable(j) /\ \A i \in Jobs : i < j => ~Claimable(i)

(* Transaction A ends: the row takes its new value, the lock is released   *)
(* and the loop goes back to sleep.                                        *)
EndRun(j, row) ==
  /\ jobs' = [jobs EXCEPT ![j] = row]
  /\ pc' = "idle" /\ claimed' = Nobody /\ batch' = {} /\ looping' = TRUE

(* The first run of a new process finds no job; the loop starts.           *)
EnterLoop ==
  /\ pc = "idle" /\ ~looping
  /\ \A j \in Jobs : ~Claimable(j)
  /\ looping' = TRUE
  /\ UNCHANGED <<telegramVars, messages, jobs, pc, claimed, batch, botJob, faultVars>>

CancelJob(j) ==
  /\ pc = "idle"
  /\ NextJob(j)
  /\ jobs[j].status = "cancel_requested"
  /\ EndRun(j, [jobs[j] EXCEPT !.status = "cancelled"])
  /\ UNCHANGED <<telegramVars, messages, botJob, faultVars>>

(* The claim sets the row to 'running' inside A: nobody else sees it yet.  *)
ClaimAnyJob(j) ==  \* faulty: no look at the status before the batch
  /\ pc = "idle"
  /\ NextJob(j)
  /\ pc' = "claimed" /\ claimed' = j
  /\ UNCHANGED <<telegramVars, messages, jobs, batch, looping, botJob, faultVars>>
ClaimJob(j) ==
  /\ pc = "idle"
  /\ NextJob(j)
  /\ jobs[j].status # "cancel_requested"
  /\ pc' = "claimed" /\ claimed' = j
  /\ UNCHANGED <<telegramVars, messages, jobs, batch, looping, botJob, faultVars>>

(* What one call of iter_backfill_messages may yield: going back from      *)
(* `before` and to_date, the newest BatchSize messages that are not older  *)
(* than from_date.                                                         *)
InPeriod(row, m) == row.from <= m /\ m <= row.to
RemainingThroughCursor(row) ==  \* faulty: max_id taken as inclusive
  {m \in history[row.chat] : InPeriod(row, m) /\ m <= row.before}
RemainingWithoutStart(row) ==   \* faulty: no break at from_date
  {m \in history[row.chat] : m < row.before}
Remaining(row) == {m \in history[row.chat] : InPeriod(row, m) /\ m < row.before}
OldestFirst(row, S) ==  \* faulty: reverse=True
  /\ S \subseteq Remaining(row)
  /\ \A m \in Remaining(row) \ S : \A k \in S : k < m
  /\ S = Remaining(row) \/ Cardinality(S) = BatchSize
  /\ Cardinality(S) <= BatchSize
NewestFirst(row, S) ==
  /\ S \subseteq Remaining(row)
  /\ \A m \in Remaining(row) \ S : \A k \in S : m < k
  /\ S = Remaining(row) \/ Cardinality(S) = BatchSize
  /\ Cardinality(S) <= BatchSize

ReadBatch ==
  /\ pc = "claimed"
  /\ \E S \in SUBSET Remaining(jobs[claimed]) :
        /\ NewestFirst(jobs[claimed], S)
        /\ batch' = S
  /\ pc' = "read"
  /\ UNCHANGED <<telegramVars, messages, jobs, claimed, looping, botJob, faultVars>>

(* Transaction B commits the batch.                                        *)
CommitBatch ==
  /\ pc = "read"
  /\ messages' = [messages EXCEPT ![jobs[claimed].chat] = @ \cup batch]
  /\ pc' = "saved"
  /\ UNCHANGED <<telegramVars, jobs, claimed, batch, looping, botJob, faultVars>>

(* Telegram, the normalizer or B fails: B is rolled back and A commits the *)
(* failure.                                                                *)
FailBatch ==
  /\ pc \in {"claimed", "read"}
  /\ EndRun(claimed, [jobs[claimed] EXCEPT !.status = "failed"])
  /\ UNCHANGED <<telegramVars, messages, botJob, faultVars>>

(* The service's result is recorded and A commits.                         *)
Progress(row, S, low) ==
  [row EXCEPT !.saved = @ + Cardinality(S), !.before = low, !.status = "running"]

CompleteAfterOneBatch ==  \* faulty: the continuation cursor is not looked at
  /\ pc = "saved"
  /\ EndRun(claimed, [jobs[claimed] EXCEPT !.status = "completed"])
  /\ UNCHANGED <<telegramVars, messages, botJob, faultVars>>
CompleteJob ==
  /\ pc = "saved"
  /\ batch = {}
  /\ EndRun(claimed, [jobs[claimed] EXCEPT !.status = "completed"])
  /\ UNCHANGED <<telegramVars, messages, botJob, faultVars>>

RecordProgress ==
  /\ pc = "saved"
  /\ \E low \in batch :
        /\ \A k \in batch : low <= k
        /\ EndRun(claimed, Progress(jobs[claimed], batch, low))
  /\ UNCHANGED <<telegramVars, messages, botJob, faultVars>>

-----------------------------------------------------------------------------
(* Faults of the listener.  Whatever ends a run rolls both transactions    *)
(* back and closes their connections, which frees the row lock.            *)

LeaveRunOpen(where) ==  \* faulty: the connection is not closed
  pc' = where /\ batch' = {} /\ looping' = FALSE /\ UNCHANGED claimed
LeaveRun(where) ==
  pc' = where /\ batch' = {} /\ looping' = FALSE /\ claimed' = Nobody

(* The process dies. *)
Crash ==
  /\ pc # "down"
  /\ crashes < MaxCrashes
  /\ crashes' = crashes + 1
  /\ LeaveRun("down")
  /\ UNCHANGED <<telegramVars, messages, jobs, botJob, dbErrors>>

(* Transaction A's connection fails, outside the try of _run_once: the     *)
(* exception ends the process during the first run, and afterwards only    *)
(* the backfill task, with the listener still connected.                   *)
DbError ==
  /\ pc \in InTransaction \cup {"idle"}
  /\ dbErrors < MaxDbErrors
  /\ dbErrors' = dbErrors + 1
  /\ LeaveRun(IF looping THEN "stopped" ELSE "down")
  /\ UNCHANGED <<telegramVars, messages, jobs, botJob, crashes>>

(* docker: restart unless-stopped                                          *)
Restart ==
  /\ pc = "down"
  /\ pc' = "idle"
  /\ UNCHANGED <<telegramVars, messages, jobs, claimed, batch, looping, botJob, faultVars>>

-----------------------------------------------------------------------------
Telegram == \E c \in Chats : NewMessage(c) \/ \E m \in history[c] : DeleteMessage(c, m)

Bot ==
  \/ \E j \in Jobs, c \in Chats : \E f \in 1 .. latest[c] + 1 : CreateJob(j, c, f)
  \/ \E j \in Jobs : RequestCancel(j)
  \/ CommitCancel
  \/ BotCrash

Listener ==
  \/ EnterLoop
  \/ \E j \in Jobs : CancelJob(j) \/ ClaimJob(j)
  \/ ReadBatch \/ CommitBatch \/ FailBatch
  \/ CompleteJob \/ RecordProgress

Next == Telegram \/ Bot \/ Listener \/ Crash \/ DbError \/ Restart

Spec == Init /\ [][Next]_vars

(* The poll interval is finite, every Telegram call ends with a result or  *)
(* an exception, the bot commits each update it handles, and docker        *)
(* restarts a dead process.  That no live update arrives while a batch     *)
(* awaits Telegram is assumed here; ChatIngestion shows what happens then. *)
Fairness == WF_vars(Listener) /\ WF_vars(CommitCancel) /\ WF_vars(Restart)
FairSpec == Spec /\ Fairness

-----------------------------------------------------------------------------
(* Rows, the loop and the locks have the values the schema and the code    *)
(* give them, and the row lock of claim_next_job is held exactly while     *)
(* transaction A is open.                                                  *)
TypeOK ==
  /\ history \in [Chats -> SUBSET (1 .. MaxMessages)]
  /\ latest \in [Chats -> 0 .. MaxMessages]
  /\ messages \in [Chats -> SUBSET (1 .. MaxMessages)]
  /\ jobs \in [Jobs -> Rows]
  /\ pc \in LoopStates
  /\ claimed \in Jobs \cup {Nobody} /\ (claimed # Nobody <=> pc \in InTransaction)
  /\ batch \in SUBSET (1 .. MaxMessages)
  /\ looping \in BOOLEAN
  /\ botJob \in Jobs \cup {Nobody}
  /\ crashes \in Nat /\ dbErrors \in Nat

Exists(j) == jobs[j].status # "absent"

(* The cursor next_before_message_id never runs ahead of the archive:      *)
(* every message of the period at or above it that Telegram still has is   *)
(* stored, whatever crash fell between the commits of B and A.             *)
CoveredAboveCursor ==
  \A j \in Jobs : Exists(j) =>
    \A m \in history[jobs[j].chat] :
      InPeriod(jobs[j], m) /\ m >= jobs[j].before => m \in messages[jobs[j].chat]

(* A job the bot shows as completed has archived its whole period.         *)
CompletedMeansSaved ==
  \A j \in Jobs : jobs[j].status = "completed" =>
    \A m \in history[jobs[j].chat] :
      InPeriod(jobs[j], m) => m \in messages[jobs[j].chat]

(* saved_count counts no message twice: a batch that is read again after a *)
(* crash, or read at two cursors, adds at most the messages stored between *)
(* the cursor and to_date.                                                 *)
CountNeverAhead ==
  \A j \in Jobs : Exists(j) =>
    jobs[j].saved <= Cardinality({m \in messages[jobs[j].chat] :
                                   InPeriod(jobs[j], m) /\ m >= jobs[j].before})

(* Backfill stores nothing outside a period the owner asked for.           *)
OnlyRequestedPeriods ==
  \A c \in Chats : \A m \in messages[c] :
    \E j \in Jobs : Exists(j) /\ jobs[j].chat = c /\ InPeriod(jobs[j], m)

(* A committed cancel is never overwritten by record_progress, which sets  *)
(* 'running' without looking, nor by a failure or a completion.            *)
CancelIsNeverLost ==
  [][\A j \in Jobs : jobs[j].status = "cancel_requested" =>
        jobs'[j] \in {jobs[j], [jobs[j] EXCEPT !.status = "cancelled"]}]_vars

(* A finished job is never touched again, neither by the loop nor by a     *)
(* Cancel button pressed on an old message of the bot.                     *)
FinishedIsFinal ==
  [][\A j \in Jobs : jobs[j].status \in TerminalStatuses => jobs'[j] = jobs[j]]_vars

(* Messages are stored only for a job that is not cancelled, nor asked to. *)
NothingSavedAfterCancel ==
  [][messages' # messages =>
        claimed # Nobody /\ jobs[claimed].status \in {"pending", "running"}]_vars

(* Jobs are worked on in the order the owner created them: the loop never  *)
(* leaves two earlier active jobs aside, whoever crashes, and one only     *)
(* because the bot was cancelling it.  Unless something crashed, that      *)
(* cancel is committed by now or still under way.                          *)
Overtaken == {j \in Jobs : j < claimed /\ jobs[j].status \in ActiveStatuses}
ServedInOrder ==
  /\ \A i, j \in Overtaken : i = j
  /\ crashes = 0 => \A j \in Overtaken : jobs[j].status = "cancel_requested" \/ botJob = j

(* Every recorded batch brings its job nearer to the end: the cursor goes  *)
(* back by at least as many ids as saved_count grows, and by one at least, *)
(* so a job needs no more batches than its period has ids, however many of *)
(* them are read twice.                                                    *)
EveryBatchCounts ==
  [][\A j \in Jobs : Exists(j) /\ (jobs'[j].before # jobs[j].before \/ jobs'[j].saved # jobs[j].saved) =>
        /\ jobs'[j].saved - jobs[j].saved \in 1 .. BatchSize
        /\ jobs'[j].before + (jobs'[j].saved - jobs[j].saved) <= jobs[j].before]_vars

(* The loop implements the promise made to the owner.                      *)
PromiseState(status) ==
  CASE status \in {"pending", "running"} -> "open"
    [] status = "cancel_requested" -> "stopping"
    [] OTHER -> status
Promise == INSTANCE BackfillPromise WITH
  state   <- [j \in Jobs |-> PromiseState(jobs[j].status)],
  period  <- [j \in Jobs |-> [chat |-> jobs[j].chat, from |-> jobs[j].from,
                              to |-> jobs[j].to]],
  archive <- messages
ImplementsPromise == Promise!Spec

(* The archive as ChatIngestion sees it too: a batch adds messages that    *)
(* exist to one chat, and leaves every cursor alone.                       *)
Shared == INSTANCE ArchivePromise WITH
  newest  <- latest,
  archive <- messages,
  cursor  <- [c \in Chats |-> 0]

ImplementsArchive == Shared!Spec

(* A cancel request ends in 'cancelled', even if the job is not the first  *)
(* in the queue, and despite crashes of the listener and the bot, as long  *)
(* as the background task lives, which a lost connection ends.             *)
CancelTakesEffect ==
  \A j \in Jobs : jobs[j].status = "cancel_requested" ~>
                    jobs[j].status = "cancelled" \/ pc = "stopped"

(* No job is left behind: each one the bot created ends, if the task lives.*)
EveryJobEnds ==
  \A j \in Jobs : jobs[j].status \in ActiveStatuses ~>
                    jobs[j].status \in TerminalStatuses \/ pc = "stopped"

(* The same of a cancel, with no exception.                                *)
CancelAlwaysTakesEffect ==
  \A j \in Jobs : jobs[j].status = "cancel_requested" ~> jobs[j].status = "cancelled"
=============================================================================
