----------------------------- MODULE BotScreens -----------------------------
(***************************************************************************)
(* What the owner sees and presses in the chat with the bot to import      *)
(* history and to set the read policy.  A message of the bot stays in the  *)
(* chat with its buttons, so any button ever shown may be pressed, however *)
(* old the list is that it was shown with; every handler works from the    *)
(* callback data of the button and from what the database says by then.    *)
(*                                                                         *)
(* Meanwhile the listener writes the rows the pages list: a live update    *)
(* stores the type and title of its chat, a backfill batch erases them.    *)
(* An update of the bot is one transaction: handler, answer, commit.  The  *)
(* answer may get lost, and the process may die between the two.           *)
(***************************************************************************)
EXTENDS Integers, FiniteSets

CONSTANTS Chats,        \* chat ids: integers
          Kind,         \* what Telegram says each chat is: "chat" or "channel"
          BaseDenied,   \* TELEGRAM_LISTENER_DENIED_CHAT_IDS
          BaseAllowed,  \* TELEGRAM_LISTENER_ALLOWED_CHANNEL_IDS
          Titles,       \* bound: titles, by their place in the alphabet
          Stored,       \* the titles of the chats stored already at the start
          Days,         \* BACKFILL_DAY_OPTIONS
          PageSize,     \* BACKFILL_CHAT_PAGE_SIZE
          MaxJobs,      \* bound: values of the sequence backfill_job_id
          MaxScreens,   \* bound: different messages of the bot
          MaxFaults,    \* bound: answers lost, deaths of the bot
          MaxUpdates,   \* bound: live updates
          MaxBatches    \* bound: backfill batches

ASSUME ScreensAssumption ==
  /\ Chats \subseteq Int /\ IsFiniteSet(Chats)
  /\ Kind \in [Chats -> {"chat", "channel"}]
  /\ BaseDenied \subseteq Chats /\ BaseAllowed \subseteq Chats
  /\ Titles \subseteq Nat \ {0}
  /\ DOMAIN Stored \subseteq Chats /\ Stored \in [DOMAIN Stored -> Titles \cup {0}]
  /\ PageSize \in Nat \ {0}
  /\ MaxJobs \in Nat /\ MaxScreens \in Nat /\ MaxFaults \in Nat
  /\ MaxUpdates \in Nat /\ MaxBatches \in Nat

VARIABLES
  rows,      \* rows[c]: row of the chats table
  override,  \* override[c]: row of chat_policy_overrides
  jobs,      \* jobs[j]: row of backfill_jobs
  lastJob,   \* the sequence of backfill_job_id; a rollback does not undo it
  screens,   \* the messages of the bot in the chat with the owner
  silent,    \* history variable: jobs whose creation was never answered
  walk,      \* history variable: the owner pages through the chats with Next
  faults, updates, batches  \* bounded so far

boundVars == <<faults, updates, batches>>
vars == <<rows, override, jobs, lastJob, screens, silent, walk, boundVars>>

-----------------------------------------------------------------------------
(* The tables.  Title 0 is the empty string.                               *)

Rows  == [type : {"absent", "unknown", "chat", "channel"}, title : Titles \cup {0}]
NoRow == [type |-> "absent", title |-> 0]

Active == {"pending", "running", "cancel_requested"}
JobRows == [chat : Chats, days : Days,
            status : Active \cup {"completed", "failed", "cancelled"}]
NoJob == [status |-> "absent"]
Exists(j) == jobs[j].status # "absent"

Denied == BaseDenied \cup {c \in Chats : override[c] = "deny"}
Allowed == (BaseAllowed \cup {c \in Chats : override[c] = "allow"}) \ Denied

(* The WHERE clause that list_backfill_chats and get_backfill_chat share.  *)
EligibleByType(c) ==  \* faulty: the denial list is not part of the query
  rows[c].type = "chat" \/ (rows[c].type = "channel" /\ c \in Allowed)
Eligible(c) ==
  /\ c \notin Denied
  /\ rows[c].type = "chat" \/ (rows[c].type = "channel" /\ c \in Allowed)

(* ORDER BY COALESCE(NULLIF(title, ''), chat_id::TEXT), chat_id            *)
Before(a, b) ==
  rows[a].title < rows[b].title \/ (rows[a].title = rows[b].title /\ a < b)
Place(c, S) == Cardinality({d \in S : Before(d, c)})

PageAndOne(S, page) ==  \* faulty: pages are asked for one line too far apart
  {c \in S : Place(c, S) \in page * (PageSize + 1) .. page * (PageSize + 1) + PageSize - 1}
Page(S, page) == {c \in S : Place(c, S) \in page * PageSize .. (page + 1) * PageSize - 1}

BackfillChats == {c \in Chats : Eligible(c)}
PolicyChats   == {c \in Chats : rows[c].type # "absent"}

-----------------------------------------------------------------------------
(* The messages, and the buttons the ..._markup functions put under them.  *)

Menu == [kind |-> "menu"]
Periods == [kind |-> "periods"]
ChatPage(days, page) ==
  [kind |-> "chats", days |-> days, page |-> page, lines |-> Page(BackfillChats, page)]
Confirmation(days, c) == [kind |-> "confirm", days |-> days, chat |-> c]
JobMessage(j, row) == [kind |-> "job", job |-> j, chat |-> row.chat, days |-> row.days,
                       active |-> row.status \in {"pending", "running"}]
PolicyPage(page) ==
  [kind |-> "policy", page |-> page, lines |-> Page(PolicyChats, page)]

(* The callback data: "menu:backfill:0", "bf:d:30", "bf:p:30:1", ...       *)
Command(what)         == [do |-> what]
ChooseDays(d)         == [do |-> "d", days |-> d]
TurnTo(d, page)       == [do |-> "p", days |-> d, page |-> page]
ChooseChat(d, page, c) == [do |-> "c", days |-> d, page |-> page, chat |-> c]
Start(d, c)           == [do |-> "start", days |-> d, chat |-> c]
ShowStatus(j)         == [do |-> "status", job |-> j]
Cancel(j)             == [do |-> "cancel", job |-> j]
Policy(state, c)      == [do |-> "policy", state |-> state, chat |-> c]
TurnPolicyTo(page)    == [do |-> "policyPage", page |-> page]

Turns(page) == IF page > 0 THEN {page - 1, page + 1} ELSE {page + 1}

ChatButtonsThatStart(s) ==  \* faulty: a chat's button starts its job
  {Start(s.days, c) : c \in s.lines}
ChatButtons(s) == {ChooseChat(s.days, s.page, c) : c \in s.lines}

Buttons(s) ==
  {Command("backfill"), Command("blacklist")} \cup
  (CASE s.kind = "menu"    -> {}
    [] s.kind = "periods" -> {ChooseDays(d) : d \in Days}
    [] s.kind = "chats"   -> ChatButtons(s) \cup {TurnTo(s.days, p) : p \in Turns(s.page)}
    [] s.kind = "confirm" -> {Start(s.days, s.chat), ChooseDays(s.days)}
    [] s.kind = "job"     -> {ShowStatus(s.job)} \cup (IF s.active THEN {Cancel(s.job)} ELSE {})
    [] s.kind = "policy"  -> {Policy(o, c) : o \in {"allow", "deny", "none"}, c \in s.lines}
                             \cup {TurnPolicyTo(p) : p \in Turns(s.page)})

-----------------------------------------------------------------------------
(* The walk of an owner who presses Next from page to page.                *)

NoWalk == [page |-> 0, start |-> {}, seen |-> {}, over |-> FALSE, steady |-> FALSE]

WalkOn(s) ==
  IF s.kind = "chats" /\ s.page = 0
  THEN [page |-> 0, start |-> BackfillChats, seen |-> s.lines, over |-> s.lines = {},
        steady |-> TRUE]
  ELSE IF s.kind = "chats" /\ s.page = walk.page + 1
       THEN [walk EXCEPT !.page = s.page, !.seen = @ \cup s.lines, !.over = s.lines = {}]
       ELSE walk

(* No chat leaves the list or is renamed.  A chat that enters and leaves   *)
(* between two pages pulls others back over a border already passed.       *)
Watch(w) ==
  walk' = [w EXCEPT !.steady = @ /\ \A c \in BackfillChats :
                                      Eligible(c)' /\ rows'[c].title = rows[c].title]

Init ==
  /\ rows = [c \in Chats |-> IF c \in DOMAIN Stored
                             THEN [type |-> Kind[c], title |-> Stored[c]] ELSE NoRow]
  /\ override = [c \in Chats |-> "none"]
  /\ jobs = [j \in 1 .. MaxJobs |-> NoJob]
  /\ lastJob = 0
  /\ screens = {Menu}
  /\ silent = {}
  /\ walk = NoWalk
  /\ faults = 0 /\ updates = 0 /\ batches = 0

-----------------------------------------------------------------------------
(* The handlers of BotServices.                                            *)

LookingButtons == {"backfill", "blacklist", "d", "p", "c", "status", "policyPage"}

NewJobQueued(b) ==  \* faulty: a status the schema does not have
  [chat |-> b.chat, days |-> b.days, status |-> "queued"]
NewJob(b) == [chat |-> b.chat, days |-> b.days, status |-> "pending"]
FreshByCount ==  \* faulty: the number of rows and one
  Cardinality({j \in 1 .. MaxJobs : Exists(j)}) + 1
Fresh == lastJob + 1

IsAvailable(b) == Eligible(b.chat)

StartAnswerAlways(b) ==  \* faulty: back to the periods after a job as well
  Periods
StartAnswer(b) == IF IsAvailable(b) THEN JobMessage(Fresh, NewJob(b)) ELSE Periods

Answer(b) ==
  CASE b.do = "backfill"    -> Periods
    [] b.do = "blacklist"   -> PolicyPage(0)
    [] b.do = "d"           -> ChatPage(b.days, 0)
    [] b.do = "p"           -> ChatPage(b.days, b.page)
    [] b.do = "c"           -> IF Eligible(b.chat) THEN Confirmation(b.days, b.chat) ELSE Periods
    [] b.do = "start"       -> StartAnswer(b)
    [] b.do = "status"      -> IF Exists(b.job) THEN JobMessage(b.job, jobs[b.job]) ELSE Periods
    [] b.do = "policy"      -> PolicyPage(0)
    [] b.do = "policyPage" -> PolicyPage(b.page)

StartBackfill(b) ==
  /\ b.do = "start" /\ IsAvailable(b)
  /\ lastJob' = Fresh
  /\ jobs' = [jobs EXCEPT ![Fresh] = NewJob(b)]
  /\ UNCHANGED override

RequestCancel(b) ==
  /\ b.do = "cancel"
  /\ jobs' = [jobs EXCEPT ![b.job] =
                IF Exists(b.job) /\ jobs[b.job].status \in {"pending", "running"}
                THEN [jobs[b.job] EXCEPT !.status = "cancel_requested"] ELSE @]
  /\ UNCHANGED <<lastJob, override>>

SetPolicy(b) ==
  /\ b.do = "policy"
  /\ override' = [override EXCEPT ![b.chat] = b.state]
  /\ UNCHANGED <<lastJob, jobs>>

Look(b) ==
  /\ b.do \in LookingButtons \/ (b.do = "start" /\ ~IsAvailable(b))
  /\ UNCHANGED <<lastJob, jobs, override>>

Handle(b) == StartBackfill(b) \/ RequestCancel(b) \/ SetPolicy(b) \/ Look(b)

(* request_cancel is answered with a notice, everything else with a        *)
(* message.                                                                *)
Say(b) ==
  IF b.do = "cancel"
  THEN UNCHANGED <<screens, walk>>
  ELSE /\ screens' = screens \cup {Answer(b)}
       /\ Watch(WalkOn(Answer(b)))

Pressed(b) ==
  /\ Cardinality(screens) < MaxScreens
  /\ b.do = "start" => lastJob < MaxJobs
  /\ UNCHANGED <<rows, updates, batches>>

Press(b) ==
  /\ Pressed(b)
  /\ Handle(b) /\ Say(b)
  /\ UNCHANGED <<silent, faults>>

(* answerCallbackQuery or sendMessage fails: bot_runtime commits what the  *)
(* handler has written.                                                    *)
PressUnanswered(b) ==
  /\ Pressed(b)
  /\ faults < MaxFaults /\ faults' = faults + 1
  /\ Handle(b)
  /\ silent' = silent \cup ((1 .. lastJob') \ (1 .. lastJob))
  /\ UNCHANGED screens
  /\ Watch(walk)

(* The process dies between answer and commit.  Telegram delivers the      *)
(* press again: one more Press of the same button.                         *)
PressUndone(b) ==
  /\ Pressed(b)
  /\ faults < MaxFaults /\ faults' = faults + 1
  /\ lastJob' = IF b.do = "start" /\ IsAvailable(b) THEN Fresh ELSE lastJob
  /\ UNCHANGED <<jobs, override, silent>>
  /\ Say(b)

-----------------------------------------------------------------------------
(* The listener.                                                           *)

(* A live update of a chat the policy lets it read.                        *)
LiveUpdate(c, title) ==
  /\ updates < MaxUpdates /\ updates' = updates + 1
  /\ c \notin Denied /\ (Kind[c] = "channel" => c \in Allowed)
  /\ rows' = [rows EXCEPT ![c] = [type |-> Kind[c], title |-> title]]
  /\ UNCHANGED <<override, jobs, lastJob, screens, silent, faults, batches>>
  /\ Watch(walk)

IsNext(j) == Exists(j) /\ jobs[j].status \in Active
            /\ \A i \in 1 .. j - 1 : Exists(i) => jobs[i].status \notin Active
Becomes(j, status) == jobs' = [jobs EXCEPT ![j].status = status]

(* A batch commits: ensure_chat without type and title, then the messages. *)
RunBatch(j, status) ==
  /\ batches < MaxBatches /\ batches' = batches + 1
  /\ IsNext(j) /\ jobs[j].status # "cancel_requested"
  /\ rows' = [rows EXCEPT ![jobs[j].chat] = [type |-> "unknown", title |-> 0]]
  /\ Becomes(j, status)
  /\ UNCHANGED <<override, lastJob, screens, silent, faults, updates>>
  /\ Watch(walk)

(* A batch fails and is rolled back, or the job was to be cancelled.       *)
EndJob(j) ==
  /\ IsNext(j)
  /\ Becomes(j, IF jobs[j].status = "cancel_requested" THEN "cancelled" ELSE "failed")
  /\ UNCHANGED <<rows, override, lastJob, screens, silent, walk, boundVars>>

-----------------------------------------------------------------------------
Bot == \E b \in UNION {Buttons(s) : s \in screens} :
         Press(b) \/ PressUnanswered(b) \/ PressUndone(b)
Listener ==
  \/ \E c \in Chats, title \in Titles \cup {0} : LiveUpdate(c, title)
  \/ \E j \in 1 .. MaxJobs :
       \/ \E status \in {"running", "completed"} : RunBatch(j, status)
       \/ EndJob(j)
Next == Bot \/ Listener
Spec == Init /\ [][Next]_vars

-----------------------------------------------------------------------------
(* The tables and the messages have the values the schema and the markup   *)
(* give them, and no number of the sequence is used for a row before it is *)
(* drawn.                                                                  *)
TypeOK ==
  /\ rows \in [Chats -> Rows]
  /\ override \in [Chats -> {"none", "allow", "deny"}]
  /\ jobs \in [1 .. MaxJobs -> JobRows \cup {NoJob}]
  /\ lastJob \in 0 .. MaxJobs
  /\ \A j \in 1 .. MaxJobs : Exists(j) => j <= lastJob
  /\ silent \subseteq 1 .. lastJob

(* No job without a confirmation: for each one the bot has shown the       *)
(* question with its chat and its number of days.                          *)
ConfirmedFirst ==
  \A j \in 1 .. MaxJobs : Exists(j) => Confirmation(jobs[j].days, jobs[j].chat) \in screens

(* A job message never comes to mean another job: one number, one chat and *)
(* period, although a message may outlive the rollback of its job, so that *)
(* its Cancel button stops no job but the one the owner reads about.       *)
NumberMeansOneJob ==
  \A s \in {m \in screens : m.kind = "job"} :
    /\ \A t \in {m \in screens : m.kind = "job"} :
          s.job = t.job => s.chat = t.chat /\ s.days = t.days
    /\ Exists(s.job) => s.chat = jobs[s.job].chat /\ s.days = jobs[s.job].days

(* Whichever old button is pressed, no job begins for a chat that is       *)
(* denied at that moment, or for a channel that is not allowed.            *)
StartedAsAllowed ==
  [][\A j \in 1 .. MaxJobs : ~Exists(j) /\ Exists(j)' =>
        /\ jobs'[j].chat \notin Denied
        /\ Kind[jobs'[j].chat] = "channel" => jobs'[j].chat \in Allowed]_vars

(* An open job can be looked at and cancelled: its message is in the chat, *)
(* unless the answer to its Start got lost.                                *)
Reachable(j) == \E s \in screens : s.kind = "job" /\ s.job = j
CancelReachable ==
  \A j \in 1 .. MaxJobs : Exists(j) => Reachable(j) \/ j \in silent

(* docs/operations/local-runbook.md: "Use the job status and cancel        *)
(* buttons from the bot to inspect or request cancellation."               *)
EveryJobReachable == \A j \in 1 .. MaxJobs : Exists(j) => Reachable(j)

(* An owner who presses Next until a page is empty has seen every chat the *)
(* list had when he began, whatever chats came in meanwhile, as long as no *)
(* chat left the list or was renamed.                                      *)
WalkMissesNothing == walk.over /\ walk.steady => walk.start \subseteq walk.seen

(* Each lost answer or death hides one job at most from the owner.         *)
FewUnreachable ==
  Cardinality({j \in 1 .. MaxJobs : Exists(j) /\ ~Reachable(j)}) <= faults
=============================================================================
