-------------------------- MODULE BotScreens_proofs --------------------------
(***************************************************************************)
(* Proofs about BotScreens: whatever old button is pressed, whatever       *)
(* answer is lost and whenever the bot dies, for any chats, policies, page *)
(* size and numbers of jobs, messages, failures, updates and batches.      *)
(* The walk from page to page has an invariant of its own, WalkOK, and     *)
(* rests on places being without gaps (PlaceBefore) and never falling.     *)
(***************************************************************************)
EXTENDS BotScreens, FiniteSetTheorems, WellFoundedInduction, TLAPS

(* A stored type is the one Telegram says, or erased.                      *)
RowInv == \A c \in Chats : rows[c].type \in {"absent", "unknown", Kind[c]}

(* What a message lists are chats and periods there are, and the numbers   *)
(* of the jobs messages speak of have been drawn.                          *)
ScreenOK(s, last) ==
  /\ s.kind \in {"menu", "periods", "chats", "confirm", "job", "policy"}
  /\ s.kind = "chats" => s.days \in Days /\ s.lines \subseteq Chats
  /\ s.kind = "confirm" => s.days \in Days /\ s.chat \in Chats /\ s = Confirmation(s.days, s.chat)
  /\ s.kind = "job" => s.job \in 1 .. last
  /\ s.kind = "policy" => s.lines \subseteq Chats
ScreenInv == \A s \in screens : ScreenOK(s, lastJob)

IInv ==
  /\ TypeOK
  /\ RowInv
  /\ ScreenInv
  /\ ConfirmedFirst
  /\ NumberMeansOneJob
  /\ CancelReachable

-----------------------------------------------------------------------------
(* Buttons and what they do.                                               *)

Pressable(b) ==
  /\ b.do \in LookingButtons \cup {"start", "cancel", "policy"}
  /\ b.do \in {"d", "p", "c", "start"} => b.days \in Days
  /\ b.do \in {"c", "start", "policy"} => b.chat \in Chats
  /\ b.do \in {"status", "cancel"} => b.job \in 1 .. lastJob
  /\ b.do = "policy" => b.state \in {"allow", "deny", "none"}
  /\ b.do = "start" => Confirmation(b.days, b.chat) \in screens

LEMMA ButtonFacts == ASSUME ScreenInv, NEW s \in screens, NEW b \in Buttons(s) PROVE Pressable(b)
<1> USE DEF Command, ChooseDays, TurnTo, ChooseChat, Start, ShowStatus, Cancel, Policy, TurnPolicyTo,
            LookingButtons, Pressable
<1>1. ScreenOK(s, lastJob)
  BY DEF ScreenInv
<1>2. CASE b \in {Command("backfill"), Command("blacklist")}
  <2>1. b.do \in {"backfill", "blacklist"}
    BY <1>2
  <2>2. QED
    BY <2>1
<1>3. CASE s.kind = "menu" /\ b \notin {Command("backfill"), Command("blacklist")}
  BY <1>3 DEF Buttons
<1>4. CASE s.kind = "periods" /\ b \in {ChooseDays(d) : d \in Days}
  BY <1>4
<1>5. CASE s.kind = "chats" /\ b \in ChatButtons(s) \cup {TurnTo(s.days, p) : p \in Turns(s.page)}
  BY <1>1, <1>5 DEF ChatButtons, ScreenOK
<1>6. CASE s.kind = "confirm" /\ b \in {Start(s.days, s.chat), ChooseDays(s.days)}
  BY <1>1, <1>6 DEF ScreenOK
<1>7. CASE s.kind = "job" /\ b \in {ShowStatus(s.job), Cancel(s.job)}
  BY <1>1, <1>7 DEF ScreenOK
<1>8. CASE s.kind = "policy" /\ b \in {Policy(o, c) : o \in {"allow", "deny", "none"}, c \in s.lines}
                                       \cup {TurnPolicyTo(p) : p \in Turns(s.page)}
  BY <1>1, <1>8 DEF ScreenOK
<1>9. QED
  <2>1. s.kind \in {"menu", "periods", "chats", "confirm", "job", "policy"}
    BY <1>1 DEF ScreenOK
  <2>2. QED
    BY <1>2, <1>3, <1>4, <1>5, <1>6, <1>7, <1>8, <2>1 DEF Buttons

LEMMA RowFacts ==
  ASSUME TypeOK, NEW j \in 1 .. MaxJobs
  PROVE  /\ Exists(j) => j \in 1 .. lastJob /\ jobs[j] \in JobRows
                          /\ jobs[j].chat \in Chats /\ jobs[j].days \in Days
         /\ ~ Exists(j) => jobs[j] = NoJob
  BY DEF TypeOK, Exists, NoJob, JobRows, Active

(* Jobs keep their chat and period, and none comes or goes.                *)
SameJobs(old, new) ==
  \A j \in 1 .. MaxJobs : /\ new[j].status = "absent" <=> old[j].status = "absent"
                          /\ old[j].status # "absent" => new[j].chat = old[j].chat /\ new[j].days = old[j].days

(* A handler makes one job with the next number, or makes none.            *)
LEMMA HandlerFacts ==
  ASSUME TypeOK, NEW b, Pressable(b), Pressed(b), Handle(b)
  PROVE  /\ override' \in [Chats -> {"none", "allow", "deny"}]
         /\ jobs' \in [1 .. MaxJobs -> JobRows \cup {NoJob}]
         /\ \/ /\ b.do = "start" /\ IsAvailable(b) /\ lastJob' = Fresh /\ Fresh \in 1 .. MaxJobs
               /\ jobs' = [jobs EXCEPT ![Fresh] = NewJob(b)]
            \/ /\ ~ (b.do = "start" /\ IsAvailable(b)) /\ lastJob' = lastJob /\ SameJobs(jobs, jobs')
<1>1. CASE StartBackfill(b)
  <2>1. NewJob(b) \in JobRows
    BY <1>1 DEF StartBackfill, Pressable, NewJob, JobRows, Active
  <2>2. Fresh \in 1 .. MaxJobs
    BY <1>1, ScreensAssumption DEF StartBackfill, Pressed, Fresh, TypeOK
  <2>3. QED
    BY <1>1, <2>1, <2>2 DEF StartBackfill, TypeOK
<1>2. CASE RequestCancel(b)
  <2>1. b.do = "cancel" /\ b.job \in 1 .. MaxJobs
    BY <1>2, ScreensAssumption DEF RequestCancel, Pressable, TypeOK
  <2>2. CASE Exists(b.job) /\ jobs[b.job].status \in {"pending", "running"}
    <3>1. jobs[b.job] \in JobRows
      BY <2>1, <2>2, RowFacts
    <3>2. jobs' = [jobs EXCEPT ![b.job] = [jobs[b.job] EXCEPT !.status = "cancel_requested"]]
      BY <1>2, <2>2 DEF RequestCancel
    <3>3. /\ [jobs[b.job] EXCEPT !.status = "cancel_requested"] \in JobRows
          /\ [jobs[b.job] EXCEPT !.status = "cancel_requested"].status = "cancel_requested"
          /\ [jobs[b.job] EXCEPT !.status = "cancel_requested"].chat = jobs[b.job].chat
          /\ [jobs[b.job] EXCEPT !.status = "cancel_requested"].days = jobs[b.job].days
      BY <3>1 DEF JobRows, Active
    <3>4. QED
      BY <1>2, <2>1, <2>2, <3>2, <3>3 DEF RequestCancel, TypeOK, SameJobs, Exists
  <2>3. CASE ~ (Exists(b.job) /\ jobs[b.job].status \in {"pending", "running"})
    <3>1. jobs' = jobs
      BY <1>2, <2>3 DEF RequestCancel, TypeOK
    <3>2. QED
      BY <1>2, <2>1, <3>1 DEF RequestCancel, TypeOK, SameJobs
  <2>4. QED
    BY <2>2, <2>3
<1>3. CASE SetPolicy(b)
  BY <1>3 DEF SetPolicy, Pressable, TypeOK, SameJobs
<1>4. CASE Look(b)
  BY <1>4 DEF Look, LookingButtons, TypeOK, SameJobs
<1>5. QED
  BY <1>1, <1>2, <1>3, <1>4 DEF Handle

LEMMA AnswerFacts ==
  ASSUME TypeOK, NEW b, Pressable(b), b.do # "cancel",
         NEW last \in Nat, lastJob <= last, b.do = "start" /\ IsAvailable(b) => last = Fresh
  PROVE  /\ ScreenOK(Answer(b), last)
         /\ Answer(b).kind = "job" =>
              \/ /\ b.do = "start" /\ IsAvailable(b)
                 /\ Answer(b).job = Fresh /\ Answer(b).chat = b.chat /\ Answer(b).days = b.days
              \/ /\ Answer(b).job \in 1 .. lastJob /\ Answer(b).job \in 1 .. MaxJobs /\ Exists(Answer(b).job)
                 /\ Answer(b).chat = jobs[Answer(b).job].chat /\ Answer(b).days = jobs[Answer(b).job].days
         /\ b.do = "start" /\ IsAvailable(b) => Answer(b).kind = "job" /\ Answer(b).job = Fresh
<1> lastJob \in Nat /\ lastJob <= MaxJobs /\ MaxJobs \in Nat
  BY ScreensAssumption DEF TypeOK
<1>1. BackfillChats \subseteq Chats /\ PolicyChats \subseteq Chats
  BY DEF BackfillChats, PolicyChats
<1>2. ASSUME NEW S, S \subseteq Chats, NEW page PROVE Page(S, page) \subseteq Chats
  BY <1>2 DEF Page
<1>3. CASE b.do = "backfill"
  BY <1>3 DEF Answer, Periods, ScreenOK
<1>4. CASE b.do = "blacklist" \/ b.do = "policy" \/ b.do = "policyPage"
  <2>1. \E page : Answer(b) = PolicyPage(page)
    BY <1>4 DEF Answer
  <2>2. QED
    BY <1>1, <1>2, <1>4, <2>1 DEF PolicyPage, ScreenOK
<1>5. CASE b.do = "d" \/ b.do = "p"
  <2>1. \E page : Answer(b) = ChatPage(b.days, page)
    BY <1>5 DEF Answer
  <2>2. b.days \in Days
    BY <1>5 DEF Pressable
  <2>3. QED
    BY <1>1, <1>2, <1>5, <2>1, <2>2 DEF ChatPage, ScreenOK
<1>6. CASE b.do = "c"
  <2>1. Answer(b) = Confirmation(b.days, b.chat) \/ Answer(b) = Periods
    BY <1>6 DEF Answer
  <2>2. b.days \in Days /\ b.chat \in Chats
    BY <1>6 DEF Pressable
  <2>3. QED
    BY <1>6, <2>1, <2>2 DEF Confirmation, Periods, ScreenOK
<1>7. CASE b.do = "start"
  <2>1. Answer(b) = StartAnswer(b)
    BY <1>7 DEF Answer
  <2>2. CASE IsAvailable(b)
    <3>1. Answer(b) = JobMessage(Fresh, NewJob(b))
      BY <2>1, <2>2 DEF StartAnswer
    <3>2. Answer(b).kind = "job" /\ Answer(b).job = Fresh /\ Answer(b).chat = b.chat /\ Answer(b).days = b.days
      BY <3>1 DEF JobMessage, NewJob
    <3>3. Fresh \in 1 .. last
      BY <1>7, <2>2 DEF Fresh
    <3>4. QED
      BY <1>7, <2>2, <3>2, <3>3 DEF ScreenOK
  <2>3. CASE ~ IsAvailable(b)
    BY <1>7, <2>1, <2>3 DEF StartAnswer, Periods, ScreenOK
  <2>4. QED
    BY <2>2, <2>3
<1>8. CASE b.do = "status"
  <2>1. b.job \in 1 .. lastJob /\ b.job \in 1 .. last /\ b.job \in 1 .. MaxJobs
    BY <1>8 DEF Pressable
  <2>2. CASE Exists(b.job)
    <3>1. Answer(b) = JobMessage(b.job, jobs[b.job])
      BY <1>8, <2>2 DEF Answer
    <3>2. /\ Answer(b).kind = "job" /\ Answer(b).job = b.job
          /\ Answer(b).chat = jobs[b.job].chat /\ Answer(b).days = jobs[b.job].days
      BY <3>1 DEF JobMessage
    <3>3. QED
      BY <1>8, <2>1, <2>2, <3>2 DEF ScreenOK
  <2>3. CASE ~ Exists(b.job)
    BY <1>8, <2>3 DEF Answer, Periods, ScreenOK
  <2>4. QED
    BY <2>2, <2>3
<1>9. QED
  BY <1>3, <1>4, <1>5, <1>6, <1>7, <1>8 DEF Pressable, LookingButtons

(* One press: a new job is told of, or remembered as silent.               *)
LEMMA PressFacts ==
  ASSUME TypeOK, NEW b, Pressable(b), Press(b) \/ PressUnanswered(b) \/ PressUndone(b)
  PROVE  /\ rows' = rows
         /\ override' \in [Chats -> {"none", "allow", "deny"}]
         /\ jobs' \in [1 .. MaxJobs -> JobRows \cup {NoJob}]
         /\ lastJob' \in 0 .. MaxJobs /\ lastJob' >= lastJob
         /\ silent \subseteq silent' /\ silent' \subseteq 1 .. lastJob'
         /\ \/ screens' = screens
            \/ /\ b.do # "cancel" /\ screens' = screens \cup {Answer(b)}
               /\ b.do = "start" /\ IsAvailable(b) => lastJob' = Fresh
         /\ \/ SameJobs(jobs, jobs')
            \/ /\ b.do = "start" /\ IsAvailable(b) /\ lastJob' = Fresh /\ Fresh \in 1 .. MaxJobs
               /\ jobs' = [jobs EXCEPT ![Fresh] = NewJob(b)]
               /\ screens' = screens \cup {Answer(b)} \/ Fresh \in silent'
<1>0. lastJob \in Nat /\ lastJob <= MaxJobs /\ MaxJobs \in Nat /\ silent \subseteq 1 .. lastJob
  BY ScreensAssumption DEF TypeOK
<1>1. CASE Press(b)
  <2>1. Pressed(b) /\ Handle(b) /\ Say(b) /\ silent' = silent
    BY <1>1 DEF Press
  <2>2. (b.do = "cancel" /\ screens' = screens) \/ (b.do # "cancel" /\ screens' = screens \cup {Answer(b)})
    BY <2>1 DEF Say
  <2>3. QED
    BY <1>0, <2>1, <2>2, HandlerFacts DEF Pressed, Fresh
<1>2. CASE PressUnanswered(b)
  <2>1. /\ Pressed(b) /\ Handle(b) /\ screens' = screens
        /\ silent' = silent \cup ((1 .. lastJob') \ (1 .. lastJob))
    BY <1>2 DEF PressUnanswered
  <2>2. Fresh \in Nat /\ Fresh = lastJob + 1
    BY <1>0 DEF Fresh
  <2>3. CASE lastJob' = Fresh
    <3>1. silent \subseteq silent' /\ silent' \subseteq 1 .. Fresh /\ Fresh \in silent'
      BY <1>0, <2>1, <2>2, <2>3
    <3>2. rows' = rows
      BY <2>1 DEF Pressed
    <3>3. QED
      BY <1>0, <2>1, <2>2, <2>3, <3>1, <3>2, HandlerFacts
  <2>4. CASE lastJob' = lastJob
    <3>1. silent' = silent
      BY <2>1, <2>4
    <3>2. rows' = rows
      BY <2>1 DEF Pressed
    <3>3. QED
      BY <1>0, <2>1, <2>2, <2>4, <3>1, <3>2, HandlerFacts
  <2>5. QED
    BY <2>1, <2>3, <2>4, HandlerFacts
<1>3. CASE PressUndone(b)
  <2>1. /\ Pressed(b) /\ Say(b) /\ UNCHANGED <<jobs, override, silent>>
        /\ lastJob' = IF b.do = "start" /\ IsAvailable(b) THEN Fresh ELSE lastJob
    BY <1>3 DEF PressUndone
  <2>2. (b.do = "cancel" /\ screens' = screens) \/ (b.do # "cancel" /\ screens' = screens \cup {Answer(b)})
    BY <2>1 DEF Say
  <2>3. SameJobs(jobs, jobs')
    BY <2>1 DEF SameJobs
  <2>4. QED
    BY <1>0, <2>1, <2>2, <2>3 DEF Pressed, Fresh, TypeOK
<1>4. QED
  BY <1>1, <1>2, <1>3

LEMMA ListenerFacts ==
  ASSUME TypeOK, RowInv, Listener
  PROVE  /\ rows' \in [Chats -> Rows] /\ RowInv'
         /\ jobs' \in [1 .. MaxJobs -> JobRows \cup {NoJob}] /\ SameJobs(jobs, jobs')
         /\ UNCHANGED <<override, lastJob, screens, silent>>
<1>1. ASSUME NEW c \in Chats, NEW type \in {"unknown", Kind[c]}, NEW title \in Titles \cup {0},
             rows' = [rows EXCEPT ![c] = [type |-> type, title |-> title]]
      PROVE  rows' \in [Chats -> Rows] /\ RowInv'
  <2>1. [type |-> type, title |-> title] \in Rows
    BY ScreensAssumption DEF Rows
  <2>2. QED
    BY <1>1, <2>1 DEF TypeOK, RowInv
<1>2. ASSUME NEW j \in 1 .. MaxJobs, Exists(j), NEW status \in Active \cup {"completed", "failed", "cancelled"},
             Becomes(j, status)
      PROVE  jobs' \in [1 .. MaxJobs -> JobRows \cup {NoJob}] /\ SameJobs(jobs, jobs')
  <2>1. jobs[j] \in JobRows
    BY <1>2, RowFacts
  <2>2. jobs' = [jobs EXCEPT ![j] = [jobs[j] EXCEPT !.status = status]]
    BY <1>2 DEF Becomes
  <2>3. /\ [jobs[j] EXCEPT !.status = status] \in JobRows
        /\ [jobs[j] EXCEPT !.status = status].status = status
        /\ [jobs[j] EXCEPT !.status = status].chat = jobs[j].chat
        /\ [jobs[j] EXCEPT !.status = status].days = jobs[j].days
    BY <2>1 DEF JobRows
  <2>4. status # "absent"
    BY DEF Active
  <2>5. QED
    BY <1>2, <2>2, <2>3, <2>4 DEF TypeOK, SameJobs, Exists
<1>3. ASSUME NEW c \in Chats, NEW title \in Titles \cup {0}, LiveUpdate(c, title)
      PROVE  /\ rows' \in [Chats -> Rows] /\ RowInv'
             /\ jobs' = jobs /\ UNCHANGED <<override, lastJob, screens, silent>>
  BY <1>1, <1>3 DEF LiveUpdate
<1>4. ASSUME NEW j \in 1 .. MaxJobs, NEW status \in {"running", "completed"}, RunBatch(j, status)
      PROVE  /\ rows' \in [Chats -> Rows] /\ RowInv'
             /\ jobs' \in [1 .. MaxJobs -> JobRows \cup {NoJob}] /\ SameJobs(jobs, jobs')
             /\ UNCHANGED <<override, lastJob, screens, silent>>
  <2>1. Exists(j) /\ Becomes(j, status)
    BY <1>4 DEF RunBatch, IsNext
  <2>2. jobs[j].chat \in Chats
    BY <2>1, RowFacts
  <2>3. rows' = [rows EXCEPT ![jobs[j].chat] = [type |-> "unknown", title |-> 0]]
    BY <1>4 DEF RunBatch
  <2>4. rows' \in [Chats -> Rows] /\ RowInv'
    BY <1>1, <2>2, <2>3
  <2>5. QED
    BY <1>2, <1>4, <2>1, <2>4 DEF RunBatch, Active
<1>5. ASSUME NEW j \in 1 .. MaxJobs, EndJob(j)
      PROVE  /\ rows' = rows
             /\ jobs' \in [1 .. MaxJobs -> JobRows \cup {NoJob}] /\ SameJobs(jobs, jobs')
             /\ UNCHANGED <<override, lastJob, screens, silent>>
  <2>1. Exists(j) /\ (Becomes(j, "cancelled") \/ Becomes(j, "failed"))
    BY <1>5 DEF EndJob, IsNext
  <2>2. QED
    BY <1>2, <1>5, <2>1 DEF EndJob
<1>6. QED
  BY <1>3, <1>4, <1>5 DEF Listener, TypeOK, RowInv, SameJobs

-----------------------------------------------------------------------------
(* The inductive invariant.                                                *)

LEMMA InvInit == Init => IInv
<1> SUFFICES ASSUME Init PROVE IInv
  OBVIOUS
<1>1. ASSUME NEW c \in Chats, c \in DOMAIN Stored
      PROVE  rows[c] \in Rows /\ rows[c].type = Kind[c]
  <2>1. Kind[c] \in {"chat", "channel"} /\ Stored[c] \in Titles \cup {0}
    BY <1>1, ScreensAssumption
  <2>2. rows[c] = [type |-> Kind[c], title |-> Stored[c]]
    BY <1>1 DEF Init
  <2>3. [type |-> Kind[c], title |-> Stored[c]] \in Rows
    BY <2>1 DEF Rows
  <2>4. QED
    BY <2>2, <2>3
<1>2. ASSUME NEW c \in Chats, c \notin DOMAIN Stored
      PROVE  rows[c] \in Rows /\ rows[c].type = "absent"
  <2>1. rows[c] = NoRow
    BY <1>2 DEF Init
  <2>2. NoRow \in Rows /\ NoRow.type = "absent"
    BY DEF Rows, NoRow
  <2>3. QED
    BY <2>1, <2>2
<1>3. RowInv /\ \A c \in Chats : rows[c] \in Rows
  BY <1>1, <1>2 DEF RowInv
<1>4. \A j \in 1 .. MaxJobs : ~ Exists(j)
  BY DEF Init, Exists, NoJob
<1>5. TypeOK
  BY <1>3, <1>4, ScreensAssumption DEF Init, TypeOK
<1>6. \A s \in screens : s.kind = "menu"
  BY DEF Init, Menu
<1>7. ScreenInv
  BY <1>6 DEF ScreenInv, ScreenOK
<1>8. ConfirmedFirst /\ NumberMeansOneJob /\ CancelReachable
  BY <1>4, <1>6 DEF ConfirmedFirst, NumberMeansOneJob, CancelReachable
<1>9. QED
  BY <1>3, <1>5, <1>7, <1>8 DEF IInv

LEMMA Steps ==
  ASSUME IInv, [Next]_vars
  PROVE  \/ \E b : Pressable(b) /\ (Press(b) \/ PressUnanswered(b) \/ PressUndone(b))
         \/ Listener
         \/ UNCHANGED vars
<1>1. CASE Bot
  <2>1. PICK s \in screens : \E b \in Buttons(s) : Press(b) \/ PressUnanswered(b) \/ PressUndone(b)
    BY <1>1 DEF Bot
  <2>2. PICK b \in Buttons(s) : Press(b) \/ PressUnanswered(b) \/ PressUndone(b)
    BY <2>1
  <2>3. Pressable(b)
    BY <2>2, ButtonFacts DEF IInv
  <2>4. QED
    BY <2>2, <2>3
<1>2. QED
  BY <1>1 DEF Next

LEMMA PressStep ==
  ASSUME IInv, NEW b, Pressable(b), Press(b) \/ PressUnanswered(b) \/ PressUndone(b)
  PROVE  IInv'
<1>1. TypeOK /\ RowInv /\ ScreenInv /\ ConfirmedFirst /\ NumberMeansOneJob /\ CancelReachable
  BY DEF IInv
<1>2. lastJob \in Nat /\ lastJob' \in Nat /\ lastJob' >= lastJob /\ lastJob' <= MaxJobs /\ MaxJobs \in Nat
  BY <1>1, PressFacts, ScreensAssumption DEF TypeOK
<1>3. RowInv'
  BY <1>1, PressFacts DEF RowInv
<1>4. screens \subseteq screens'
  BY <1>1, PressFacts
<1> DEFINE New == /\ b.do = "start" /\ IsAvailable(b) /\ lastJob' = Fresh /\ Fresh \in 1 .. MaxJobs
                  /\ jobs' = [jobs EXCEPT ![Fresh] = NewJob(b)]
                  /\ screens' = screens \cup {Answer(b)} \/ Fresh \in silent'
<1>5. SameJobs(jobs, jobs') \/ New
  BY <1>1, PressFacts
<1>6. NewJob(b).status # "absent" /\ NewJob(b).chat = b.chat /\ NewJob(b).days = b.days
  BY DEF NewJob
<1>7. ASSUME New, NEW j \in 1 .. MaxJobs PROVE IF j = Fresh THEN jobs'[j] = NewJob(b) ELSE jobs'[j] = jobs[j]
  BY <1>1, <1>7 DEF TypeOK
<1>8. ~ Exists(Fresh) \/ Fresh \notin 1 .. MaxJobs
  BY <1>1, <1>2 DEF TypeOK, Fresh
<1>9. TypeOK'
  <2>1. ASSUME NEW j \in 1 .. MaxJobs, jobs'[j].status # "absent" PROVE j <= lastJob'
    <3>1. CASE SameJobs(jobs, jobs')
      <4>1. Exists(j)
        BY <2>1, <3>1 DEF SameJobs, Exists
      <4>2. QED
        BY <1>1, <1>2, <4>1 DEF TypeOK
    <3>2. CASE New
      <4>1. j = Fresh \/ Exists(j)
        BY <1>7, <2>1, <3>2 DEF Exists
      <4>2. QED
        BY <1>1, <1>2, <3>2, <4>1 DEF TypeOK
    <3>3. QED
      BY <1>5, <3>1, <3>2
  <2>2. rows' = rows /\ lastJob' \in 0 .. MaxJobs /\ silent' \subseteq 1 .. lastJob'
    BY <1>1, PressFacts
  <2>3. /\ override' \in [Chats -> {"none", "allow", "deny"}]
        /\ jobs' \in [1 .. MaxJobs -> JobRows \cup {NoJob}]
    BY <1>1, PressFacts
  <2>4. QED
    BY <1>1, <2>1, <2>2, <2>3 DEF TypeOK, Exists
<1>10. ASSUME NEW s \in screens' PROVE s \in screens \/ (b.do # "cancel" /\ s = Answer(b))
  BY <1>1, PressFacts
<1>11. ScreenInv'
  <2>1. ASSUME NEW s \in screens PROVE ScreenOK(s, lastJob')
    BY <1>1, <1>2 DEF ScreenInv, ScreenOK
  <2>2. ASSUME b.do # "cancel", screens' = screens \cup {Answer(b)},
               b.do = "start" /\ IsAvailable(b) => lastJob' = Fresh
        PROVE  ScreenInv'
    <3>1. ScreenOK(Answer(b), lastJob')
      BY <1>1, <1>2, <2>2, AnswerFacts
    <3>2. QED
      BY <2>1, <2>2, <3>1 DEF ScreenInv
  <2>3. ASSUME screens' = screens PROVE ScreenInv'
    BY <2>1, <2>3 DEF ScreenInv
  <2>4. QED
    BY <1>1, <2>2, <2>3, PressFacts
<1>12. ConfirmedFirst'
  <2>1. ASSUME NEW j \in 1 .. MaxJobs, Exists(j)', SameJobs(jobs, jobs')
        PROVE  Confirmation(jobs'[j].days, jobs'[j].chat) \in screens'
    <3>1. Exists(j) /\ jobs'[j].days = jobs[j].days /\ jobs'[j].chat = jobs[j].chat
      BY <2>1 DEF SameJobs, Exists
    <3>2. QED
      BY <1>1, <1>4, <3>1 DEF ConfirmedFirst
  <2>2. ASSUME NEW j \in 1 .. MaxJobs, Exists(j)', New
        PROVE  Confirmation(jobs'[j].days, jobs'[j].chat) \in screens'
    <3>1. CASE j = Fresh
      <4>1. jobs'[j].days = b.days /\ jobs'[j].chat = b.chat
        BY <1>6, <1>7, <2>2, <3>1
      <4>2. Confirmation(b.days, b.chat) \in screens
        BY <2>2 DEF Pressable
      <4>3. QED
        BY <1>4, <4>1, <4>2
    <3>2. CASE j # Fresh
      <4>1. Exists(j) /\ jobs'[j] = jobs[j]
        BY <1>7, <2>2, <3>2 DEF Exists
      <4>2. QED
        BY <1>1, <1>4, <4>1 DEF ConfirmedFirst
    <3>3. QED
      BY <3>1, <3>2
  <2>3. QED
    BY <1>5, <2>1, <2>2 DEF ConfirmedFirst
<1>13. CancelReachable'
  <2>1. \A j \in 1 .. MaxJobs : Reachable(j) \/ j \in silent => Reachable(j)' \/ j \in silent'
    BY <1>1, <1>4, PressFacts DEF Reachable
  <2>2. ASSUME NEW j \in 1 .. MaxJobs, Exists(j)', SameJobs(jobs, jobs') PROVE Reachable(j)' \/ j \in silent'
    <3>1. Exists(j)
      BY <2>2 DEF SameJobs, Exists
    <3>2. QED
      BY <1>1, <2>1, <3>1 DEF CancelReachable
  <2>3. ASSUME NEW j \in 1 .. MaxJobs, Exists(j)', New PROVE Reachable(j)' \/ j \in silent'
    <3>1. CASE j = Fresh
      <4>1. Answer(b).kind = "job" /\ Answer(b).job = Fresh
        BY <1>1, <1>2, <2>3, AnswerFacts
      <4>2. QED
        BY <2>3, <3>1, <4>1 DEF Reachable
    <3>2. CASE j # Fresh
      <4>1. Exists(j)
        BY <1>7, <2>3, <3>2 DEF Exists
      <4>2. QED
        BY <1>1, <2>1, <4>1 DEF CancelReachable
    <3>3. QED
      BY <3>1, <3>2
  <2>4. QED
    BY <1>5, <2>2, <2>3 DEF CancelReachable
<1>14. NumberMeansOneJob'
  <2> DEFINE Old(s) == s \in screens /\ s.job \in 1 .. lastJob
             Started(s) == b.do = "start" /\ IsAvailable(b) /\ s.job = Fresh /\ s.chat = b.chat /\ s.days = b.days
             Read(s) == /\ s.job \in 1 .. lastJob /\ Exists(s.job)
                        /\ s.chat = jobs[s.job].chat /\ s.days = jobs[s.job].days
  <2>1. ASSUME NEW s \in screens', s.kind = "job"
        PROVE  s.job \in 1 .. MaxJobs /\ (Old(s) \/ (s = Answer(b) /\ (Started(s) \/ Read(s))))
    <3>1. s.job \in 1 .. MaxJobs
      BY <1>2, <1>11, <2>1 DEF ScreenInv, ScreenOK
    <3>2. CASE s \in screens
      <4>1. ScreenOK(s, lastJob)
        BY <1>1, <3>2 DEF ScreenInv
      <4>2. s.job \in 1 .. lastJob
        BY <2>1, <4>1 DEF ScreenOK
      <4>3. QED
        BY <3>1, <3>2, <4>2
    <3>3. CASE b.do # "cancel" /\ s = Answer(b)
      <4>1. Fresh \in Nat /\ lastJob <= Fresh
        BY <1>2 DEF Fresh
      <4>2. \/ /\ b.do = "start" /\ IsAvailable(b)
               /\ Answer(b).job = Fresh /\ Answer(b).chat = b.chat /\ Answer(b).days = b.days
            \/ /\ Answer(b).job \in 1 .. lastJob /\ Exists(Answer(b).job)
               /\ Answer(b).chat = jobs[Answer(b).job].chat /\ Answer(b).days = jobs[Answer(b).job].days
        BY <1>1, <2>1, <3>3, <4>1, AnswerFacts
      <4>3. Started(s) \/ Read(s)
        BY <3>3, <4>2
      <4>4. QED
        BY <3>1, <3>3, <4>3
    <3>4. QED
      BY <1>10, <3>2, <3>3
  <2>2. Fresh \notin 1 .. lastJob
    BY <1>2 DEF Fresh
  <2>3. ASSUME NEW s \in screens, s.kind = "job", Exists(s.job)
        PROVE  s.chat = jobs[s.job].chat /\ s.days = jobs[s.job].days
    BY <1>1, <2>3 DEF NumberMeansOneJob
  <2>4. ASSUME NEW s \in screens', s.kind = "job", NEW t \in screens', t.kind = "job", s.job = t.job
        PROVE  s.chat = t.chat /\ s.days = t.days
    <3>1. CASE Old(s) /\ Old(t)
      BY <1>1, <2>4, <3>1 DEF NumberMeansOneJob
    <3>2. CASE Old(s) /\ Read(t)
      BY <2>3, <2>4, <3>2
    <3>3. CASE Read(s) /\ Old(t)
      BY <2>3, <2>4, <3>3
    <3>4. ~ (Old(s) /\ Started(t)) /\ ~ (Started(s) /\ Old(t))
      BY <2>2, <2>4
    <3>5. CASE s = Answer(b) /\ t = Answer(b)
      BY <3>5
    <3>6. /\ Old(s) \/ (s = Answer(b) /\ (Started(s) \/ Read(s)))
          /\ Old(t) \/ (t = Answer(b) /\ (Started(t) \/ Read(t)))
      BY <2>1, <2>4
    <3> HIDE DEF Old, Started, Read
    <3>7. QED
      BY <3>1, <3>2, <3>3, <3>5, <3>6, <3>4
  <2>5. ASSUME NEW s \in screens', s.kind = "job", Exists(s.job)'
        PROVE  s.chat = jobs'[s.job].chat /\ s.days = jobs'[s.job].days
    <3>1. jobs'[s.job].status # "absent"
      BY <2>5 DEF Exists
    <3>2. CASE SameJobs(jobs, jobs')
      <4>1. Exists(s.job) /\ jobs'[s.job].chat = jobs[s.job].chat /\ jobs'[s.job].days = jobs[s.job].days
        BY <2>1, <2>5, <3>1, <3>2 DEF SameJobs, Exists
      <4>2. s.job # Fresh
        BY <1>8, <2>1, <2>5, <4>1
      <4>3. QED
        BY <2>1, <2>3, <2>5, <4>1, <4>2
    <3>3. CASE New /\ s.job = Fresh
      <4>1. s.chat = b.chat /\ s.days = b.days
        BY <2>1, <2>2, <2>5, <3>3
      <4>2. jobs'[s.job] = NewJob(b)
        BY <1>7, <3>3
      <4>3. QED
        BY <1>6, <4>1, <4>2
    <3>4. CASE New /\ s.job # Fresh
      <4>1. jobs'[s.job] = jobs[s.job]
        BY <1>7, <2>1, <2>5, <3>4
      <4>2. Exists(s.job)
        BY <3>1, <4>1 DEF Exists
      <4>3. QED
        BY <2>1, <2>3, <2>5, <3>4, <4>1, <4>2
    <3>5. QED
      BY <1>5, <3>2, <3>3, <3>4
  <2>6. QED
    BY <2>4, <2>5 DEF NumberMeansOneJob
<1>15. QED
  BY <1>3, <1>9, <1>11, <1>12, <1>13, <1>14 DEF IInv

LEMMA ListenerStep == ASSUME IInv, Listener PROVE IInv'
<1>1. TypeOK /\ RowInv /\ ScreenInv /\ ConfirmedFirst /\ NumberMeansOneJob /\ CancelReachable
  BY DEF IInv
<1>2. /\ rows' \in [Chats -> Rows] /\ RowInv'
      /\ jobs' \in [1 .. MaxJobs -> JobRows \cup {NoJob}] /\ SameJobs(jobs, jobs')
      /\ UNCHANGED <<override, lastJob, screens, silent>>
  BY <1>1, ListenerFacts
<1>3. ASSUME NEW j \in 1 .. MaxJobs
      PROVE  /\ Exists(j)' <=> Exists(j)
             /\ Exists(j) => jobs'[j].chat = jobs[j].chat /\ jobs'[j].days = jobs[j].days
  BY <1>2 DEF SameJobs, Exists
<1>4. TypeOK'
  BY <1>1, <1>2, <1>3 DEF TypeOK
<1>5. ScreenInv'
  BY <1>1, <1>2 DEF ScreenInv
<1>6. ConfirmedFirst' /\ CancelReachable'
  BY <1>1, <1>2, <1>3 DEF ConfirmedFirst, CancelReachable, Reachable
<1>7. NumberMeansOneJob'
  <2>1. ASSUME NEW s \in screens, s.kind = "job" PROVE s.job \in 1 .. MaxJobs
    <3>1. s.job \in 1 .. lastJob
      BY <1>1, <2>1 DEF ScreenInv, ScreenOK
    <3>2. QED
      BY <1>1, <3>1, ScreensAssumption DEF TypeOK
  <2>2. ASSUME NEW s \in screens, s.kind = "job", Exists(s.job)'
        PROVE  s.chat = jobs'[s.job].chat /\ s.days = jobs'[s.job].days
    <3>1. s.job \in 1 .. MaxJobs
      BY <2>1, <2>2
    <3>2. PICK j \in 1 .. MaxJobs : j = s.job
      BY <3>1
    <3>3. Exists(j) /\ jobs'[j].chat = jobs[j].chat /\ jobs'[j].days = jobs[j].days
      BY <1>3, <2>2, <3>2 DEF Exists
    <3>4. QED
      BY <1>1, <2>2, <3>2, <3>3 DEF NumberMeansOneJob
  <2>3. QED
    BY <1>1, <1>2, <2>2 DEF NumberMeansOneJob
<1>8. QED
  BY <1>2, <1>4, <1>5, <1>6, <1>7 DEF IInv

LEMMA InvStep == IInv /\ [Next]_vars => IInv'
<1>1. ASSUME IInv, UNCHANGED vars PROVE IInv'
  BY <1>1 DEF vars, IInv, TypeOK, RowInv, ScreenInv, ConfirmedFirst, NumberMeansOneJob, CancelReachable,
              Reachable, Exists
<1>2. QED
  BY <1>1, Steps, PressStep, ListenerStep

LEMMA InvHolds == Spec => []IInv
BY InvInit, InvStep, PTL DEF Spec

-----------------------------------------------------------------------------
(* Places and pages.                                                       *)

LEMMA SmallestExists == ASSUME NEW T \in SUBSET Nat, T # {} PROVE \E x \in T : \A y \in T : x <= y
<1>1. PICK x \in T : \A y \in T : ~ (<<y, x>> \in OpToRel(<, Nat))
  BY NatLessThanWellFounded, WFMin
<1>2. \A y \in T : ~ (y < x)
  BY <1>1 DEF OpToRel
<1>3. QED
  BY <1>2

(* The order of the lists is total.                                        *)
LEMMA OrderFacts ==
  ASSUME TypeOK, NEW a \in Chats, NEW b \in Chats, NEW c \in Chats
  PROVE  /\ ~ Before(a, a)
         /\ Before(a, b) /\ Before(b, c) => Before(a, c)
         /\ a # b => Before(a, b) \/ Before(b, a)
<1>1. \A d \in Chats : rows[d].title \in Nat
  BY ScreensAssumption DEF TypeOK, Rows
<1>2. Chats \subseteq Int
  BY ScreensAssumption
<1>3. QED
  BY <1>1, <1>2 DEF Before

Earlier(c, S) == {d \in S : Before(d, c)}

LEMMA PlaceFacts ==
  ASSUME NEW S, S \subseteq Chats, NEW c
  PROVE  /\ IsFiniteSet(Earlier(c, S)) /\ Place(c, S) = Cardinality(Earlier(c, S))
         /\ Place(c, S) \in Nat
<1>1. IsFiniteSet(Earlier(c, S))
  <2>1. IsFiniteSet(S)
    BY ScreensAssumption, FS_Subset
  <2>2. Earlier(c, S) \subseteq S
    BY DEF Earlier
  <2>3. QED
    BY <2>1, <2>2, FS_Subset
<1>2. Place(c, S) = Cardinality(Earlier(c, S))
  BY DEF Place, Earlier
<1>3. QED
  BY <1>1, <1>2, FS_CardinalityType

LEMMA PlaceGrows ==
  ASSUME TypeOK, NEW S, S \subseteq Chats, NEW a \in S, NEW b \in S, Before(a, b)
  PROVE  Place(a, S) < Place(b, S)
<1>1. Earlier(a, S) \subseteq Earlier(b, S)
  BY OrderFacts DEF Earlier
<1>2. a \in Earlier(b, S) /\ a \notin Earlier(a, S)
  BY OrderFacts DEF Earlier
<1>3. Cardinality(Earlier(a, S)) < Cardinality(Earlier(b, S))
  BY <1>1, <1>2, PlaceFacts, FS_Subset
<1>4. QED
  BY <1>3, PlaceFacts

(* Places are without gaps.                                                *)
LEMMA PlaceBefore ==
  ASSUME TypeOK, NEW S, S \subseteq Chats, NEW c \in S, Place(c, S) > 0
  PROVE  \E e \in S : Place(e, S) = Place(c, S) - 1
<1> DEFINE B == Earlier(c, S)
           T == {Place(c, S) - Place(d, S) : d \in B}
<1>1. IsFiniteSet(B) /\ Cardinality(B) = Place(c, S) /\ Place(c, S) \in Nat
  BY PlaceFacts
<1>2. B # {}
  BY <1>1, FS_EmptySet
<1>3. \A d \in B : d \in S /\ Before(d, c)
  BY DEF Earlier
<1>4. \A d \in B : Place(d, S) \in Nat /\ Place(d, S) < Place(c, S)
  BY <1>3, PlaceFacts, PlaceGrows
<1>5. T \in SUBSET Nat /\ T # {}
  <2>1. \A d \in B : Place(c, S) - Place(d, S) \in Nat
    BY <1>1, <1>4
  <2> HIDE DEF B
  <2>2. QED
    BY <1>2, <2>1
<1>6. PICK e \in B : \A d \in B : Place(c, S) - Place(e, S) <= Place(c, S) - Place(d, S)
  <2> HIDE DEF B
  <2>1. PICK x \in T : \A y \in T : x <= y
    <3> HIDE DEF T
    <3>1. QED
      BY <1>5, SmallestExists
  <2>2. PICK e \in B : x = Place(c, S) - Place(e, S)
    BY <2>1
  <2>3. QED
    BY <2>1, <2>2
<1>7. \A d \in B : Place(d, S) <= Place(e, S)
  BY <1>1, <1>4, <1>6
<1>8. ASSUME NEW d \in B, d # e PROVE Before(d, e)
  <2>1. d \in S /\ e \in S
    BY <1>3
  <2>2. ~ Before(e, d)
    BY <1>4, <1>7, <2>1, PlaceGrows
  <2>3. QED
    BY <1>8, <2>1, <2>2, OrderFacts
<1>9. Earlier(e, S) = B \ {e}
  <2>1. ASSUME NEW d \in Earlier(e, S) PROVE d \in B \ {e}
    BY <1>3, OrderFacts DEF Earlier
  <2>2. ASSUME NEW d \in B \ {e} PROVE d \in Earlier(e, S)
    BY <1>8 DEF Earlier
  <2>3. QED
    BY <2>1, <2>2
<1>10. Cardinality(B \ {e}) = Cardinality(B) - 1
  BY <1>1, FS_RemoveElement
<1>11. QED
  BY <1>1, <1>3, <1>9, <1>10, PlaceFacts

(* After an empty page there is nothing.                                   *)
LEMMA EmptyPage ==
  ASSUME TypeOK, NEW S, S \subseteq Chats, NEW q \in Nat, Page(S, q) = {}, NEW c \in S
  PROVE  Place(c, S) < q * PageSize
<1>1. PageSize \in Nat /\ PageSize > 0 /\ q * PageSize \in Nat
  BY ScreensAssumption
<1>2. (q + 1) * PageSize = q * PageSize + PageSize
  BY <1>1
<1> DEFINE first == q * PageSize
           T == {Place(d, S) : d \in {k \in S : Place(k, S) >= first}}
<1>3. \A d \in S : Place(d, S) \in Nat /\ ~ (Place(d, S) \in first .. first + PageSize - 1)
  <2>1. ASSUME NEW d \in S PROVE ~ (Place(d, S) \in first .. (q + 1) * PageSize - 1)
    BY DEF Page
  <2>2. \A d \in S : Place(d, S) \in Nat
    BY PlaceFacts
  <2>3. (q + 1) * PageSize - 1 = first + PageSize - 1
    BY <1>1, <1>2
  <2> HIDE DEF first
  <2>4. QED
    BY <2>1, <2>2, <2>3
<1>4. SUFFICES ASSUME Place(c, S) >= first PROVE FALSE
  BY <1>1, <1>3
<1> HIDE DEF first
<1>5. T \in SUBSET Nat /\ T # {}
  BY <1>3, <1>4
<1>6. PICK x \in T : \A y \in T : x <= y
  <2> HIDE DEF T
  <2>1. QED
    BY <1>5, SmallestExists
<1>7. PICK d \in S : Place(d, S) >= first /\ x = Place(d, S)
  BY <1>6
<1>8. first \in Nat
  BY <1>1 DEF first
<1>9. Place(d, S) > first
  BY <1>1, <1>3, <1>7, <1>8
<1>10. PICK e \in S : Place(e, S) = Place(d, S) - 1
  BY <1>8, <1>9, <1>3, PlaceBefore
<1>11. Place(e, S) >= first /\ Place(e, S) < x
  BY <1>3, <1>7, <1>8, <1>9, <1>10
<1>12. QED
  BY <1>3, <1>6, <1>7, <1>10, <1>11

-----------------------------------------------------------------------------
(* The walk from page to page.                                             *)

(* The chats that the pages turned so far have passed have been seen.      *)
WalkOK(w) ==
  /\ w \in [page : Nat, start : SUBSET Chats, seen : SUBSET Chats, over : BOOLEAN, steady : BOOLEAN]
  /\ w.steady =>
       /\ \A c \in w.start : /\ c \in BackfillChats
                             /\ Place(c, BackfillChats) < (w.page + 1) * PageSize => c \in w.seen
       /\ w.over => w.start \subseteq w.seen

LEMMA WalkInit == Init => WalkOK(walk)
  BY DEF Init, WalkOK, NoWalk

(* A chat that is on a page or on one before it.                           *)
LEMMA PagePlaces ==
  ASSUME NEW S, S \subseteq Chats, NEW q \in Nat, NEW c \in S, Place(c, S) < (q + 1) * PageSize
  PROVE  c \in Page(S, q) \/ Place(c, S) < q * PageSize
<1>1. Place(c, S) \in Nat /\ q * PageSize \in Nat /\ (q + 1) * PageSize \in Nat
  BY PlaceFacts, ScreensAssumption
<1>2. CASE Place(c, S) >= q * PageSize
  <2>1. Place(c, S) \in q * PageSize .. (q + 1) * PageSize - 1
    BY <1>1, <1>2
  <2>2. QED
    BY <2>1 DEF Page
<1>3. QED
  BY <1>1, <1>2

(* The first page, and a next one.                                         *)
LEMMA WalkOnKeeps ==
  ASSUME TypeOK, WalkOK(walk), NEW s,
         s.kind = "chats" => s.lines = Page(BackfillChats, s.page)
  PROVE  WalkOK(WalkOn(s))
<1>1. BackfillChats \subseteq Chats
  BY DEF BackfillChats
<1>2. \A q \in Nat : Page(BackfillChats, q) \subseteq Chats
  BY <1>1 DEF Page
<1>3. CASE s.kind = "chats" /\ s.page = 0
  <2> DEFINE w == [page |-> 0, start |-> BackfillChats, seen |-> s.lines, over |-> s.lines = {}, steady |-> TRUE]
  <2>1. WalkOn(s) = w
    BY <1>3 DEF WalkOn
  <2>2. s.lines = Page(BackfillChats, 0) /\ s.lines \subseteq Chats
    BY <1>2, <1>3
  <2>3. /\ w.page = 0 /\ w.start = BackfillChats /\ w.seen = s.lines /\ w.over = (s.lines = {})
        /\ w \in [page : Nat, start : SUBSET Chats, seen : SUBSET Chats, over : BOOLEAN, steady : BOOLEAN]
    BY <1>1, <2>2
  <2>4. 0 * PageSize = 0
    BY ScreensAssumption
  <2>5. ASSUME NEW c \in BackfillChats, Place(c, BackfillChats) < (0 + 1) * PageSize PROVE c \in s.lines
    BY <1>1, <2>2, <2>4, <2>5, PagePlaces, PlaceFacts
  <2>6. ASSUME s.lines = {} PROVE BackfillChats \subseteq s.lines
    <3>1. ASSUME NEW c \in BackfillChats PROVE FALSE
      <4>1. Place(c, BackfillChats) < 0 * PageSize
        BY <1>1, <2>2, <2>6, EmptyPage
      <4>2. Place(c, BackfillChats) \in Nat
        BY <1>1, PlaceFacts
      <4>3. QED
        BY <2>4, <4>1, <4>2
    <3>2. QED
      BY <3>1
  <2> HIDE DEF w
  <2>7. QED
    BY <2>1, <2>3, <2>5, <2>6 DEF WalkOK
<1>4. CASE s.kind = "chats" /\ s.page # 0 /\ s.page = walk.page + 1
  <2> DEFINE w == [walk EXCEPT !.page = s.page, !.seen = @ \cup s.lines, !.over = s.lines = {}]
  <2>1. WalkOn(s) = w
    BY <1>4 DEF WalkOn
  <2>2. walk.page \in Nat /\ s.page \in Nat /\ walk.seen \subseteq Chats
    BY <1>4 DEF WalkOK
  <2>3. s.lines = Page(BackfillChats, s.page) /\ s.lines \subseteq Chats
    BY <1>2, <1>4, <2>2
  <2>4. /\ w.page = s.page /\ w.start = walk.start /\ w.seen = walk.seen \cup s.lines
        /\ w.over = (s.lines = {}) /\ w.steady = walk.steady
        /\ w \in [page : Nat, start : SUBSET Chats, seen : SUBSET Chats, over : BOOLEAN, steady : BOOLEAN]
    BY <2>2, <2>3 DEF WalkOK
  <2>5. ASSUME walk.steady, NEW c \in walk.start PROVE c \in BackfillChats
    BY <2>5 DEF WalkOK
  <2>6. ASSUME walk.steady, NEW c \in walk.start, Place(c, BackfillChats) < s.page * PageSize
        PROVE  c \in walk.seen
    BY <1>4, <2>6 DEF WalkOK
  <2>7. ASSUME walk.steady, NEW c \in walk.start, Place(c, BackfillChats) < (s.page + 1) * PageSize
        PROVE  c \in walk.seen \cup s.lines
    BY <1>1, <2>2, <2>3, <2>5, <2>6, <2>7, PagePlaces
  <2>8. ASSUME walk.steady, s.lines = {}, NEW c \in walk.start PROVE c \in walk.seen
    <3>1. Place(c, BackfillChats) < s.page * PageSize
      BY <1>1, <2>2, <2>3, <2>5, <2>8, EmptyPage
    <3>2. QED
      BY <2>6, <2>8, <3>1
  <2> HIDE DEF w
  <2>9. QED
    BY <2>1, <2>4, <2>5, <2>7, <2>8 DEF WalkOK
<1>5. QED
  BY <1>3, <1>4 DEF WalkOn

(* While no chat leaves or is renamed, no place falls.                     *)
Same == \A c \in BackfillChats : Eligible(c)' /\ rows'[c].title = rows[c].title

LEMMA PlaceKept ==
  ASSUME TypeOK, Same, NEW c \in BackfillChats
  PROVE  c \in BackfillChats' /\ Place(c, BackfillChats) <= Place(c, BackfillChats)'
<1>1. BackfillChats \subseteq Chats /\ BackfillChats' \subseteq Chats
  BY DEF BackfillChats
<1>2. BackfillChats \subseteq BackfillChats'
  BY DEF Same, BackfillChats
<1> DEFINE after == {d \in BackfillChats' : Before(d, c)'}
<1>3. Earlier(c, BackfillChats) \subseteq after
  BY <1>2 DEF Earlier, Before, Same
<1>4. IsFiniteSet(BackfillChats')
  BY <1>1, ScreensAssumption, FS_Subset
<1>5. IsFiniteSet(after) /\ after \subseteq BackfillChats'
  BY <1>4, FS_Subset
<1>6. Place(c, BackfillChats)' = Cardinality(after)
  BY DEF Place
<1> HIDE DEF after
<1>7. Cardinality(Earlier(c, BackfillChats)) <= Cardinality(after)
  BY <1>3, <1>5, FS_Subset
<1>8. QED
  BY <1>1, <1>2, <1>6, <1>7, PlaceFacts

LEMMA WatchKeeps ==
  ASSUME TypeOK, NEW w, WalkOK(w), Watch(w)
  PROVE  WalkOK(walk)'
<1>1. walk' = [w EXCEPT !.steady = w.steady /\ Same]
  BY DEF Watch, Same
<1>2. /\ walk'.page = w.page /\ walk'.start = w.start /\ walk'.seen = w.seen /\ walk'.over = w.over
      /\ walk'.steady = (w.steady /\ Same)
      /\ walk' \in [page : Nat, start : SUBSET Chats, seen : SUBSET Chats, over : BOOLEAN, steady : BOOLEAN]
  BY <1>1 DEF WalkOK
<1>3. ASSUME w.steady, Same, NEW c \in w.start
      PROVE  /\ c \in BackfillChats'
             /\ Place(c, BackfillChats)' < (w.page + 1) * PageSize => c \in w.seen
  <2>1. c \in BackfillChats /\ (Place(c, BackfillChats) < (w.page + 1) * PageSize => c \in w.seen)
    BY <1>3 DEF WalkOK
  <2>2. c \in BackfillChats' /\ Place(c, BackfillChats) <= Place(c, BackfillChats)'
    BY <1>3, <2>1, PlaceKept
  <2>3. w.page \in Nat /\ (w.page + 1) * PageSize \in Nat
    BY ScreensAssumption DEF WalkOK
  <2>4. Place(c, BackfillChats) \in Nat /\ Place(c, BackfillChats)' \in Nat
    <3>1. BackfillChats \subseteq Chats
      BY DEF BackfillChats
    <3>2. (Place(c, BackfillChats) \in Nat)'
      <4>1. IsFiniteSet(BackfillChats')
        BY ScreensAssumption, FS_Subset DEF BackfillChats
      <4>2. IsFiniteSet({d \in BackfillChats' : Before(d, c)'})
        BY <4>1, FS_Subset
      <4>3. QED
        BY <4>2, FS_CardinalityType DEF Place
    <3>3. QED
      BY <3>1, <3>2, PlaceFacts
  <2>5. QED
    BY <2>1, <2>2, <2>3, <2>4
<1>4. ASSUME w.steady, w.over PROVE w.start \subseteq w.seen
  BY <1>4 DEF WalkOK
<1>5. QED
  BY <1>2, <1>3, <1>4 DEF WalkOK

(* A step that leaves the lists alone and the walk too.                    *)
LEMMA WalkAlone ==
  ASSUME WalkOK(walk), rows' = rows, override' = override, walk' = walk
  PROVE  WalkOK(walk)'
<1>1. \A c \in Chats : Eligible(c)' = Eligible(c)
  BY DEF Eligible, Denied, Allowed
<1>2. BackfillChats' = BackfillChats
  BY <1>1 DEF BackfillChats
<1>3. \A c : Place(c, BackfillChats)' = Place(c, BackfillChats)
  BY <1>2 DEF Place, Before
<1>4. QED
  BY <1>2, <1>3 DEF WalkOK

LEMMA AnswerPage ==
  ASSUME TypeOK, NEW b, Pressable(b), b.do # "cancel", Answer(b).kind = "chats"
  PROVE  Answer(b).lines = Page(BackfillChats, Answer(b).page)
<1>1. CASE b.do = "d" \/ b.do = "p"
  BY <1>1 DEF Answer, ChatPage
<1>2. CASE b.do \notin {"d", "p"}
  BY <1>2 DEF Pressable, LookingButtons, Answer, Periods, PolicyPage, Confirmation, StartAnswer, JobMessage
<1>3. QED
  BY <1>1, <1>2

LEMMA WalkStep == ASSUME IInv, WalkOK(walk), [Next]_vars PROVE WalkOK(walk)'
<1>1. TypeOK
  BY DEF IInv
<1>2. ASSUME NEW b, Pressable(b), Say(b), rows' = rows, b.do = "cancel" => override' = override
      PROVE  WalkOK(walk)'
  <2>1. CASE b.do = "cancel"
    BY <1>2, <2>1, WalkAlone DEF Say
  <2>2. CASE b.do # "cancel"
    <3>1. WalkOK(WalkOn(Answer(b)))
      BY <1>1, <1>2, <2>2, AnswerPage, WalkOnKeeps
    <3>2. Watch(WalkOn(Answer(b)))
      BY <1>2, <2>2 DEF Say
    <3>3. QED
      BY <1>1, <3>1, <3>2, WatchKeeps
  <2>3. QED
    BY <2>1, <2>2
<1>3. ASSUME NEW b, Pressable(b), Press(b) \/ PressUndone(b) PROVE WalkOK(walk)'
  <2>1. Say(b) /\ rows' = rows
    BY <1>3 DEF Press, PressUndone, Pressed
  <2>2. b.do = "cancel" => override' = override
    BY <1>3 DEF Press, PressUndone, Handle, StartBackfill, RequestCancel, SetPolicy, Look, LookingButtons
  <2>3. QED
    BY <1>2, <1>3, <2>1, <2>2
<1>4. ASSUME NEW b, PressUnanswered(b) PROVE WalkOK(walk)'
  BY <1>1, <1>4, WatchKeeps DEF PressUnanswered
<1>5. CASE Listener
  <2>1. Watch(walk) \/ UNCHANGED <<rows, override, walk>>
    BY <1>5 DEF Listener, LiveUpdate, RunBatch, EndJob
  <2>2. QED
    BY <1>1, <2>1, WatchKeeps, WalkAlone
<1>6. CASE UNCHANGED vars
  BY <1>6, WalkAlone DEF vars
<1>7. QED
  BY <1>3, <1>4, <1>5, <1>6, Steps

-----------------------------------------------------------------------------
(* Theorems.                                                               *)

(* The rows have the values the schema allows, and no number of the        *)
(* sequence of jobs is used before it is drawn.                            *)
THEOREM TypeCorrect == Spec => []TypeOK
<1>1. IInv => TypeOK
  BY DEF IInv
<1>2. QED
  BY <1>1, InvHolds, PTL

(* Each job was confirmed: the bot has asked about its chat and its days.  *)
THEOREM AlwaysConfirmed == Spec => []ConfirmedFirst
<1>1. IInv => ConfirmedFirst
  BY DEF IInv
<1>2. QED
  BY <1>1, InvHolds, PTL

(* The number in a job message never comes to mean another job, although a *)
(* rollback takes back the job of a message that was sent.                 *)
THEOREM NumberKept == Spec => []NumberMeansOneJob
<1>1. IInv => NumberMeansOneJob
  BY DEF IInv
<1>2. QED
  BY <1>1, InvHolds, PTL

(* A job has a message with its buttons, unless the answer to its Start    *)
(* got lost.                                                               *)
THEOREM CancelKept == Spec => []CancelReachable
<1>1. IInv => CancelReachable
  BY DEF IInv
<1>2. QED
  BY <1>1, InvHolds, PTL

(* No old button starts a job for a chat that is denied by then, nor for a *)
(* channel that is not allowed.                                            *)
THEOREM StartAllowed == Spec => StartedAsAllowed
<1> DEFINE Begins(j) == ~Exists(j) /\ Exists(j)' =>
                          /\ jobs'[j].chat \notin Denied
                          /\ Kind[jobs'[j].chat] = "channel" => jobs'[j].chat \in Allowed
<1>1. ASSUME IInv, [Next]_vars PROVE \A j \in 1 .. MaxJobs : Begins(j)
  <2>1. TypeOK /\ RowInv
    BY <1>1 DEF IInv
  <2>2. ASSUME SameJobs(jobs, jobs') PROVE \A j \in 1 .. MaxJobs : Begins(j)
    BY <2>2 DEF SameJobs, Exists
  <2>3. ASSUME NEW b, Pressable(b), Press(b) \/ PressUnanswered(b) \/ PressUndone(b)
        PROVE  \A j \in 1 .. MaxJobs : Begins(j)
    <3>1. CASE SameJobs(jobs, jobs')
      BY <2>2, <3>1
    <3>2. CASE /\ b.do = "start" /\ IsAvailable(b) /\ Fresh \in 1 .. MaxJobs
               /\ jobs' = [jobs EXCEPT ![Fresh] = NewJob(b)]
      <4>1. b.chat \in Chats /\ NewJob(b).chat = b.chat
        BY <2>3, <3>2 DEF Pressable, NewJob
      <4>2. b.chat \notin Denied /\ (Kind[b.chat] = "channel" => b.chat \in Allowed)
        BY <2>1, <3>2, <4>1, ScreensAssumption DEF IsAvailable, Eligible, RowInv
      <4>3. jobs'[Fresh].chat = b.chat
        BY <2>1, <3>2, <4>1 DEF TypeOK
      <4>4. \A j \in 1 .. MaxJobs \ {Fresh} : jobs'[j] = jobs[j]
        BY <2>1, <3>2 DEF TypeOK
      <4>5. QED
        BY <4>2, <4>3, <4>4 DEF Exists
    <3>3. QED
      BY <2>1, <2>3, <3>1, <3>2, PressFacts
  <2>4. CASE Listener
    BY <2>1, <2>2, <2>4, ListenerFacts
  <2>5. CASE UNCHANGED vars
    BY <2>5 DEF vars, Exists
  <2>6. QED
    BY <1>1, <2>3, <2>4, <2>5, Steps
<1>2. QED
  BY <1>1, InvHolds, PTL DEF Spec, StartedAsAllowed

(* Whoever turns the pages to an empty one has seen every chat that was in *)
(* the list at first, whatever came in meanwhile, as long as no chat left  *)
(* the list or was renamed.                                                *)
THEOREM WalkComplete == Spec => []WalkMissesNothing
<1>1. IInv /\ WalkOK(walk) /\ [Next]_vars => WalkOK(walk)'
  BY WalkStep
<1>2. WalkOK(walk) => WalkMissesNothing
  BY DEF WalkOK, WalkMissesNothing
<1>3. QED
  BY <1>1, <1>2, WalkInit, InvHolds, PTL DEF Spec

-----------------------------------------------------------------------------
(* How many jobs the owner cannot find.                                    *)

SilentInv == /\ IsFiniteSet(silent) /\ faults \in 0 .. MaxFaults
             /\ Cardinality(silent) <= faults

LEMMA SilentStep == IInv /\ SilentInv /\ [Next]_vars => SilentInv'
<1> SUFFICES ASSUME IInv, SilentInv, [Next]_vars PROVE SilentInv'
  OBVIOUS
<1>1. TypeOK /\ MaxFaults \in Nat
  BY ScreensAssumption DEF IInv
<1>2. ASSUME UNCHANGED silent, faults' = faults \/ (faults < MaxFaults /\ faults' = faults + 1)
      PROVE  SilentInv'
  <2>1. Cardinality(silent) \in Nat
    BY FS_CardinalityType DEF SilentInv
  <2>2. QED
    BY <1>1, <1>2, <2>1 DEF SilentInv
<1>3. ASSUME NEW b, Pressable(b), Press(b) \/ PressUndone(b) PROVE SilentInv'
  BY <1>2, <1>3 DEF Press, PressUndone
<1>4. ASSUME NEW b, Pressable(b), PressUnanswered(b) PROVE SilentInv'
  <2>1. /\ Pressed(b) /\ Handle(b) /\ faults < MaxFaults /\ faults' = faults + 1
        /\ silent' = silent \cup ((1 .. lastJob') \ (1 .. lastJob))
    BY <1>4 DEF PressUnanswered
  <2>2. lastJob \in Nat /\ (lastJob' = lastJob \/ lastJob' = lastJob + 1)
    BY <1>1, <1>4, <2>1, HandlerFacts, ScreensAssumption DEF TypeOK, Fresh
  <2>3. CASE lastJob' = lastJob
    <3>1. silent' = silent
      BY <2>1, <2>3
    <3>2. QED
      BY <1>2, <2>1, <3>1
  <2>4. CASE lastJob' = lastJob + 1
    <3>1. silent' = silent \cup {lastJob + 1}
      BY <2>1, <2>2, <2>4
    <3>2. IsFiniteSet(silent') /\ Cardinality(silent') <= Cardinality(silent) + 1
          /\ Cardinality(silent) \in Nat /\ Cardinality(silent') \in Nat
      <4>1. IsFiniteSet(silent)
        BY DEF SilentInv
      <4>2. PICK S : S = silent \cup {lastJob + 1}
        OBVIOUS
      <4>3. IsFiniteSet(S) /\ (Cardinality(S) = Cardinality(silent) \/ Cardinality(S) = Cardinality(silent) + 1)
        BY <4>1, <4>2, FS_AddElement
      <4>4. Cardinality(silent) \in Nat /\ Cardinality(S) \in Nat
        BY <4>1, <4>3, FS_CardinalityType
      <4>5. silent' = S
        BY <3>1, <4>2
      <4>6. QED
        BY <4>3, <4>4, <4>5
    <3>3. QED
      BY <1>1, <2>1, <3>2 DEF SilentInv
  <2>5. QED
    BY <2>2, <2>3, <2>4
<1>5. CASE Listener \/ UNCHANGED vars
  <2>1. UNCHANGED <<silent, faults>>
    BY <1>5 DEF Listener, LiveUpdate, RunBatch, EndJob, vars, boundVars
  <2>2. QED
    BY <1>2, <2>1
<1>6. QED
  BY <1>3, <1>4, <1>5, Steps

LEMMA SilentHolds == Spec => [](IInv /\ SilentInv)
<1>1. Init => SilentInv
  BY FS_EmptySet, ScreensAssumption DEF Init, SilentInv
<1>2. QED
  BY <1>1, SilentStep, InvInit, InvStep, PTL DEF Spec

(* Only a lost answer or a death hides a job from the owner, and each of   *)
(* them one at most.                                                       *)
THEOREM HiddenJobsCounted == Spec => []FewUnreachable
<1> DEFINE Hidden == {j \in 1 .. MaxJobs : Exists(j) /\ ~Reachable(j)}
<1>1. ASSUME IInv, SilentInv PROVE Cardinality(Hidden) <= faults
  <2>1. Hidden \subseteq silent
    BY <1>1 DEF IInv, CancelReachable
  <2>2. IsFiniteSet(silent) /\ Cardinality(silent) \in Nat /\ Cardinality(silent) <= faults /\ faults \in Nat
    BY <1>1, FS_CardinalityType DEF SilentInv
  <2> HIDE DEF Hidden
  <2>3. IsFiniteSet(Hidden) /\ Cardinality(Hidden) <= Cardinality(silent) /\ Cardinality(Hidden) \in Nat
    BY <2>1, <2>2, FS_Subset, FS_CardinalityType
  <2>4. QED
    BY <2>2, <2>3
<1>2. IInv /\ SilentInv => FewUnreachable
  BY <1>1 DEF FewUnreachable
<1>3. QED
  BY <1>2, SilentHolds, PTL
=============================================================================
