------------------------ MODULE BackfillJobs_proofs ------------------------
(***************************************************************************)
(* Proofs about BackfillJobs: the invariants, the action properties and    *)
(* the refinement of BackfillPromise, for every number of jobs, chats,     *)
(* messages, faults and every batch size.                                  *)
(***************************************************************************)
EXTENDS BackfillJobs, FiniteSetTheorems, TLAPS

Busy == pc \in InTransaction
Open == {"pending", "running"}

(* What holds while a transaction is open.  The job the loop works on and  *)
(* the row the bot has updated are open in the committed table, and they   *)
(* are different rows: that is what the row lock gives.                    *)
LockInv ==
  /\ Busy => jobs[claimed].status \in Open /\ botJob # claimed
  /\ botJob # Nobody => jobs[botJob].status \in Open

(* The batch is the newest part of what remains, and once B has committed  *)
(* it is stored.                                                           *)
BatchInv ==
  /\ pc \in {"read", "saved"} =>
       /\ \A m \in batch : InPeriod(jobs[claimed], m) /\ m < jobs[claimed].before
       /\ \A m \in Remaining(jobs[claimed]) \ batch : \A k \in batch : m < k
       /\ batch = {} => Remaining(jobs[claimed]) = {}
  /\ pc = "saved" => batch \subseteq messages[jobs[claimed].chat]

(* A period ends at a message that already exists: new ones are outside.   *)
PeriodInv ==
  /\ \A c \in Chats : history[c] \subseteq 1 .. latest[c]
  /\ \A j \in Jobs : Exists(j) => jobs[j].to <= latest[jobs[j].chat]

(* Jobs are numbered in the order they were created.                       *)
IInv ==
  /\ TypeOK
  /\ LockInv
  /\ BatchInv
  /\ PeriodInv
  /\ CoveredAboveCursor
  /\ CompletedMeansSaved

-----------------------------------------------------------------------------
(* Type correctness: rows, loop state and the row lock keep their values   *)
(* through every operation of the bot, the listener and Telegram.          *)
LEMMA NoRowType == NoRow \in Rows
<1>1. (CHOOSE c \in Chats : TRUE) \in Chats
  BY BackfillAssumption
<1>2. QED
  BY <1>1 DEF NoRow, Rows, Statuses

LEMMA BatchFinite == ASSUME NEW S, S \subseteq 1 .. MaxMessages
                     PROVE  IsFiniteSet(S) /\ Cardinality(S) \in Nat
<1>1. IsFiniteSet(1 .. MaxMessages)
  BY FS_Interval, BackfillAssumption
<1>2. QED
  BY <1>1, FS_Subset, FS_CardinalityType

LEMMA ProgressType == ASSUME NEW row \in Rows, NEW S, Cardinality(S) \in Nat, NEW low \in Nat
                      PROVE  Progress(row, S, low) \in Rows
<1>1. [row EXCEPT !.saved = @ + Cardinality(S)] \in Rows
  BY DEF Rows
<1>2. ASSUME NEW r \in Rows PROVE [r EXCEPT !.before = low, !.status = "running"] \in Rows
  BY DEF Rows, Statuses, ActiveStatuses
<1>3. Progress(row, S, low) = [[row EXCEPT !.saved = @ + Cardinality(S)]
                                 EXCEPT !.before = low, !.status = "running"]
  BY DEF Progress, Rows
<1>4. QED
  BY <1>1, <1>2, <1>3

LEMMA TypeInit == Init => TypeOK
<1> SUFFICES ASSUME Init PROVE TypeOK
  OBVIOUS
<1>1. history \in [Chats -> SUBSET (1 .. MaxMessages)] /\ messages \in [Chats -> SUBSET (1 .. MaxMessages)]
  BY DEF Init
<1>2. latest \in [Chats -> 0 .. MaxMessages] /\ jobs \in [Jobs -> Rows]
  BY NoRowType, BackfillAssumption DEF Init
<1>3. QED
  BY <1>1, <1>2 DEF Init, TypeOK, Nobody, LoopStates, InTransaction

LEMMA TypeStep == TypeOK /\ [Next]_vars => TypeOK'
<1> SUFFICES ASSUME TypeOK, [Next]_vars PROVE TypeOK'
  OBVIOUS
<1> USE BackfillAssumption DEF TypeOK, Jobs, Nobody, LoopStates, InTransaction
<1>1. ASSUME NEW c \in Chats, NewMessage(c) PROVE TypeOK'
  BY <1>1 DEF NewMessage, listenerVars, faultVars
<1>2. ASSUME NEW c \in Chats, NEW m \in history[c], DeleteMessage(c, m) PROVE TypeOK'
  BY <1>2 DEF DeleteMessage, listenerVars, faultVars
<1>3. ASSUME NEW j \in Jobs, NEW c \in Chats, NEW f \in 1 .. latest[c] + 1,
             CreateJob(j, c, f)
      PROVE  TypeOK'
  BY <1>3 DEF CreateJob, telegramVars, listenerVars, faultVars, Rows, Statuses, ActiveStatuses
<1>4. ASSUME NEW j \in Jobs, RequestCancel(j) PROVE TypeOK'
  BY <1>4 DEF RequestCancel, telegramVars, listenerVars, faultVars
<1>5. ASSUME CommitCancel PROVE TypeOK'
  BY <1>5 DEF CommitCancel, telegramVars, listenerVars, faultVars, Rows, Statuses, ActiveStatuses
<1>6. ASSUME BotCrash PROVE TypeOK'
  BY <1>6 DEF BotCrash, telegramVars, listenerVars
<1>7. ASSUME EnterLoop PROVE TypeOK'
  BY <1>7 DEF EnterLoop, telegramVars, faultVars
<1>8. ASSUME NEW j \in Jobs, NEW row \in Rows, EndRun(j, row),
             UNCHANGED <<telegramVars, messages, botJob, faultVars>>
      PROVE  TypeOK'
  BY <1>8 DEF EndRun, telegramVars, faultVars
<1>9. ASSUME NEW j \in Jobs, NEW s \in Statuses PROVE [jobs[j] EXCEPT !.status = s] \in Rows
  BY <1>9 DEF Rows
<1>10. ASSUME NEW j \in Jobs, CancelJob(j) PROVE TypeOK'
  BY <1>8, <1>9, <1>10 DEF CancelJob, Statuses, TerminalStatuses
<1>11. ASSUME NEW j \in Jobs, ClaimJob(j) PROVE TypeOK'
  BY <1>11 DEF ClaimJob, telegramVars, faultVars
<1>12. ASSUME ReadBatch PROVE TypeOK'
  <2>1. Remaining(jobs[claimed]) \subseteq 1 .. MaxMessages
    BY <1>12 DEF ReadBatch, Remaining, Rows
  <2>2. QED
    BY <1>12, <2>1 DEF ReadBatch, telegramVars, faultVars
<1>13. ASSUME CommitBatch PROVE TypeOK'
  BY <1>13 DEF CommitBatch, telegramVars, faultVars, Rows
<1>14. ASSUME FailBatch PROVE TypeOK'
  BY <1>8, <1>9, <1>14 DEF FailBatch, Statuses, TerminalStatuses
<1>15. ASSUME CompleteJob PROVE TypeOK'
  BY <1>8, <1>9, <1>15 DEF CompleteJob, Statuses, TerminalStatuses
<1>16. ASSUME RecordProgress PROVE TypeOK'
  <2>1. PICK low \in batch : EndRun(claimed, Progress(jobs[claimed], batch, low))
    BY <1>16 DEF RecordProgress
  <2>2. Cardinality(batch) \in Nat
    BY BatchFinite
  <2>3. low \in Nat /\ jobs[claimed] \in Rows /\ claimed \in Jobs
    BY <1>16 DEF RecordProgress
  <2>4. Progress(jobs[claimed], batch, low) \in Rows
    BY <2>2, <2>3, ProgressType
  <2>5. QED
    BY <1>8, <1>16, <2>1, <2>3, <2>4 DEF RecordProgress
<1>17. ASSUME NEW where \in {"stopped", "down"}, LeaveRun(where),
              UNCHANGED <<telegramVars, messages, jobs, botJob>>,
              crashes' \in Nat, dbErrors' \in Nat
       PROVE  TypeOK'
  <2>1. pc' \in LoopStates /\ batch' \in SUBSET (1 .. MaxMessages) /\ looping' \in BOOLEAN
    BY <1>17 DEF LeaveRun
  <2>2. claimed' \in Jobs \cup {Nobody} /\ (claimed' # Nobody <=> pc' \in InTransaction)
    BY <1>17 DEF LeaveRun
  <2>3. QED
    BY <1>17, <2>1, <2>2 DEF telegramVars
<1>18. ASSUME Crash \/ DbError PROVE TypeOK'
  <2>1. crashes' \in Nat /\ dbErrors' \in Nat
    BY <1>18 DEF Crash, DbError
  <2>2. \E where \in {"stopped", "down"} : LeaveRun(where)
    BY <1>18 DEF Crash, DbError
  <2>3. QED
    BY <1>17, <1>18, <2>1, <2>2 DEF Crash, DbError
<1>19. ASSUME Restart PROVE TypeOK'
  BY <1>19 DEF Restart, telegramVars, faultVars
<1>20. CASE UNCHANGED vars
  BY <1>20 DEF vars, telegramVars, listenerVars, faultVars
<1>21. QED
  BY <1>1, <1>2, <1>3, <1>4, <1>5, <1>6, <1>7, <1>10, <1>11, <1>12, <1>13,
     <1>14, <1>15, <1>16, <1>18, <1>19, <1>20
  DEF Next, Telegram, Bot, Listener

THEOREM TypeCorrect == Spec => []TypeOK
<1>1. QED
  BY TypeInit, TypeStep, PTL DEF Spec

-----------------------------------------------------------------------------
(* The row lock: nobody but the loop changes the row it works on.          *)
LEMMA LockStep == TypeOK /\ LockInv /\ [Next]_vars => LockInv'
<1> SUFFICES ASSUME TypeOK, LockInv, [Next]_vars PROVE LockInv'
  OBVIOUS
<1>0. /\ jobs \in [Jobs -> Rows]
      /\ Busy => claimed \in Jobs
      /\ botJob # Nobody => botJob \in Jobs
      /\ Nobody \notin Jobs
  BY BackfillAssumption DEF TypeOK, Busy, Jobs, Nobody
<1> USE DEF LockInv, Busy, InTransaction, Open
<1>1. CASE Telegram
  BY <1>1 DEF Telegram, NewMessage, DeleteMessage, listenerVars
<1>2. ASSUME NEW j \in Jobs, NEW c \in Chats, NEW f \in 1 .. latest[c] + 1,
             CreateJob(j, c, f)
      PROVE  LockInv'
  BY <1>0, <1>2 DEF CreateJob, listenerVars
<1>3. ASSUME NEW j \in Jobs, RequestCancel(j) PROVE LockInv'
  BY <1>0, <1>3 DEF RequestCancel, Unlocked, listenerVars
<1>4. ASSUME CommitCancel PROVE LockInv'
  BY <1>0, <1>4 DEF CommitCancel, listenerVars, Rows
<1>5. ASSUME BotCrash PROVE LockInv'
  BY <1>0, <1>5 DEF BotCrash, listenerVars
<1>6. ASSUME EnterLoop PROVE LockInv'
  BY <1>6 DEF EnterLoop
<1>7. ASSUME NEW j \in Jobs, NEW row, EndRun(j, row), botJob # j, botJob' = botJob
      PROVE  LockInv'
  BY <1>0, <1>7 DEF EndRun
<1>8. ASSUME NEW j \in Jobs, CancelJob(j) PROVE LockInv'
  BY <1>7, <1>8 DEF CancelJob, NextJob, Claimable, Unlocked
<1>9. ASSUME NEW j \in Jobs, ClaimJob(j) PROVE LockInv'
  BY <1>9 DEF ClaimJob, NextJob, Claimable, Unlocked, ActiveStatuses
<1>10. CASE ReadBatch \/ CommitBatch
  BY <1>10 DEF ReadBatch, CommitBatch
<1>11. CASE FailBatch \/ CompleteJob
  BY <1>0, <1>7, <1>11 DEF FailBatch, CompleteJob
<1>12. CASE RecordProgress
  <2>1. PICK low \in batch : EndRun(claimed, Progress(jobs[claimed], batch, low))
    BY <1>12 DEF RecordProgress
  <2>2. QED
    BY <1>0, <1>7, <1>12, <2>1 DEF RecordProgress
<1>13. CASE Crash \/ DbError
  BY <1>13 DEF Crash, DbError, LeaveRun
<1>14. CASE Restart \/ UNCHANGED vars
  BY <1>14 DEF Restart, vars, listenerVars
<1>15. QED
  BY <1>1, <1>2, <1>3, <1>4, <1>5, <1>6, <1>8, <1>9, <1>10, <1>11, <1>12, <1>13, <1>14
  DEF Next, Bot, Listener

(* What a step can be, seen from the tables: a status that changes under   *)
(* its rules, a step of the loop that touches no table, or one of the      *)
(* steps named below.                                                      *)
StatusChange(j, s) ==
  /\ \/ jobs[j].status \in Open /\ s \in {"cancel_requested", "failed", "completed"}
     \/ jobs[j].status = "cancel_requested" /\ s = "cancelled"
  /\ s = "completed" => pc = "saved" /\ claimed = j /\ batch = {}
  /\ jobs' = [jobs EXCEPT ![j] = [jobs[j] EXCEPT !.status = s]]
  /\ UNCHANGED <<history, latest, messages>>
  /\ \/ pc' = "idle"
     \/ UNCHANGED <<pc, claimed, batch>> /\ (Busy => j # claimed)

Quiet ==
  /\ UNCHANGED <<history, latest, messages, jobs>>
  /\ UNCHANGED <<pc, claimed, batch>> \/ pc' \in {"idle", "claimed", "stopped", "down"}

StepKind ==
  \/ \E c \in Chats : NewMessage(c) \/ \E m \in history[c] : DeleteMessage(c, m)
  \/ \E j \in Jobs, c \in Chats : \E f \in 1 .. latest[c] + 1 : CreateJob(j, c, f)
  \/ \E j \in Jobs, s \in Statuses : StatusChange(j, s)
  \/ Quiet
  \/ ReadBatch \/ CommitBatch \/ RecordProgress

LEMMA StepKinds == TypeOK /\ LockInv /\ [Next]_vars => StepKind
<1> SUFFICES ASSUME TypeOK, LockInv, [Next]_vars PROVE StepKind
  OBVIOUS
<1>0. /\ pc \in InTransaction => claimed \in Jobs
      /\ botJob # Nobody => botJob \in Jobs
  BY DEF TypeOK
<1> USE DEF LockInv, Busy, InTransaction, Open
<1> DEFINE Terminal(j, s) == StatusChange(j, s)
<1>1. CASE Telegram
  BY <1>1 DEF Telegram, StepKind
<1>2. CASE \E j \in Jobs, c \in Chats : \E f \in 1 .. latest[c] + 1 : CreateJob(j, c, f)
  BY <1>2 DEF StepKind
<1>3. CASE \/ \E j \in Jobs : RequestCancel(j) \/ ClaimJob(j)
           \/ BotCrash \/ EnterLoop \/ Crash \/ DbError \/ Restart \/ UNCHANGED vars
  <2>1. Quiet
    BY <1>3 DEF RequestCancel, ClaimJob, BotCrash, EnterLoop, Crash, DbError, Restart,
                LeaveRun, vars, telegramVars, listenerVars, Quiet
  <2>2. QED
    BY <2>1 DEF StepKind
<1>4. CASE CommitCancel
  <2>1. StatusChange(botJob, "cancel_requested") /\ botJob \in Jobs
    BY <1>0, <1>4 DEF CommitCancel, StatusChange, telegramVars, listenerVars
  <2>2. QED
    BY <2>1 DEF StepKind, Statuses, ActiveStatuses
<1>5. ASSUME NEW j \in Jobs, CancelJob(j) PROVE StepKind
  <2>1. StatusChange(j, "cancelled")
    BY <1>5 DEF CancelJob, EndRun, StatusChange, telegramVars
  <2>2. QED
    BY <2>1 DEF StepKind, Statuses, TerminalStatuses
<1>6. CASE FailBatch
  <2>1. StatusChange(claimed, "failed") /\ claimed \in Jobs
    BY <1>0, <1>6 DEF FailBatch, EndRun, StatusChange, telegramVars
  <2>2. QED
    BY <2>1 DEF StepKind, Statuses, TerminalStatuses
<1>7. CASE CompleteJob
  <2>1. StatusChange(claimed, "completed") /\ claimed \in Jobs
    BY <1>0, <1>7 DEF CompleteJob, EndRun, StatusChange, telegramVars
  <2>2. QED
    BY <2>1 DEF StepKind, Statuses, TerminalStatuses
<1>8. CASE ReadBatch \/ CommitBatch \/ RecordProgress
  BY <1>8 DEF StepKind
<1>9. QED
  BY <1>1, <1>2, <1>3, <1>4, <1>5, <1>6, <1>7, <1>8 DEF Next, Bot, Listener

LEMMA ProgressFields ==
  ASSUME NEW row \in Rows, NEW S, NEW low
  PROVE  LET r == Progress(row, S, low)
         IN  /\ r.status = "running" /\ r.chat = row.chat /\ r.from = row.from
             /\ r.to = row.to /\ r.before = low
             /\ r.saved = row.saved + Cardinality(S)
BY DEF Progress, Rows

LEMMA ProgressStep ==
  ASSUME TypeOK, RecordProgress
  PROVE  \E low \in batch :
           /\ low \in Nat /\ \A k \in batch : low <= k
           /\ jobs' = [jobs EXCEPT ![claimed] = Progress(jobs[claimed], batch, low)]
           /\ pc = "saved" /\ pc' = "idle" /\ claimed \in Jobs
           /\ UNCHANGED <<history, latest, messages>>
<1>1. claimed \in Jobs /\ batch \subseteq Nat
  BY BackfillAssumption DEF TypeOK, RecordProgress, InTransaction
<1>2. QED
  BY <1>1 DEF RecordProgress, EndRun, telegramVars

(* New messages are newer than every period that was asked for.            *)
LEMMA PeriodStep == TypeOK /\ LockInv /\ PeriodInv /\ StepKind => PeriodInv'
<1> SUFFICES ASSUME TypeOK, LockInv, PeriodInv, StepKind PROVE PeriodInv'
  OBVIOUS
<1>0. /\ jobs \in [Jobs -> Rows]
      /\ history \in [Chats -> SUBSET (1 .. MaxMessages)]
      /\ latest \in [Chats -> 0 .. MaxMessages]
      /\ pc \in InTransaction => claimed \in Jobs
  BY DEF TypeOK
<1>1. ASSUME NEW c \in Chats, NewMessage(c) PROVE PeriodInv'
  <2>1. \A d \in Chats : history'[d] \subseteq 1 .. latest'[d]
    BY <1>0, <1>1, BackfillAssumption DEF NewMessage, PeriodInv
  <2>2. \A d \in Chats : latest[d] <= latest'[d]
    BY <1>0, <1>1, BackfillAssumption DEF NewMessage
  <2>3. ASSUME NEW j \in Jobs, Exists(j)' PROVE (jobs[j].to <= latest[jobs[j].chat])'
    <3>1. jobs' = jobs /\ jobs[j] \in Rows /\ latest' \in [Chats -> 0 .. MaxMessages]
      BY <1>0, <1>1, BackfillAssumption DEF NewMessage
    <3>2. jobs[j].to <= latest[jobs[j].chat]
      BY <2>3, <3>1 DEF PeriodInv, Exists
    <3>3. jobs[j].to \in Nat /\ jobs[j].chat \in Chats
      BY <3>1 DEF Rows
    <3>4. QED
      BY <1>0, <2>2, <3>1, <3>2, <3>3, BackfillAssumption
  <2>4. QED
    BY <2>1, <2>3 DEF PeriodInv
<1>2. ASSUME NEW c \in Chats, NEW m \in history[c], DeleteMessage(c, m) PROVE PeriodInv'
  BY <1>0, <1>2 DEF DeleteMessage, PeriodInv, Exists
<1>3. ASSUME NEW j \in Jobs, NEW c \in Chats, NEW f \in 1 .. latest[c] + 1,
             CreateJob(j, c, f)
      PROVE  PeriodInv'
  BY <1>0, <1>3, BackfillAssumption DEF CreateJob, PeriodInv, Exists, telegramVars
<1>4. ASSUME NEW j \in Jobs, NEW row, jobs' = [jobs EXCEPT ![j] = row],
             UNCHANGED <<history, latest>>,
             row.to = jobs[j].to, row.chat = jobs[j].chat, Exists(j)
      PROVE  PeriodInv'
  BY <1>0, <1>4 DEF PeriodInv, Exists
<1>5. ASSUME NEW j \in Jobs, NEW s \in Statuses, StatusChange(j, s) PROVE PeriodInv'
  BY <1>0, <1>4, <1>5 DEF StatusChange, Rows, Exists, Open
<1>6. CASE Quiet \/ ReadBatch \/ CommitBatch
  BY <1>6 DEF Quiet, ReadBatch, CommitBatch, telegramVars, PeriodInv, Exists
<1>7. CASE RecordProgress
  <2>1. PICK low \in batch :
          /\ jobs' = [jobs EXCEPT ![claimed] = Progress(jobs[claimed], batch, low)]
          /\ claimed \in Jobs /\ pc = "saved" /\ UNCHANGED <<history, latest, messages>>
    BY <1>7, ProgressStep
  <2>2. Exists(claimed) /\ jobs[claimed] \in Rows
    BY <1>0, <2>1 DEF Exists, LockInv, Busy, InTransaction, Open
  <2>3. Progress(jobs[claimed], batch, low).to = jobs[claimed].to
        /\ Progress(jobs[claimed], batch, low).chat = jobs[claimed].chat
    BY <2>2, ProgressFields
  <2>4. QED
    BY <1>4, <2>1, <2>2, <2>3
<1>8. QED
  BY <1>1, <1>2, <1>3, <1>5, <1>6, <1>7 DEF StepKind

(* The batch stays the newest part of what remains while Telegram changes  *)
(* under it, and it is stored when the outcome is recorded.                *)
LEMMA BatchStep == TypeOK /\ LockInv /\ PeriodInv /\ BatchInv /\ StepKind => BatchInv'
<1> SUFFICES ASSUME TypeOK, LockInv, PeriodInv, BatchInv, StepKind PROVE BatchInv'
  OBVIOUS
<1>0. /\ jobs \in [Jobs -> Rows]
      /\ history \in [Chats -> SUBSET (1 .. MaxMessages)]
      /\ latest \in [Chats -> 0 .. MaxMessages]
      /\ messages \in [Chats -> SUBSET (1 .. MaxMessages)]
      /\ pc \in InTransaction => claimed \in Jobs
  BY DEF TypeOK
<1>1. pc' \notin {"read", "saved"} => BatchInv'
  BY DEF BatchInv
<1>2. ASSUME UNCHANGED <<pc, claimed, batch, messages>>,
             Busy => jobs'[claimed] = jobs[claimed],
             Busy => Remaining(jobs[claimed])' \subseteq Remaining(jobs[claimed])
      PROVE  BatchInv'
  BY <1>2 DEF BatchInv, Busy, InTransaction, InPeriod
<1>3. ASSUME NEW c \in Chats, NewMessage(c) PROVE BatchInv'
  <2>1. Busy => jobs[claimed] \in Rows /\ jobs[claimed].to <= latest[jobs[claimed].chat]
    BY <1>0 DEF PeriodInv, LockInv, Exists, Busy, Open
  <2>2. UNCHANGED <<jobs, pc, claimed, batch, messages>>
    BY <1>3 DEF NewMessage, listenerVars
  <2>3. ASSUME NEW d \in Chats, NEW m \in history'[d], m <= latest[d]
        PROVE  m \in history[d]
    BY <1>0, <1>3, <2>3, BackfillAssumption DEF NewMessage
  <2>4. Busy => Remaining(jobs[claimed])' \subseteq Remaining(jobs[claimed])
    <3> SUFFICES ASSUME Busy, NEW m \in Remaining(jobs[claimed])'
                 PROVE  m \in Remaining(jobs[claimed])
      OBVIOUS
    <3> DEFINE row == jobs[claimed]
    <3>1. row \in Rows /\ row.chat \in Chats /\ row.to \in Nat /\ row.to <= latest[row.chat]
          /\ latest[row.chat] \in Nat
      BY <1>0, <2>1, BackfillAssumption DEF Rows
    <3>2. m \in history'[row.chat] /\ InPeriod(row, m) /\ m < row.before
      BY <2>2 DEF Remaining, InPeriod
    <3>3. m \in Nat
      BY <1>0, <1>3, <3>1, <3>2, BackfillAssumption DEF NewMessage
    <3>4. m <= latest[row.chat]
      BY <3>1, <3>2, <3>3 DEF InPeriod
    <3>5. QED
      BY <2>3, <3>1, <3>2, <3>4 DEF Remaining
  <2>5. QED
    BY <1>2, <2>2, <2>4
<1>4. ASSUME NEW c \in Chats, NEW m \in history[c], DeleteMessage(c, m) PROVE BatchInv'
  <2>1. UNCHANGED <<jobs, pc, claimed, batch, messages>>
    BY <1>4 DEF DeleteMessage, listenerVars
  <2>2. \A d \in Chats : history'[d] \subseteq history[d]
    BY <1>0, <1>4 DEF DeleteMessage
  <2>3. Busy => jobs[claimed].chat \in Chats
    BY <1>0 DEF Busy, Rows
  <2>4. Busy => Remaining(jobs[claimed])' \subseteq Remaining(jobs[claimed])
    BY <2>1, <2>2, <2>3 DEF Remaining, InPeriod
  <2>5. QED
    BY <1>2, <2>1, <2>4
<1>5. ASSUME UNCHANGED <<pc, claimed, batch, messages, history>>,
             Busy => jobs'[claimed] = jobs[claimed]
      PROVE  BatchInv'
  BY <1>2, <1>5 DEF Remaining
<1>6. ASSUME NEW j \in Jobs, NEW c \in Chats, NEW f \in 1 .. latest[c] + 1,
             CreateJob(j, c, f)
      PROVE  BatchInv'
  BY <1>0, <1>5, <1>6 DEF CreateJob, listenerVars, telegramVars, LockInv, Busy, Open
<1>7. ASSUME NEW j \in Jobs, NEW s \in Statuses, StatusChange(j, s) PROVE BatchInv'
  BY <1>0, <1>1, <1>5, <1>7 DEF StatusChange, Busy
<1>8. CASE Quiet
  BY <1>1, <1>5, <1>8 DEF Quiet
<1>9. CASE ReadBatch
  <2>1. NewestFirst(jobs[claimed], batch') /\ UNCHANGED <<jobs, claimed, history>> /\ pc' = "read"
    BY <1>9 DEF ReadBatch, telegramVars
  <2>2. batch' = {} => Remaining(jobs[claimed]) = {}
    BY <2>1, FS_EmptySet, BackfillAssumption DEF NewestFirst
  <2>3. QED
    BY <2>1, <2>2 DEF BatchInv, NewestFirst, Remaining, InPeriod
<1>10. CASE CommitBatch
  <2>1. jobs[claimed].chat \in Chats
    BY <1>0, <1>10 DEF CommitBatch, Rows, InTransaction
  <2>2. /\ UNCHANGED <<jobs, claimed, batch, history>> /\ pc = "read"
        /\ messages' = [messages EXCEPT ![jobs[claimed].chat] = @ \cup batch]
    BY <1>10 DEF CommitBatch, telegramVars
  <2>3. QED
    BY <1>0, <2>1, <2>2 DEF BatchInv, InPeriod, Remaining
<1>11. CASE RecordProgress
  BY <1>1, <1>11 DEF RecordProgress, EndRun
<1>12. QED
  BY <1>3, <1>4, <1>6, <1>7, <1>8, <1>9, <1>10, <1>11 DEF StepKind

-----------------------------------------------------------------------------
(* The two invariants about what is archived.                              *)
Covered(j) ==
  Exists(j) => \A m \in history[jobs[j].chat] :
    InPeriod(jobs[j], m) /\ m >= jobs[j].before => m \in messages[jobs[j].chat]
Complete(j) ==
  jobs[j].status = "completed" => \A m \in history[jobs[j].chat] :
    InPeriod(jobs[j], m) => m \in messages[jobs[j].chat]

(* A step that leaves row j's period and cursor alone, loses no message    *)
(* and gains none inside the period keeps row j covered and complete.      *)
LEMMA RowKept ==
  ASSUME NEW j \in Jobs, Exists(j),
         jobs'[j].chat = jobs[j].chat, jobs'[j].from = jobs[j].from,
         jobs'[j].to = jobs[j].to, jobs'[j].before = jobs[j].before,
         messages[jobs[j].chat] \subseteq messages'[jobs[j].chat],
         \A m \in history'[jobs[j].chat] : m <= jobs[j].to => m \in history[jobs[j].chat]
  PROVE  /\ Covered(j) => Covered(j)'
         /\ Complete(j) /\ jobs'[j].status = jobs[j].status => Complete(j)'
BY DEF Covered, Complete, InPeriod, Exists

LEMMA ArchiveStep ==
  TypeOK /\ LockInv /\ PeriodInv /\ BatchInv
  /\ CoveredAboveCursor /\ CompletedMeansSaved /\ StepKind
  => CoveredAboveCursor' /\ CompletedMeansSaved'
<1> SUFFICES ASSUME TypeOK, LockInv, PeriodInv, BatchInv, CoveredAboveCursor,
                    CompletedMeansSaved, StepKind,
                    NEW j \in Jobs
             PROVE  Covered(j)' /\ Complete(j)'
  BY DEF CoveredAboveCursor, CompletedMeansSaved, Covered, Complete, Exists
<1>0. /\ jobs \in [Jobs -> Rows]
      /\ jobs[j] \in Rows /\ jobs[j].chat \in Chats /\ jobs[j].to \in Nat
      /\ history \in [Chats -> SUBSET (1 .. MaxMessages)]
      /\ latest \in [Chats -> 0 .. MaxMessages]
      /\ messages \in [Chats -> SUBSET (1 .. MaxMessages)]
      /\ pc \in InTransaction => claimed \in Jobs
  BY DEF TypeOK, Rows
<1>1. Covered(j) /\ Complete(j)
  BY DEF CoveredAboveCursor, CompletedMeansSaved, Covered, Complete
<1>2. ASSUME jobs'[j] = jobs[j],
             messages[jobs[j].chat] \subseteq messages'[jobs[j].chat],
             Exists(j) => \A m \in history'[jobs[j].chat] :
                            m <= jobs[j].to => m \in history[jobs[j].chat]
      PROVE  Covered(j)' /\ Complete(j)'
  <2>1. CASE Exists(j)
    BY <1>1, <1>2, <2>1, RowKept
  <2>2. CASE ~Exists(j)
    BY <1>2, <2>2 DEF Exists, Covered, Complete
  <2>3. QED
    BY <2>1, <2>2
<1>3. ASSUME NEW c \in Chats, NewMessage(c) PROVE Covered(j)' /\ Complete(j)'
  <2>1. Exists(j) => jobs[j].to <= latest[jobs[j].chat]
    BY DEF PeriodInv
  <2>2. ASSUME Exists(j), NEW m \in history'[jobs[j].chat], m <= jobs[j].to
        PROVE  m \in history[jobs[j].chat]
    <3>1. latest[jobs[j].chat] \in Nat
      BY <1>0, BackfillAssumption
    <3>2. QED
      BY <1>0, <1>3, <2>1, <2>2, <3>1 DEF NewMessage
  <2>3. QED
    BY <1>2, <1>3, <2>2 DEF NewMessage
<1>4. ASSUME NEW c \in Chats, NEW m \in history[c], DeleteMessage(c, m)
      PROVE  Covered(j)' /\ Complete(j)'
  BY <1>0, <1>2, <1>4 DEF DeleteMessage
<1>5. ASSUME NEW i \in Jobs, NEW c \in Chats, NEW f \in 1 .. latest[c] + 1,
             CreateJob(i, c, f)
      PROVE  Covered(j)' /\ Complete(j)'
  <2>1. CASE j # i
    BY <1>0, <1>2, <1>5, <2>1 DEF CreateJob, telegramVars
  <2>2. CASE j = i
    <3>1. /\ jobs'[j].status = "pending" /\ jobs'[j].before = latest[c] + 1
          /\ jobs'[j].to = latest[c] /\ jobs'[j].chat = c
          /\ UNCHANGED <<history, latest>>
      BY <1>0, <1>5, <2>2 DEF CreateJob, telegramVars
    <3>2. \A m \in history[c] : m < latest[c] + 1
      BY <1>0, BackfillAssumption DEF PeriodInv
    <3>3. QED
      BY <1>0, <3>1, <3>2, BackfillAssumption DEF Covered, Complete
  <2>3. QED
    BY <2>1, <2>2
<1>6. ASSUME NEW i \in Jobs, NEW s \in Statuses, StatusChange(i, s)
      PROVE  Covered(j)' /\ Complete(j)'
  <2>1. CASE j # i
    BY <1>0, <1>2, <1>6, <2>1 DEF StatusChange
  <2>2. CASE j = i
    <3>1. /\ Exists(j) /\ jobs'[j].status = s
          /\ jobs'[j].chat = jobs[j].chat /\ jobs'[j].from = jobs[j].from
          /\ jobs'[j].to = jobs[j].to /\ jobs'[j].before = jobs[j].before
          /\ UNCHANGED <<history, messages>>
      BY <1>0, <1>6, <2>2 DEF StatusChange, Exists, Open, Rows
    <3>2. Covered(j)'
      BY <1>1, <3>1, RowKept
    <3>3. ASSUME s = "completed" PROVE Remaining(jobs[j]) = {}
      BY <1>6, <2>2, <3>3 DEF StatusChange, BatchInv
    <3>4. ASSUME s = "completed", NEW m \in history[jobs[j].chat], InPeriod(jobs[j], m)
          PROVE  m \in messages[jobs[j].chat]
      <4>1. ~(m < jobs[j].before)
        BY <3>3, <3>4 DEF Remaining
      <4>2. m \in Nat /\ jobs[j].before \in Nat
        BY <1>0, <3>4, BackfillAssumption DEF Rows
      <4>3. QED
        BY <1>1, <3>1, <3>4, <4>1, <4>2 DEF Covered
    <3>5. Complete(j)'
      BY <3>1, <3>4 DEF Complete, InPeriod
    <3>6. QED
      BY <3>2, <3>5
  <2>3. QED
    BY <2>1, <2>2
<1>7. CASE Quiet \/ ReadBatch
  BY <1>2, <1>7 DEF Quiet, ReadBatch, telegramVars
<1>8. CASE CommitBatch
  BY <1>0, <1>2, <1>8 DEF CommitBatch, telegramVars, Rows, InTransaction
<1>9. CASE RecordProgress
  <2>1. PICK low \in batch :
          /\ low \in Nat /\ \A k \in batch : low <= k
          /\ jobs' = [jobs EXCEPT ![claimed] = Progress(jobs[claimed], batch, low)]
          /\ claimed \in Jobs /\ pc = "saved" /\ UNCHANGED <<history, latest, messages>>
    BY <1>9, ProgressStep
  <2>2. CASE j # claimed
    BY <1>0, <1>2, <2>1, <2>2
  <2>3. CASE j = claimed
    <3>1. /\ jobs'[j].status = "running" /\ jobs'[j].chat = jobs[j].chat
          /\ jobs'[j].from = jobs[j].from /\ jobs'[j].to = jobs[j].to
          /\ jobs'[j].before = low
      BY <1>0, <2>1, <2>3, ProgressFields
    <3>2. Exists(j)
      BY <2>1, <2>3 DEF LockInv, Busy, InTransaction, Open, Exists
    <3>3. ASSUME NEW m \in history[jobs[j].chat], InPeriod(jobs[j], m), m >= low
          PROVE  m \in messages[jobs[j].chat]
      <4>1. m \in Nat /\ jobs[j].before \in Nat
        BY <1>0, <3>3, BackfillAssumption DEF Rows
      <4>2. CASE m >= jobs[j].before
        BY <1>1, <3>2, <3>3, <4>2 DEF Covered
      <4>3. CASE m < jobs[j].before
        <5>1. m \in Remaining(jobs[j])
          BY <3>3, <4>3 DEF Remaining
        <5>2. m \in batch
          BY <2>1, <2>3, <3>3, <4>1, <5>1 DEF BatchInv
        <5>3. QED
          BY <2>1, <2>3, <5>2 DEF BatchInv
      <4>4. QED
        BY <4>1, <4>2, <4>3
    <3>4. QED
      BY <2>1, <3>1, <3>3 DEF Covered, Complete, InPeriod
  <2>4. QED
    BY <2>2, <2>3
<1>10. QED
  BY <1>3, <1>4, <1>5, <1>6, <1>7, <1>8, <1>9 DEF StepKind

-----------------------------------------------------------------------------
(* The inductive invariant: the lock and the batch facts are what ties the *)
(* two transactions together, the period fact is what keeps new messages   *)
(* out of old periods.                                                     *)
LEMMA IInvInit == Init => IInv
<1> SUFFICES ASSUME Init PROVE IInv
  OBVIOUS
<1>1. TypeOK
  BY TypeInit
<1>2. \A j \in Jobs : jobs[j].status = "absent"
  BY DEF Init, NoRow
<1>3. LockInv /\ BatchInv
  BY DEF Init, LockInv, BatchInv, Busy, InTransaction
<1>4. PeriodInv /\ CoveredAboveCursor /\ CompletedMeansSaved
  BY <1>2 DEF Init, PeriodInv, CoveredAboveCursor, CompletedMeansSaved, Exists
<1>5. QED
  BY <1>1, <1>3, <1>4 DEF IInv

LEMMA IInvStep == IInv /\ [Next]_vars => IInv'
BY TypeStep, LockStep, StepKinds, PeriodStep, BatchStep, ArchiveStep DEF IInv

LEMMA IInvAlways == Spec => []IInv
BY IInvInit, IInvStep, PTL DEF Spec

(* The cursor of a backfill job never runs ahead of what is archived, for  *)
(* any number of jobs, chats and crashes.                                  *)
THEOREM CursorCovered == Spec => []CoveredAboveCursor
<1>1. IInv => CoveredAboveCursor
  BY DEF IInv
<1>2. QED
  BY <1>1, IInvAlways, PTL

(* A job shown as completed has its whole period archived.                 *)
THEOREM CompletedSaved == Spec => []CompletedMeansSaved
<1>1. IInv => CompletedMeansSaved
  BY DEF IInv
<1>2. QED
  BY <1>1, IInvAlways, PTL

(* What the row of a job keeps: chat and period from its creation on.      *)
LEMMA PeriodKept ==
  ASSUME TypeOK, LockInv, StepKind, NEW j \in Jobs, Exists(j)
  PROVE  /\ Exists(j)' /\ jobs'[j].chat = jobs[j].chat
         /\ jobs'[j].from = jobs[j].from /\ jobs'[j].to = jobs[j].to
<1>0. /\ jobs \in [Jobs -> Rows]
      /\ pc \in InTransaction => claimed \in Jobs
  BY DEF TypeOK
<1>1. CASE RecordProgress
  <2>1. PICK low \in batch :
          /\ jobs' = [jobs EXCEPT ![claimed] = Progress(jobs[claimed], batch, low)]
          /\ claimed \in Jobs
    BY <1>1, ProgressStep
  <2>2. QED
    BY <1>0, <2>1, ProgressFields DEF Exists
<1>2. ASSUME NEW i \in Jobs, NEW s \in Statuses, StatusChange(i, s)
      PROVE  /\ Exists(j)' /\ jobs'[j].chat = jobs[j].chat
             /\ jobs'[j].from = jobs[j].from /\ jobs'[j].to = jobs[j].to
  BY <1>0, <1>2 DEF StatusChange, Exists, Rows
<1>3. QED
  BY <1>0, <1>1, <1>2
  DEF StepKind, Quiet, NewMessage, DeleteMessage, CreateJob, ReadBatch, CommitBatch, Exists

(* The messages table holds nothing but messages of requested periods.     *)
THEOREM OnlyRequested == Spec => []OnlyRequestedPeriods
<1>1. Init => OnlyRequestedPeriods
  BY DEF Init, OnlyRequestedPeriods
<1>2. IInv /\ OnlyRequestedPeriods /\ [Next]_vars => OnlyRequestedPeriods'
  <2> SUFFICES ASSUME IInv, OnlyRequestedPeriods, StepKind,
                      NEW c \in Chats, NEW m \in messages'[c]
               PROVE  \E j \in Jobs : /\ Exists(j)' /\ jobs'[j].chat = c
                                      /\ InPeriod(jobs'[j], m)
    BY StepKinds DEF IInv, OnlyRequestedPeriods
  <2>0. /\ jobs \in [Jobs -> Rows] /\ messages \in [Chats -> SUBSET (1 .. MaxMessages)]
        /\ pc \in InTransaction => claimed \in Jobs
        /\ TypeOK /\ LockInv /\ BatchInv
    BY DEF IInv, TypeOK
  <2>1. \E j \in Jobs : Exists(j) /\ jobs[j].chat = c /\ InPeriod(jobs[j], m)
    <3>1. CASE m \in messages[c]
      BY <3>1 DEF OnlyRequestedPeriods
    <3>2. CASE m \notin messages[c]
      <4>1. CommitBatch
        BY <3>2, ProgressStep DEF IInv, StepKind, Quiet, NewMessage, DeleteMessage,
                                  CreateJob, StatusChange, ReadBatch
      <4>2. claimed \in Jobs /\ jobs[claimed].chat = c /\ m \in batch
        BY <2>0, <3>2, <4>1 DEF CommitBatch, InTransaction
      <4>3. Exists(claimed) /\ InPeriod(jobs[claimed], m)
        BY <2>0, <4>1, <4>2 DEF CommitBatch, LockInv, BatchInv, Busy, InTransaction, Open, Exists
      <4>4. QED
        BY <4>2, <4>3
    <3>3. QED
      BY <3>1, <3>2
  <2>2. PICK j \in Jobs : Exists(j) /\ jobs[j].chat = c /\ InPeriod(jobs[j], m)
    BY <2>1
  <2>3. QED
    BY <2>0, <2>2, PeriodKept DEF InPeriod
<1>3. QED
  BY <1>1, <1>2, IInvAlways, PTL DEF Spec

(* The rows saved_count may count: those of the period from the cursor up. *)
Counted(j) ==
  {m \in messages[jobs[j].chat] : InPeriod(jobs[j], m) /\ m >= jobs[j].before}

LEMMA CountedFinite == ASSUME TypeOK, NEW j \in Jobs
                       PROVE  IsFiniteSet(Counted(j)) /\ Cardinality(Counted(j)) \in Nat
<1>1. Counted(j) \subseteq 1 .. MaxMessages
  BY DEF Counted, TypeOK, Rows
<1>2. QED
  BY <1>1, BatchFinite

(* Nothing but recorded progress touches the count, and the rows it counts *)
(* only become more.                                                       *)
LEMMA CountKept ==
  ASSUME TypeOK, TypeOK', NEW j \in Jobs, Exists(j), jobs[j].saved <= Cardinality(Counted(j)),
         jobs'[j].chat = jobs[j].chat, jobs'[j].from = jobs[j].from,
         jobs'[j].to = jobs[j].to, jobs'[j].before = jobs[j].before,
         jobs'[j].saved = jobs[j].saved,
         messages[jobs[j].chat] \subseteq messages'[jobs[j].chat]
  PROVE  (jobs[j].saved <= Cardinality(Counted(j)))'
<1>1. Counted(j) \subseteq Counted(j)'
  BY DEF Counted, InPeriod
<1>2. IsFiniteSet(Counted(j)') /\ Cardinality(Counted(j)') \in Nat
  <2>1. Counted(j)' \subseteq 1 .. MaxMessages
    BY DEF Counted, TypeOK, Rows
  <2>2. QED
    BY <2>1, BatchFinite
<1>3. Cardinality(Counted(j)) <= Cardinality(Counted(j)') /\ Cardinality(Counted(j)) \in Nat
  BY <1>1, <1>2, CountedFinite, FS_Subset
<1>4. jobs[j].saved \in Nat
  BY DEF TypeOK, Rows
<1>5. QED
  BY <1>2, <1>3, <1>4

(* saved_count is never more than the archive holds of what has been read. *)
THEOREM CountCorrect == Spec => []CountNeverAhead
<1> DEFINE Fits(j) == Exists(j) => jobs[j].saved <= Cardinality(Counted(j))
<1>1. Init => CountNeverAhead
  BY DEF Init, CountNeverAhead, NoRow, Exists
<1>2. IInv /\ CountNeverAhead /\ [Next]_vars => CountNeverAhead'
  <2> SUFFICES ASSUME IInv, TypeOK', CountNeverAhead, StepKind, NEW j \in Jobs
               PROVE  Fits(j)'
    BY StepKinds, TypeStep DEF IInv, CountNeverAhead, Counted
  <2>0. /\ jobs \in [Jobs -> Rows] /\ messages \in [Chats -> SUBSET (1 .. MaxMessages)]
        /\ pc \in InTransaction => claimed \in Jobs
        /\ TypeOK /\ LockInv /\ BatchInv
    BY DEF IInv, TypeOK
  <2>1. Fits(j)
    BY DEF CountNeverAhead, Counted
  <2>2. ASSUME jobs'[j] = jobs[j],
               messages[jobs[j].chat] \subseteq messages'[jobs[j].chat]
        PROVE  Fits(j)'
    BY <2>0, <2>1, <2>2, CountKept DEF Exists
  <2>3. ASSUME NEW i \in Jobs, NEW c \in Chats, NEW f \in 1 .. latest[c] + 1,
               CreateJob(i, c, f)
        PROVE  Fits(j)'
    <3>1. CASE j # i
      BY <2>0, <2>2, <2>3, <3>1 DEF CreateJob
    <3>2. CASE j = i
      <4>1. jobs'[j].saved = 0
        BY <2>0, <2>3, <3>2 DEF CreateJob
      <4>2. Cardinality(Counted(j)') \in Nat
        <5>1. Counted(j)' \subseteq 1 .. MaxMessages
          BY DEF Counted, TypeOK, Rows
        <5>2. QED
          BY <5>1, BatchFinite
      <4>3. QED
        BY <4>1, <4>2
    <3>3. QED
      BY <3>1, <3>2
  <2>4. ASSUME NEW i \in Jobs, NEW s \in Statuses, StatusChange(i, s) PROVE Fits(j)'
    <3>1. CASE j # i
      BY <2>0, <2>2, <2>4, <3>1 DEF StatusChange
    <3>2. CASE j = i
      BY <2>0, <2>1, <2>4, <3>2, CountKept DEF StatusChange, Exists, Open, Rows
    <3>3. QED
      BY <3>1, <3>2
  <2>5. CASE RecordProgress
    <3>1. PICK low \in batch :
            /\ low \in Nat /\ \A k \in batch : low <= k
            /\ jobs' = [jobs EXCEPT ![claimed] = Progress(jobs[claimed], batch, low)]
            /\ claimed \in Jobs /\ pc = "saved" /\ UNCHANGED <<history, latest, messages>>
      BY <2>0, <2>5, ProgressStep
    <3>2. CASE j # claimed
      BY <2>0, <2>2, <3>1, <3>2
    <3>3. CASE j = claimed
      <4>1. /\ jobs'[j].chat = jobs[j].chat /\ jobs'[j].before = low
            /\ jobs'[j].from = jobs[j].from /\ jobs'[j].to = jobs[j].to
            /\ jobs'[j].saved = jobs[j].saved + Cardinality(batch)
        BY <2>0, <3>1, <3>3, ProgressFields
      <4>2. /\ \A m \in batch : InPeriod(jobs[j], m) /\ m < jobs[j].before
            /\ batch \subseteq messages[jobs[j].chat]
        BY <2>0, <3>1, <3>3 DEF BatchInv
      <4>3. /\ jobs[j].saved \in Nat /\ jobs[j].before \in Nat /\ jobs[j].chat \in Chats
            /\ messages[jobs[j].chat] \subseteq 1 .. MaxMessages
            /\ batch \subseteq 1 .. MaxMessages
        BY <2>0 DEF TypeOK, Rows
      <4>4. Counted(j) \cap batch = {}
        BY <4>2, <4>3, BackfillAssumption DEF Counted
      <4>5. Counted(j) \cup batch \subseteq Counted(j)'
        <5>1. ASSUME NEW m \in Counted(j) PROVE m \in Counted(j)'
          <6>1. low < jobs[j].before /\ m >= jobs[j].before /\ m \in Nat
            BY <4>2, <4>3, <5>1, BackfillAssumption DEF Counted
          <6>2. m >= low
            BY <3>1, <4>3, <6>1
          <6>3. QED
            BY <3>1, <4>1, <5>1, <6>2 DEF Counted, InPeriod
        <5>2. ASSUME NEW m \in batch PROVE m \in Counted(j)'
          <6>1. m >= low
            BY <3>1, <4>3, <5>2, BackfillAssumption
          <6>2. QED
            BY <3>1, <4>1, <4>2, <5>2, <6>1 DEF Counted, InPeriod
        <5>3. QED
          BY <5>1, <5>2
      <4>6. IsFiniteSet(Counted(j)')
        <5>1. Counted(j)' \subseteq 1 .. MaxMessages
          BY DEF Counted, TypeOK, Rows
        <5>2. QED
          BY <5>1, BatchFinite
      <4>7. /\ IsFiniteSet(batch) /\ Cardinality(batch) \in Nat
            /\ IsFiniteSet(Counted(j)) /\ Cardinality(Counted(j)) \in Nat
        BY <2>0, <4>3, BatchFinite, CountedFinite
      <4>8. Cardinality(Counted(j) \cup batch) = Cardinality(Counted(j)) + Cardinality(batch)
        <5>1. Cardinality(Counted(j) \cap batch) = 0
          BY <4>4, FS_EmptySet
        <5>2. Cardinality(Counted(j) \cup batch)
                = Cardinality(Counted(j)) + Cardinality(batch) - Cardinality(Counted(j) \cap batch)
          BY <4>7, FS_Union, Zenon
        <5>3. QED
          BY <4>7, <5>1, <5>2
      <4>9. /\ Cardinality(Counted(j) \cup batch) <= Cardinality(Counted(j)')
            /\ Cardinality(Counted(j)') \in Nat
        BY <4>5, <4>6, FS_Subset, FS_CardinalityType
      <4>10. Exists(j)
        BY <2>0, <3>1, <3>3 DEF LockInv, Busy, InTransaction, Open, Exists
      <4>11. QED
        BY <2>1, <4>1, <4>3, <4>7, <4>8, <4>9, <4>10
    <3>4. QED
      BY <3>2, <3>3
  <2>6. CASE CommitBatch
    BY <2>0, <2>2, <2>6 DEF CommitBatch, Rows, InTransaction
  <2>7. QED
    BY <2>2, <2>3, <2>4, <2>5, <2>6
    DEF StepKind, Quiet, NewMessage, DeleteMessage, ReadBatch, telegramVars
<1>3. QED
  BY <1>1, <1>2, IInvAlways, PTL DEF Spec

(* A committed cancel is never overwritten.                                *)
THEOREM CancelKept == Spec => CancelIsNeverLost
<1> DEFINE A == \A j \in Jobs : jobs[j].status = "cancel_requested" =>
                  jobs'[j] \in {jobs[j], [jobs[j] EXCEPT !.status = "cancelled"]}
<1>1. IInv /\ [Next]_vars => [A]_vars
  <2> SUFFICES ASSUME IInv, StepKind, NEW j \in Jobs, jobs[j].status = "cancel_requested"
               PROVE  jobs'[j] \in {jobs[j], [jobs[j] EXCEPT !.status = "cancelled"]}
    BY StepKinds DEF IInv
  <2>0. /\ jobs \in [Jobs -> Rows] /\ LockInv
        /\ pc \in InTransaction => claimed \in Jobs
    BY DEF IInv, TypeOK
  <2>1. CASE RecordProgress
    BY <2>0, <2>1, ProgressStep DEF IInv, LockInv, Busy, Open, InTransaction
  <2>2. CASE \E i \in Jobs, s \in Statuses : StatusChange(i, s)
    BY <2>0, <2>2 DEF StatusChange, Open
  <2>3. QED
    BY <2>0, <2>1, <2>2
    DEF StepKind, Quiet, NewMessage, DeleteMessage, CreateJob, ReadBatch, CommitBatch
<1>2. QED
  BY <1>1, IInvAlways, PTL DEF Spec, CancelIsNeverLost

(* A completed, cancelled or failed job never changes again.               *)
THEOREM FinishedKept == Spec => FinishedIsFinal
<1> DEFINE A == \A j \in Jobs : jobs[j].status \in TerminalStatuses => jobs'[j] = jobs[j]
<1>1. IInv /\ [Next]_vars => [A]_vars
  <2> SUFFICES ASSUME IInv, StepKind, NEW j \in Jobs, jobs[j].status \in TerminalStatuses
               PROVE  jobs'[j] = jobs[j]
    BY StepKinds DEF IInv
  <2>0. /\ jobs \in [Jobs -> Rows] /\ LockInv
        /\ pc \in InTransaction => claimed \in Jobs
    BY DEF IInv, TypeOK
  <2>1. CASE RecordProgress
    BY <2>0, <2>1, ProgressStep DEF IInv, LockInv, Busy, Open, InTransaction, TerminalStatuses
  <2>2. CASE \E i \in Jobs, s \in Statuses : StatusChange(i, s)
    BY <2>0, <2>2 DEF StatusChange, Open, TerminalStatuses
  <2>3. QED
    BY <2>0, <2>1, <2>2
    DEF StepKind, Quiet, NewMessage, DeleteMessage, CreateJob, ReadBatch, CommitBatch, TerminalStatuses
<1>2. QED
  BY <1>1, IInvAlways, PTL DEF Spec, FinishedIsFinal

(* Nothing is stored for a job that is cancelled or asked to be.           *)
THEOREM NothingSavedLate == Spec => NothingSavedAfterCancel
<1> DEFINE A == messages' # messages =>
                  claimed # Nobody /\ jobs[claimed].status \in {"pending", "running"}
<1>1. IInv /\ [Next]_vars => [A]_vars
  <2> SUFFICES ASSUME IInv, StepKind, messages' # messages
               PROVE  claimed # Nobody /\ jobs[claimed].status \in {"pending", "running"}
    BY StepKinds DEF IInv
  <2>1. CommitBatch
    BY ProgressStep DEF IInv, StepKind, Quiet, NewMessage, DeleteMessage, CreateJob,
                        StatusChange, ReadBatch
  <2>2. QED
    BY <2>1 DEF CommitBatch, IInv, LockInv, TypeOK, Busy, Open, InTransaction
<1>2. QED
  BY <1>1, IInvAlways, PTL DEF Spec, NothingSavedAfterCancel

-----------------------------------------------------------------------------
(* Progress.                                                               *)

(* A batch is no larger than the stretch of ids it takes the cursor over.  *)
LEMMA BatchFits ==
  ASSUME NEW a \in Nat, NEW b \in Nat, NEW S, S \subseteq a .. (b - 1), NEW m \in S
  PROVE  IsFiniteSet(S) /\ Cardinality(S) \in Nat \ {0} /\ a + Cardinality(S) <= b
<1>1. m \in Nat /\ a <= m /\ m <= b - 1
  OBVIOUS
<1>2. IsFiniteSet(a .. (b - 1)) /\ Cardinality(a .. (b - 1)) = b - a
  BY <1>1, FS_Interval
<1>3. IsFiniteSet(S) /\ Cardinality(S) <= Cardinality(a .. (b - 1))
  BY <1>2, FS_Subset
<1>4. Cardinality(S) \in Nat /\ Cardinality(S) # 0
  BY <1>3, FS_CardinalityType, FS_EmptySet
<1>5. QED
  BY <1>2, <1>3, <1>4

(* No batch is larger than backfill_batch_size.                            *)
SizeInv == pc \in {"read", "saved"} => Cardinality(batch) <= BatchSize

LEMMA SizeHolds == Spec => []SizeInv
<1>1. Init => SizeInv
  BY DEF Init, SizeInv
<1>2. IInv /\ SizeInv /\ [Next]_vars => SizeInv'
  <2> SUFFICES ASSUME SizeInv, StepKind PROVE SizeInv'
    BY StepKinds DEF IInv
  <2>1. CASE ReadBatch
    BY <2>1 DEF ReadBatch, NewestFirst, SizeInv
  <2>2. CASE CommitBatch
    BY <2>2 DEF CommitBatch, SizeInv
  <2>3. CASE RecordProgress
    BY <2>3 DEF RecordProgress, EndRun, SizeInv
  <2>4. ASSUME pc' \in {"idle", "claimed", "stopped", "down"} \/ UNCHANGED <<pc, batch>> PROVE SizeInv'
    BY <2>4 DEF SizeInv
  <2>5. QED
    BY <2>1, <2>2, <2>3, <2>4
       DEF StepKind, StatusChange, Quiet, NewMessage, DeleteMessage, CreateJob, listenerVars
<1>3. QED
  BY <1>1, <1>2, IInvAlways, PTL DEF Spec

(* record_progress brings a job nearer to its end by what it counts: the   *)
(* variant on which EveryJobEnds rests.                                    *)
THEOREM BatchesCount == Spec => EveryBatchCounts
<1> DEFINE A == \A j \in Jobs :
      Exists(j) /\ (jobs'[j].before # jobs[j].before \/ jobs'[j].saved # jobs[j].saved) =>
        /\ jobs'[j].saved - jobs[j].saved \in 1 .. BatchSize
        /\ jobs'[j].before + (jobs'[j].saved - jobs[j].saved) <= jobs[j].before
<1>1. IInv /\ SizeInv /\ [Next]_vars => [A]_vars
  <2> SUFFICES ASSUME IInv, SizeInv, StepKind, NEW j \in Jobs, Exists(j),
                      jobs'[j].before # jobs[j].before \/ jobs'[j].saved # jobs[j].saved
               PROVE  /\ jobs'[j].saved - jobs[j].saved \in 1 .. BatchSize
                      /\ jobs'[j].before + (jobs'[j].saved - jobs[j].saved) <= jobs[j].before
    BY StepKinds DEF IInv
  <2>0. /\ jobs \in [Jobs -> Rows] /\ jobs[j].saved \in Nat /\ jobs[j].before \in Nat
        /\ TypeOK /\ LockInv /\ BatchInv
    BY DEF IInv, TypeOK, Rows
  <2>1. ~\E i \in Jobs, s \in Statuses : StatusChange(i, s)
    BY <2>0 DEF StatusChange, Rows
  <2>2. ~\E i \in Jobs, c \in Chats : \E f \in 1 .. latest[c] + 1 : CreateJob(i, c, f)
    BY <2>0 DEF CreateJob, Exists
  <2>3. RecordProgress
    BY <2>1, <2>2 DEF StepKind, Quiet, NewMessage, DeleteMessage, ReadBatch, CommitBatch
  <2>4. PICK low \in batch :
          /\ low \in Nat /\ \A k \in batch : low <= k
          /\ jobs' = [jobs EXCEPT ![claimed] = Progress(jobs[claimed], batch, low)]
          /\ claimed \in Jobs /\ pc = "saved"
    BY <2>0, <2>3, ProgressStep
  <2>5. j = claimed
    BY <2>0, <2>4
  <2>6. jobs'[j].before = low /\ jobs'[j].saved = jobs[j].saved + Cardinality(batch)
    BY <2>0, <2>4, <2>5, ProgressFields
  <2>7. batch \subseteq Nat /\ \A m \in batch : m < jobs[j].before
    BY <2>0, <2>4, <2>5, BackfillAssumption DEF BatchInv, TypeOK
  <2>8. batch \subseteq low .. (jobs[j].before - 1)
    BY <2>0, <2>4, <2>7
  <2>9. Cardinality(batch) \in Nat \ {0} /\ low + Cardinality(batch) <= jobs[j].before
    BY <2>0, <2>4, <2>8, BatchFits
  <2>10. Cardinality(batch) <= BatchSize
    BY <2>4 DEF SizeInv
  <2>11. QED
    BY <2>0, <2>4, <2>6, <2>9, <2>10, BackfillAssumption
<1>2. QED
  BY <1>1, IInvAlways, SizeHolds, PTL DEF Spec, EveryBatchCounts

(* Job numbers have no gaps, so no job comes before the one being worked   *)
(* on after it was claimed.                                                *)
NumberedInv == \A i, j \in Jobs : i < j /\ Exists(j) => Exists(i)

LEMMA NumberedStep == IInv /\ NumberedInv /\ [Next]_vars => NumberedInv'
<1> SUFFICES ASSUME IInv, NumberedInv, StepKind PROVE NumberedInv'
  BY StepKinds DEF IInv
<1>0. jobs \in [Jobs -> Rows] /\ TypeOK /\ LockInv
  BY DEF IInv, TypeOK
<1>1. ASSUME \A j \in Jobs : Exists(j) <=> Exists(j)' PROVE NumberedInv'
  BY <1>1 DEF NumberedInv
<1>2. ASSUME NEW j \in Jobs, NEW c \in Chats, NEW f \in 1 .. latest[c] + 1, CreateJob(j, c, f)
      PROVE  NumberedInv'
  <2>1. /\ Exists(j)' /\ \A i \in Jobs : i < j => Exists(i)
        /\ \A i \in Jobs \ {j} : Exists(i)' <=> Exists(i)
        /\ ~Exists(j)
    BY <1>0, <1>2 DEF CreateJob, Exists
  <2>2. Jobs \subseteq Nat
    BY BackfillAssumption DEF Jobs
  <2>3. QED
    BY <2>1, <2>2 DEF NumberedInv
<1>3. ASSUME NEW j \in Jobs, NEW s \in Statuses, StatusChange(j, s) PROVE NumberedInv'
  <2>1. \A i \in Jobs : Exists(i) <=> Exists(i)'
    BY <1>0, <1>3 DEF StatusChange, Exists, Open, Rows
  <2>2. QED
    BY <1>1, <2>1
<1>4. CASE RecordProgress
  <2>1. /\ claimed \in Jobs /\ Exists(claimed) /\ jobs'[claimed].status = "running"
        /\ \A i \in Jobs \ {claimed} : jobs'[i] = jobs[i]
    BY <1>0, <1>4, ProgressStep, ProgressFields DEF LockInv, Busy, InTransaction, Open, Exists
  <2>2. \A i \in Jobs : Exists(i) <=> Exists(i)'
    BY <2>1 DEF Exists
  <2>3. QED
    BY <1>1, <2>2
<1>5. CASE UNCHANGED jobs
  BY <1>1, <1>5 DEF Exists
<1>6. QED
  BY <1>2, <1>3, <1>4, <1>5 DEF StepKind, Quiet, NewMessage, DeleteMessage, ReadBatch, CommitBatch

LEMMA OrderStep == IInv /\ NumberedInv /\ ServedInOrder /\ [Next]_vars => ServedInOrder'
<1> SUFFICES ASSUME IInv, NumberedInv, ServedInOrder, [Next]_vars PROVE ServedInOrder'
  OBVIOUS
<1>0. /\ jobs \in [Jobs -> Rows] /\ TypeOK /\ LockInv /\ Jobs \subseteq Nat \ {0} /\ Nobody \notin Jobs
      /\ crashes \in Nat /\ botJob \in Jobs \cup {Nobody} /\ claimed \in Jobs \cup {Nobody}
  BY BackfillAssumption DEF IInv, TypeOK, Jobs, Nobody
<1>1. ASSUME claimed' = Nobody PROVE ServedInOrder'
  <2>1. \A j \in Jobs : ~(j < claimed')
    BY <1>0, <1>1 DEF Nobody
  <2>2. \A j \in Overtaken' : FALSE
    BY <2>1 DEF Overtaken
  <2>3. QED
    BY <2>2 DEF ServedInOrder
<1>2. ASSUME UNCHANGED <<jobs, claimed, crashes>>, botJob = Nobody \/ botJob' = botJob PROVE ServedInOrder'
  <2>1. Overtaken' = Overtaken /\ Overtaken \subseteq Jobs
    BY <1>2 DEF Overtaken
  <2>2. QED
    BY <1>0, <1>2, <2>1 DEF ServedInOrder
<1>3. ASSUME NEW j \in Jobs, ClaimJob(j) PROVE ServedInOrder'
  <2>1. /\ pc = "idle" /\ claimed' = j /\ UNCHANGED <<jobs, botJob, crashes>>
        /\ \A i \in Jobs : i < j => ~Claimable(i)
    BY <1>3 DEF ClaimJob, NextJob, faultVars
  <2>2. \A i \in Jobs : i < j /\ jobs[i].status \in ActiveStatuses => botJob = i
    BY <2>1 DEF Claimable, Unlocked, InTransaction
  <2>3. \A i \in Overtaken' : botJob' = i
    BY <2>1, <2>2 DEF Overtaken
  <2>4. QED
    BY <2>3 DEF ServedInOrder
<1>4. ASSUME NEW j \in Jobs, NEW c \in Chats, NEW f \in 1 .. latest[c] + 1, CreateJob(j, c, f)
      PROVE  ServedInOrder'
  <2>1. /\ UNCHANGED <<claimed, botJob, crashes>> /\ ~Exists(j)
        /\ \A i \in Jobs \ {j} : jobs'[i] = jobs[i]
    BY <1>0, <1>4 DEF CreateJob, listenerVars, faultVars, Exists
  <2>2. CASE claimed = Nobody
    BY <1>1, <2>1, <2>2
  <2>3. CASE claimed \in Jobs
    <3>1. Exists(claimed)
      BY <1>0, <2>3 DEF LockInv, Busy, Open, Exists, TypeOK
    <3>2. ~(j < claimed)
      BY <2>1, <2>3, <3>1 DEF NumberedInv
    <3>3. Overtaken' = Overtaken
      BY <2>1, <3>2 DEF Overtaken
    <3>4. \A i \in Overtaken : jobs'[i] = jobs[i]
      BY <2>1, <3>2 DEF Overtaken
    <3>5. QED
      BY <2>1, <3>3, <3>4 DEF ServedInOrder
  <2>4. QED
    BY <1>0, <2>2, <2>3
<1>5. ASSUME NEW j \in Jobs, RequestCancel(j) PROVE ServedInOrder'
  BY <1>2, <1>5 DEF RequestCancel, listenerVars, faultVars
<1>6. CASE CommitCancel
  <2>1. botJob \in Jobs /\ UNCHANGED <<claimed, crashes>>
    BY <1>0, <1>6 DEF CommitCancel, listenerVars, faultVars
  <2>2. /\ jobs'[botJob].status = "cancel_requested"
        /\ \A i \in Jobs \ {botJob} : jobs'[i] = jobs[i]
    BY <1>0, <1>6, <2>1 DEF CommitCancel, Rows
  <2>3. jobs[botJob].status \in ActiveStatuses
    BY <1>0, <2>1 DEF LockInv, Open, ActiveStatuses
  <2>4. Overtaken' = Overtaken
    BY <2>1, <2>2, <2>3 DEF Overtaken, ActiveStatuses
  <2>5. QED
    BY <2>1, <2>2, <2>4 DEF ServedInOrder, Overtaken
<1>7. CASE BotCrash
  <2>1. crashes' = crashes + 1 /\ UNCHANGED <<jobs, claimed>>
    BY <1>7 DEF BotCrash, listenerVars
  <2>2. crashes' # 0 /\ Overtaken' = Overtaken
    BY <1>0, <2>1 DEF Overtaken
  <2>3. QED
    BY <2>2 DEF ServedInOrder
<1>8. ASSUME NEW j \in Jobs, CancelJob(j) PROVE ServedInOrder'
  BY <1>1, <1>8 DEF CancelJob, EndRun
<1>9. CASE FailBatch \/ CompleteJob \/ RecordProgress
  BY <1>1, <1>9 DEF FailBatch, CompleteJob, RecordProgress, EndRun
<1>10. CASE EnterLoop \/ ReadBatch \/ CommitBatch \/ Restart
  BY <1>2, <1>10 DEF EnterLoop, ReadBatch, CommitBatch, Restart, faultVars
<1>11. CASE Crash \/ DbError
  BY <1>1, <1>11 DEF Crash, DbError, LeaveRun
<1>12. CASE Telegram
  BY <1>2, <1>12 DEF Telegram, NewMessage, DeleteMessage, listenerVars, faultVars
<1>13. CASE UNCHANGED vars
  BY <1>2, <1>13 DEF vars, listenerVars, faultVars
<1>14. QED
  BY <1>3, <1>4, <1>5, <1>6, <1>7, <1>8, <1>9, <1>10, <1>11, <1>12, <1>13 DEF Next, Bot, Listener

(* claim_next_job serves jobs in the order they were created, and passes   *)
(* over one at most, which the bot was cancelling, through crashes of both *)
(* processes.                                                              *)
THEOREM InOrder == Spec => []ServedInOrder
<1>1. Init => NumberedInv /\ ServedInOrder
  <2> SUFFICES ASSUME Init PROVE NumberedInv /\ ServedInOrder
    OBVIOUS
  <2>1. \A j \in Jobs : jobs[j].status = "absent"
    BY DEF Init, NoRow
  <2>2. Overtaken = {}
    BY <2>1 DEF Overtaken, ActiveStatuses
  <2>3. QED
    BY <2>1, <2>2 DEF NumberedInv, ServedInOrder, Exists
<1>2. QED
  BY <1>1, NumberedStep, OrderStep, IInvAlways, PTL DEF Spec

-----------------------------------------------------------------------------
(* The archive of this module is the one ArchivePromise describes.         *)

LEMMA StoresSome ==
  ASSUME NEW c \in Chats, NEW S \in SUBSET (1 .. latest[c]),
         messages' = [messages EXCEPT ![c] = @ \cup S], latest' = latest
  PROVE  Shared!Store(c)
<1> DEFINE f == [d \in Chats |-> 0]
<1>1. f = [f EXCEPT ![c] = 0] /\ f[c] = 0
  OBVIOUS
<1> HIDE DEF f
<1>2. \E n \in {f[c]} \cup messages'[c] : n >= f[c] /\ f = [f EXCEPT ![c] = n]
  BY <1>1
<1> USE DEF f
<1>3. QED
  BY <1>2 DEF Shared!Store

LEMMA StepIsShared == IInv /\ [Next]_vars => [Shared!Next]_(Shared!archiveVars)
<1> SUFFICES ASSUME IInv, StepKind PROVE Shared!Next \/ UNCHANGED Shared!archiveVars
  BY StepKinds DEF IInv
<1>0. TypeOK /\ LockInv /\ BatchInv /\ PeriodInv
  BY DEF IInv
<1>1. ASSUME NEW c \in Chats, NewMessage(c) PROVE Shared!Next
  BY <1>1 DEF NewMessage, Shared!Next, Shared!Arrive
<1>2. CASE CommitBatch
  <2>1. claimed \in Jobs /\ pc = "read" /\ Exists(claimed)
    BY <1>0, <1>2 DEF CommitBatch, TypeOK, InTransaction, LockInv, Busy, Open, Exists
  <2>2. PICK c \in Chats : c = jobs[claimed].chat
    BY <1>0, <2>1 DEF TypeOK, Rows
  <2>3. /\ batch \subseteq 1 .. MaxMessages /\ latest[c] \in Nat /\ jobs[claimed].to \in Nat
        /\ \A m \in batch : m <= jobs[claimed].to
        /\ jobs[claimed].to <= latest[c]
    BY <1>0, <2>1, <2>2, BackfillAssumption DEF TypeOK, Rows, BatchInv, InPeriod, PeriodInv
  <2>4. batch \in SUBSET (1 .. latest[c])
    BY <2>3, BackfillAssumption
  <2>5. messages' = [messages EXCEPT ![c] = @ \cup batch] /\ latest' = latest
    BY <1>2, <2>2 DEF CommitBatch, telegramVars
  <2>6. QED
    BY <2>4, <2>5, StoresSome DEF Shared!Next
<1>3. ASSUME UNCHANGED <<latest, messages>> PROVE UNCHANGED Shared!archiveVars
  BY <1>3 DEF Shared!archiveVars
<1>4. CASE RecordProgress
  BY <1>3, <1>4 DEF RecordProgress, telegramVars
<1>5. QED
  BY <1>1, <1>2, <1>3, <1>4
     DEF StepKind, StatusChange, Quiet, DeleteMessage, CreateJob, ReadBatch, telegramVars

(* A backfill batch does to the archive what ArchivePromise allows, as the *)
(* writers of ChatIngestion do, and never touches a cursor.                *)
THEOREM ArchiveKept == Spec => ImplementsArchive
<1>1. Init => Shared!Init
  BY DEF Init, Shared!Init
<1>2. QED
  BY <1>1, StepIsShared, IInvAlways, PTL DEF Spec, ImplementsArchive, Shared!Spec

-----------------------------------------------------------------------------
(* The loop, with its cursor, its two transactions, the row lock and its   *)
(* crashes, keeps the promise of BackfillPromise: every step of the system *)
(* is a step of the promise or invisible to the owner.                     *)
LEMMA PromiseInit == Init => Promise!Init
<1> SUFFICES ASSUME Init PROVE Promise!Init
  OBVIOUS
<1>1. \A j \in Jobs : PromiseState(jobs[j].status) = "absent"
  BY DEF Init, NoRow, PromiseState
<1>2. QED
  BY <1>1 DEF Init, Promise!Init

PState == [j \in Jobs |-> PromiseState(jobs[j].status)]
PPeriod == [j \in Jobs |-> [chat |-> jobs[j].chat, from |-> jobs[j].from, to |-> jobs[j].to]]

LEMMA PromiseStep == IInv /\ [Next]_vars => [Promise!Next]_(Promise!promiseVars)
<1> SUFFICES ASSUME IInv, StepKind PROVE Promise!Next \/ UNCHANGED Promise!promiseVars
  BY StepKinds DEF IInv
<1>0. /\ jobs \in [Jobs -> Rows] /\ LockInv
      /\ history \in [Chats -> SUBSET (1 .. MaxMessages)]
      /\ messages \in [Chats -> SUBSET (1 .. MaxMessages)]
      /\ latest \in [Chats -> 0 .. MaxMessages]
      /\ pc \in InTransaction => claimed \in Jobs
  BY DEF IInv, TypeOK
<1>1. ASSUME UNCHANGED <<jobs, messages, history>> PROVE UNCHANGED Promise!promiseVars
  BY <1>1 DEF Promise!promiseVars
<1>2. ASSUME UNCHANGED <<jobs, messages>>,
             \A j \in Jobs : Exists(j) =>
               \A m \in history'[jobs[j].chat] : m <= jobs[j].to => m \in history[jobs[j].chat]
      PROVE  Promise!Next
  <2>1. ASSUME NEW j \in Jobs, PState[j] # "absent", NEW m \in Promise!Wanted(j)'
        PROVE  m \in Promise!Wanted(j)
    <3>1. Exists(j)
      BY <2>1 DEF PState, PromiseState, Exists
    <3>2. m \in history'[jobs[j].chat] /\ jobs[j].from <= m /\ m <= jobs[j].to
      BY <1>2, <2>1 DEF Promise!Wanted
    <3>3. QED
      BY <1>2, <3>1, <3>2 DEF Promise!Wanted
  <2>2. Promise!TelegramChanges
    BY <1>2, <2>1 DEF Promise!TelegramChanges, PState
  <2>3. QED
    BY <2>2 DEF Promise!Next
<1>3. ASSUME NEW c \in Chats, NewMessage(c) PROVE Promise!Next
  <2>1. ASSUME NEW j \in Jobs, Exists(j), NEW m \in history'[jobs[j].chat], m <= jobs[j].to
        PROVE  m \in history[jobs[j].chat]
    <3>1. jobs[j].to <= latest[jobs[j].chat] /\ jobs[j].chat \in Chats /\ jobs[j].to \in Nat
      BY <1>0, <2>1 DEF IInv, PeriodInv, Rows
    <3>2. latest[jobs[j].chat] \in Nat
      BY <1>0, <3>1, BackfillAssumption
    <3>3. QED
      BY <1>0, <1>3, <2>1, <3>1, <3>2 DEF NewMessage
  <2>2. QED
    BY <1>2, <1>3, <2>1 DEF NewMessage
<1>4. ASSUME NEW c \in Chats, NEW m \in history[c], DeleteMessage(c, m) PROVE Promise!Next
  <2>1. \A d \in Chats : history'[d] \subseteq history[d]
    BY <1>0, <1>4 DEF DeleteMessage
  <2>2. \A j \in Jobs : jobs[j].chat \in Chats
    BY <1>0 DEF Rows
  <2>3. QED
    BY <1>2, <1>4, <2>1, <2>2 DEF DeleteMessage
<1>5. ASSUME NEW j \in Jobs, NEW c \in Chats, NEW f \in 1 .. latest[c] + 1,
             CreateJob(j, c, f)
      PROVE  Promise!Next
  <2>1. /\ jobs[j].status = "absent" /\ jobs'[j].status = "pending"
        /\ \A i \in Jobs \ {j} : jobs'[i] = jobs[i]
        /\ UNCHANGED <<messages, history>>
    BY <1>0, <1>5 DEF CreateJob, telegramVars
  <2>2. PState[j] = "absent" /\ PState' = [PState EXCEPT ![j] = "open"]
    BY <2>1 DEF PState, PromiseState
  <2>3. \A i \in Jobs \ {j} : PPeriod'[i] = PPeriod[i]
    BY <2>1 DEF PPeriod
  <2>4. Promise!Open(j)
    BY <2>1, <2>2, <2>3 DEF Promise!Open, PState, PPeriod
  <2>5. QED
    BY <2>4 DEF Promise!Next
<1>6. ASSUME NEW j \in Jobs, NEW s \in Statuses, StatusChange(j, s) PROVE Promise!Next
  <2>1. /\ jobs'[j].status = s /\ \A i \in Jobs \ {j} : jobs'[i] = jobs[i]
        /\ jobs'[j].chat = jobs[j].chat /\ jobs'[j].from = jobs[j].from
        /\ jobs'[j].to = jobs[j].to
        /\ UNCHANGED <<messages, history>>
    BY <1>0, <1>6 DEF StatusChange, Rows
  <2>2. PState' = [PState EXCEPT ![j] = PromiseState(s)]
    BY <2>1 DEF PState
  <2>3. PPeriod' = PPeriod
    BY <2>1 DEF PPeriod
  <2>4. CASE jobs[j].status = "cancel_requested" /\ s = "cancelled"
    <3>1. PState[j] = "stopping" /\ PromiseState(s) = "cancelled"
      BY <2>4 DEF PState, PromiseState
    <3>2. Promise!Stop(j)
      BY <2>1, <2>2, <2>3, <3>1 DEF Promise!Stop, PState, PPeriod
    <3>3. QED
      BY <3>2 DEF Promise!Next
  <2>5. CASE jobs[j].status \in Open /\ s = "cancel_requested"
    <3>1. PState[j] = "open" /\ PromiseState(s) = "stopping"
      BY <2>5 DEF PState, PromiseState, Open
    <3>2. Promise!AskToStop(j)
      BY <2>1, <2>2, <2>3, <3>1 DEF Promise!AskToStop, PState, PPeriod
    <3>3. QED
      BY <3>2 DEF Promise!Next
  <2>6. CASE jobs[j].status \in Open /\ s = "failed"
    <3>1. PState[j] = "open" /\ PromiseState(s) = "failed"
      BY <2>6 DEF PState, PromiseState, Open
    <3>2. Promise!Fail(j)
      BY <2>1, <2>2, <2>3, <3>1 DEF Promise!Fail, PState, PPeriod
    <3>3. QED
      BY <3>2 DEF Promise!Next
  <2>7. CASE jobs[j].status \in Open /\ s = "completed"
    <3>1. PState[j] = "open" /\ PromiseState(s) = "completed"
      BY <2>7 DEF PState, PromiseState, Open
    <3>2. CompletedMeansSaved'
      BY ArchiveStep DEF IInv
    <3>3. ASSUME NEW m \in history[jobs[j].chat], jobs[j].from <= m, m <= jobs[j].to
          PROVE  m \in messages[jobs[j].chat]
      BY <2>1, <2>7, <3>2, <3>3 DEF CompletedMeansSaved, InPeriod
    <3>4. Promise!Wanted(j) \subseteq messages[jobs[j].chat]
      BY <3>3 DEF Promise!Wanted
    <3>5. Promise!Complete(j)
      BY <2>1, <2>2, <2>3, <3>1, <3>4 DEF Promise!Complete, PState, PPeriod
    <3>6. QED
      BY <3>5 DEF Promise!Next
  <2>8. QED
    BY <1>6, <2>4, <2>5, <2>6, <2>7 DEF StatusChange
<1>7. CASE Quiet \/ ReadBatch
  BY <1>1, <1>7 DEF Quiet, ReadBatch, telegramVars
<1>8. CASE CommitBatch
  <2> DEFINE d == jobs[claimed].chat
  <2>1. /\ claimed \in Jobs /\ d \in Chats /\ UNCHANGED <<jobs, history>>
        /\ messages' = [messages EXCEPT ![d] = @ \cup batch]
        /\ jobs[claimed].status \in Open /\ pc = "read"
    BY <1>0, <1>8 DEF CommitBatch, telegramVars, Rows, InTransaction, LockInv, Busy
  <2>2. PState[claimed] = "open" /\ PState' = PState /\ PPeriod' = PPeriod
    BY <2>1 DEF PState, PPeriod, PromiseState, Open
  <2>3. \A m \in messages'[d] \ messages[d] : jobs[claimed].from <= m /\ m <= jobs[claimed].to
    BY <1>0, <2>1 DEF IInv, BatchInv, InPeriod
  <2>4. \A c \in Chats : /\ messages[c] \subseteq messages'[c]
                         /\ c # d => messages'[c] = messages[c]
    BY <1>0, <2>1
  <2>5. Promise!Archive(claimed)
    BY <2>1, <2>2, <2>3, <2>4 DEF Promise!Archive, PState, PPeriod
  <2>6. QED
    BY <2>1, <2>5 DEF Promise!Next
<1>9. CASE RecordProgress
  <2>1. PICK low \in batch :
          /\ jobs' = [jobs EXCEPT ![claimed] = Progress(jobs[claimed], batch, low)]
          /\ claimed \in Jobs /\ pc = "saved" /\ UNCHANGED <<history, latest, messages>>
    BY <1>9, ProgressStep DEF IInv
  <2>2. /\ jobs[claimed].status \in Open /\ jobs'[claimed].status = "running"
        /\ jobs'[claimed].chat = jobs[claimed].chat /\ jobs'[claimed].from = jobs[claimed].from
        /\ jobs'[claimed].to = jobs[claimed].to
    BY <1>0, <2>1, ProgressFields DEF LockInv, Busy, InTransaction
  <2>3. PState' = PState /\ PPeriod' = PPeriod
    BY <1>0, <2>1, <2>2 DEF PState, PPeriod, PromiseState, Open
  <2>4. QED
    BY <2>1, <2>3 DEF Promise!promiseVars, PState, PPeriod
<1>10. QED
  BY <1>3, <1>4, <1>5, <1>6, <1>7, <1>8, <1>9 DEF StepKind

THEOREM Refinement == Spec => ImplementsPromise
BY PromiseInit, PromiseStep, IInvAlways, PTL DEF Spec, ImplementsPromise, Promise!Spec
=============================================================================
