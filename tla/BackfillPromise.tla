-------------------------- MODULE BackfillPromise --------------------------
(***************************************************************************)
(* What a persisted backfill job promises to the owner who starts it from  *)
(* the bot, without cursors, batches, transactions, row locks or crashes:  *)
(* while a job is open the archive may only gain messages of its period,   *)
(* it is completed only when every message of the period that Telegram     *)
(* still has is archived, and once a stop has been asked for, nothing more *)
(* is archived on its behalf and it can only end cancelled.                *)
(* BackfillJobs implements this specification.                             *)
(***************************************************************************)
EXTENDS Naturals

CONSTANTS Jobs,     \* backfill job ids
          Chats     \* chats of the account

VARIABLES
  state,      \* state[j]: what the owner has been told about job j
  period,     \* period[j]: the chat and the message ids job j asks for
  history,    \* history[c]: the messages Telegram can still return
  archive     \* archive[c]: the messages stored locally

promiseVars == <<state, period, history, archive>>

Wanted(j) == {m \in history[period[j].chat] :
                period[j].from <= m /\ m <= period[j].to}

Init ==
  /\ state = [j \in Jobs |-> "absent"]
  /\ archive = [c \in Chats |-> {}]
  /\ history = [c \in Chats |-> {}]

(* Telegram gains and loses messages on its own; what it gains is newer    *)
(* than every period that was asked for.                                   *)
TelegramChanges ==
  /\ \A j \in Jobs : state[j] # "absent" => Wanted(j)' \subseteq Wanted(j)
  /\ UNCHANGED <<state, period, archive>>

Open(j) ==
  /\ state[j] = "absent"
  /\ state' = [state EXCEPT ![j] = "open"]
  /\ \A i \in Jobs \ {j} : period'[i] = period[i]
  /\ UNCHANGED <<history, archive>>

Archive(j) ==
  /\ state[j] = "open"
  /\ \A m \in archive'[period[j].chat] \ archive[period[j].chat] :
        period[j].from <= m /\ m <= period[j].to
  /\ \A c \in Chats : /\ archive[c] \subseteq archive'[c]
                      /\ c # period[j].chat => archive'[c] = archive[c]
  /\ UNCHANGED <<state, period, history>>

Complete(j) ==
  /\ state[j] = "open"
  /\ Wanted(j) \subseteq archive[period[j].chat]
  /\ state' = [state EXCEPT ![j] = "completed"]
  /\ UNCHANGED <<period, history, archive>>

Fail(j) ==
  /\ state[j] = "open"
  /\ state' = [state EXCEPT ![j] = "failed"]
  /\ UNCHANGED <<period, history, archive>>

AskToStop(j) ==
  /\ state[j] = "open"
  /\ state' = [state EXCEPT ![j] = "stopping"]
  /\ UNCHANGED <<period, history, archive>>

Stop(j) ==
  /\ state[j] = "stopping"
  /\ state' = [state EXCEPT ![j] = "cancelled"]
  /\ UNCHANGED <<period, history, archive>>

Next ==
  \/ TelegramChanges
  \/ \E j \in Jobs : Open(j) \/ Archive(j) \/ Complete(j) \/ Fail(j)
                       \/ AskToStop(j) \/ Stop(j)

Spec == Init /\ [][Next]_promiseVars
=============================================================================
