---------------------------- MODULE BotPromise ----------------------------
(***************************************************************************)
(* What the bot promises of the updates Telegram has for it, without       *)
(* polling, offsets, transactions or restarts: they are done one after the *)
(* other, each once; a press takes effect as it is done or a failure is    *)
(* recorded in its place; answers, which may be repeated, go to the next   *)
(* update only and never to one that is ignored; and Telegram is told to   *)
(* forget only what is done.  BotRuntime implements this specification.    *)
(***************************************************************************)
EXTENDS Integers

CONSTANTS Updates,  \* update ids
          Kind      \* Kind[u]: "command", "press", "ignored" or "broken"

VARIABLES
  arrived,    \* updates 1 .. arrived exist
  forgotten,  \* Telegram keeps no update up to this one
  done,       \* updates 1 .. done are done
  effects,    \* effects[u]: how often the database was changed for u
  failures,   \* updates with a recorded failure
  answers     \* answers[u]: messages the owner got in answer to u

promiseVars == <<arrived, forgotten, done, effects, failures, answers>>

Init ==
  /\ arrived = 0 /\ forgotten = 0 /\ done = 0
  /\ effects = [u \in Updates |-> 0]
  /\ failures = {}
  /\ answers = [u \in Updates |-> 0]

Arrive ==
  /\ arrived' = arrived + 1
  /\ arrived' \in Updates
  /\ UNCHANGED <<forgotten, done, effects, failures, answers>>

Forget ==
  /\ forgotten < forgotten' /\ forgotten' <= done
  /\ UNCHANGED <<arrived, done, effects, failures, answers>>

Answer ==
  /\ done < arrived
  /\ Kind[done + 1] \in {"command", "press"}
  /\ answers' = [answers EXCEPT ![done + 1] = @ + 1]
  /\ UNCHANGED <<arrived, forgotten, done, effects, failures>>

\* The next update is done as it should be.
Succeed ==
  /\ done < arrived
  /\ done' = done + 1
  /\ Kind[done'] # "broken"
  /\ Kind[done'] # "ignored" => answers[done'] > 0
  /\ effects' = [effects EXCEPT ![done'] = IF Kind[done'] = "press" THEN 1 ELSE 0]
  /\ UNCHANGED <<arrived, forgotten, failures, answers>>

\* The next update is done with a failure on record; a press may have taken effect.
FailRecorded ==
  /\ done < arrived
  /\ done' = done + 1
  /\ failures' = failures \union {done'}
  /\ \E n \in {0, IF Kind[done'] = "press" THEN 1 ELSE 0} :
        effects' = [effects EXCEPT ![done'] = n]
  /\ UNCHANGED <<arrived, forgotten, answers>>

Next == Arrive \/ Forget \/ Answer \/ Succeed \/ FailRecorded

Spec == Init /\ [][Next]_promiseVars
=============================================================================
