-------------------------- MODULE ArchivePromise --------------------------
(***************************************************************************)
(* The archive that the listener, its imports and `run ingestor` write     *)
(* together, without their processes, batches, transactions and failures:  *)
(* what is archived exists and stays, in one chat at a time; what is       *)
(* stored leaves the cursor of its chat where it is or moves it forward    *)
(* onto an archived message; and a cursor may be moved, forward only, over *)
(* messages that exist and are not wanted.  When a writer may do so is not *)
(* said here: that it is with start_now alone is CursorNeverRewinds of     *)
(* ChatIngestion.  So a message that arrives is ahead of the cursor of its *)
(* chat.  ChatIngestion and BackfillJobs, which leaves all cursors alone,  *)
(* both implement this.                                                    *)
(***************************************************************************)
EXTENDS Integers

CONSTANT Chats

VARIABLES
  newest,   \* newest[c]: messages 1 .. newest[c] of chat c have existed
  archive,  \* archive[c]: those that are stored locally
  cursor    \* cursor[c]: where the next startup reads on, 0 for nowhere

archiveVars == <<newest, archive, cursor>>

Init ==
  /\ newest = [c \in Chats |-> 0]
  /\ archive = [c \in Chats |-> {}]
  /\ cursor = [c \in Chats |-> 0]

Arrive(c) ==
  /\ newest' = [newest EXCEPT ![c] = @ + 1]
  /\ UNCHANGED <<archive, cursor>>

Store(c) ==
  /\ \E S \in SUBSET (1 .. newest[c]) : archive' = [archive EXCEPT ![c] = @ \cup S]
  /\ \E n \in {cursor[c]} \cup archive'[c] :
       n >= cursor[c] /\ cursor' = [cursor EXCEPT ![c] = n]
  /\ UNCHANGED newest

\* What is there already is not wanted, whoever decides that.
SkipTo(c) ==
  /\ \E n \in cursor[c] .. newest[c] : cursor' = [cursor EXCEPT ![c] = n]
  /\ UNCHANGED <<newest, archive>>

Next == \E c \in Chats : Arrive(c) \/ Store(c) \/ SkipTo(c)

Spec == Init /\ [][Next]_archiveVars
=============================================================================
