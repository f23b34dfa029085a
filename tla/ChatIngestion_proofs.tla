------------------------ MODULE ChatIngestion_proofs ------------------------
(***************************************************************************)
(* Proofs about ChatIngestion: nothing falls between catch-up and the live *)
(* handler, the cursor never rewinds, denied chats stay unread, for every  *)
(* set of chats, read policy, fault bound and batch limit.                 *)
(***************************************************************************)
EXTENDS ChatIngestion, FiniteSetTheorems, TLAPS

(* A process that is down holds nothing.                                   *)
DownInv ==
  ~up => /\ current = NoChat /\ batch = {} /\ chosen = {} /\ todo = {}
         /\ updates = {} /\ handling = {}

(* Catch-up holds ids that exist, the oldest ones it has not read yet.     *)
BatchInv ==
  /\ \A c \in Chats : history[c] \subseteq 1 .. latest[c]
  /\ current # NoChat =>
       /\ batch \subseteq 1 .. latest[current]
       /\ \A m \in history[current] \ batch : m > position => \A k \in batch : k < m

HandlingInv == \A u, v \in handling : u = v

(* Where a message newer than the listed cursor can be: archived, with the *)
(* live handler, or still ahead of catch-up.                               *)
Ahead(c, m) == c \in todo /\ (c = current => m > position \/ m \in batch)
CaughtUpInv ==
  \A c \in chosen : \A m \in history[c] :
    m > listed[c].cursor => m \in messages[c] \/ Pending(c, m) \/ Ahead(c, m)

(* A stored chat type is what Telegram says or nothing, so what can be     *)
(* read by the row can be read by the chat's kind.                         *)
KindInv ==
  \A c \in Chats : /\ rows[c].type \in {"absent", "unknown", Kind[c]}
                   /\ listed[c].type \in {"absent", "unknown", Kind[c]}
PermitInv ==
  /\ up => Readable(override) \subseteq permitted
  /\ chosen \subseteq permitted \ BaseDenied
  /\ \A c \in Chats, m \in Ids : <<c, m>> \in handling => c \in permitted \ BaseDenied

(* The cursor the ingestor has read is the committed one until it commits. *)
IngestInv ==
  ingest.stage # "off" =>
    /\ ingest.from = rows[ingest.chat].cursor
    /\ ingest.to >= ingest.from
    /\ ingest.to = ingest.from \/ ingest.to \in ingest.got \/ ingest.mode = "start_now"

IInv ==
  /\ TypeOK /\ DownInv
  /\ BatchInv /\ HandlingInv
  /\ IngestLimit # 0 => CaughtUpInv
  /\ KindInv /\ PermitInv
  /\ IngestInv

-----------------------------------------------------------------------------
LEMMA IdsAreNats == Ids \subseteq Nat \ {0}
<1>1. ASSUME NEW c \in Chats PROVE 1 .. MaxMessages[c] \subseteq Nat \ {0}
  BY IngestionAssumption
<1>2. QED
  BY <1>1 DEF Ids

LEMMA NextId == ASSUME NEW c \in Chats, NEW n \in Nat, n < MaxMessages[c] PROVE n + 1 \in Ids
<1>1. n + 1 \in 1 .. MaxMessages[c]
  BY IngestionAssumption
<1>2. QED
  BY <1>1 DEF Ids

LEMMA LargerType == ASSUME NEW a \in Nat, NEW b \in Nat
                    PROVE  /\ Larger(a, b) \in Nat /\ Larger(a, b) >= a /\ Larger(a, b) >= b
                           /\ Larger(a, b) \in {a, b}
BY DEF Larger

LEMMA TypeInit == Init => TypeOK
<1> SUFFICES ASSUME Init PROVE TypeOK
  OBVIOUS
<1>1. NoRow \in Rows /\ NoIngest \in Ingests /\ NoIngest.stage = "off"
  BY DEF NoRow, Rows, Types, NoIngest, Ingests, Modes
<1>2. \A c \in Chats : latest[c] <= MaxMessages[c]
  BY IngestionAssumption DEF Init
<1>3. QED
  BY <1>1, <1>2 DEF Init, TypeOK

(* Saving one message keeps the two tables in their types.                 *)
LEMMA SaveType == ASSUME TypeOK, NEW c \in Chats, NEW m \in Ids, NEW t \in Types, SaveMessage(c, m, t)
                  PROVE  messages' \in [Chats -> SUBSET Ids] /\ rows' \in [Chats -> Rows]
<1>1. messages' \in [Chats -> SUBSET Ids]
  BY DEF TypeOK, SaveMessage
<1>2. rows[c].cursor \in Nat /\ m \in Nat
  BY IdsAreNats DEF TypeOK, Rows
<1>3. [type |-> t, cursor |-> Larger(rows[c].cursor, m)] \in Rows
  BY <1>2, LargerType DEF Rows
<1>4. QED
  BY <1>1, <1>3 DEF TypeOK, SaveMessage

(* What a read of the ingestor can leave in its transaction.               *)
LEMMA ReadType ==
  ASSUME TypeOK, ReadIngest
  PROVE  \E S \in SUBSET Ids, top \in Nat :
           /\ ingest' = [ingest EXCEPT !.stage = "read", !.got = S, !.to = top]
           /\ top >= ingest.from
           /\ top = ingest.from \/ top \in S \/ ingest.mode = "start_now"
<1>1. ingest \in Ingests /\ ingest.chat \in Chats /\ ingest.from \in Nat /\ ingest.got \in SUBSET Ids
  BY DEF TypeOK, ReadIngest, Ingests
<1>2. history[ingest.chat] \subseteq Ids
  BY <1>1 DEF TypeOK
<1>3. CASE ingest.mode = "start_now"
  <2>1. PICK top \in history[ingest.chat] \cup {0} :
          ingest' = [ingest EXCEPT !.stage = "read", !.to = Larger(ingest.from, top)]
    BY <1>3 DEF ReadIngest, SkipBacklog
  <2>2. top \in Nat
    BY <1>2, <2>1, IdsAreNats
  <2>3. Larger(ingest.from, top) \in Nat /\ Larger(ingest.from, top) >= ingest.from
    BY <1>1, <2>2, LargerType
  <2>4. ingest' = [ingest EXCEPT !.stage = "read", !.got = ingest.got, !.to = Larger(ingest.from, top)]
    BY <1>1, <2>1 DEF Ingests
  <2>5. QED
    BY <1>1, <1>3, <2>3, <2>4
<1>4. CASE ingest.mode # "start_now"
  <2>1. PICK S \in SUBSET history[ingest.chat], since \in Ids : ReadNewMessages(S, since)
    BY <1>4 DEF ReadIngest
  <2>2. PICK top \in S \cup {ingest.from} :
          /\ \A m \in S \cup {ingest.from} : m <= top
          /\ ingest' = [ingest EXCEPT !.stage = "read", !.got = S, !.to = top]
    BY <2>1 DEF ReadNewMessages
  <2>3. S \subseteq Ids /\ top \in Nat
    BY <1>1, <1>2, <2>2, IdsAreNats
  <2>4. top >= ingest.from
    BY <1>1, <2>2, <2>3
  <2>5. QED
    BY <2>2, <2>3, <2>4
<1>5. QED
  BY <1>3, <1>4

-----------------------------------------------------------------------------
(* Type correctness.                                                       *)

LEMMA TypeStep == TypeOK /\ DownInv /\ [Next]_vars => TypeOK' /\ DownInv'
<1> SUFFICES ASSUME TypeOK, DownInv, [Next]_vars PROVE TypeOK' /\ DownInv'
  OBVIOUS
<1> USE DEF telegramVars, catchUpVars, liveVars, transactions, boundVars
<1>1. ASSUME NEW c \in Chats, NewMessage(c) PROVE TypeOK' /\ DownInv'
  <2>1. latest[c] + 1 \in Ids
    BY <1>1, NextId, IngestionAssumption DEF NewMessage, TypeOK
  <2>2. latest' \in [Chats -> Nat] /\ \A d \in Chats : latest'[d] <= MaxMessages[d]
    <3>1. MaxMessages[c] \in Nat /\ latest[c] \in Nat /\ latest[c] < MaxMessages[c]
      BY <1>1, IngestionAssumption DEF NewMessage, TypeOK
    <3>2. latest' = [latest EXCEPT ![c] = latest[c] + 1] /\ latest \in [Chats -> Nat]
      BY <1>1 DEF NewMessage, TypeOK
    <3>3. \A d \in Chats : latest'[d] = IF d = c THEN latest[c] + 1 ELSE latest[d]
      BY <3>2
    <3>4. latest[c] + 1 <= MaxMessages[c]
      BY <3>1
    <3>5. QED
      BY <3>2, <3>3, <3>4 DEF TypeOK
  <2>3. updates' \subseteq Chats \X Ids /\ (~up => updates' = updates)
    BY <1>1, <2>1 DEF NewMessage, TypeOK, Dispatched
  <2>4. QED
    BY <1>1, <2>1, <2>2, <2>3 DEF NewMessage, TypeOK, DownInv
<1>2. ASSUME NEW c \in Chats, NEW m \in history[c], DeleteMessage(c, m) PROVE TypeOK' /\ DownInv'
  BY <1>2 DEF DeleteMessage, TypeOK, DownInv
<1>3. ASSUME NEW c \in Chats, NEW s \in {"none", "allow", "deny"}, SetPolicy(c, s)
      PROVE  TypeOK' /\ DownInv'
  BY <1>3 DEF SetPolicy, TypeOK, DownInv, Readable
<1>4. ASSUME Start PROVE TypeOK' /\ DownInv'
  BY <1>4 DEF Start, TypeOK, DownInv, Covered, Readable
<1>5. ASSUME NEW c \in Chats, NEW m \in Ids, NEW t \in EventTypes(c), CheckUpdate(c, m, t) PROVE TypeOK' /\ DownInv'
  BY <1>5 DEF CheckUpdate, TypeOK, DownInv
<1>6. ASSUME NEW c \in Chats, NEW m \in Ids, SaveUpdate(c, m) PROVE TypeOK' /\ DownInv'
  <2>1. Kind[c] \in Types
    BY IngestionAssumption DEF Types
  <2>2. messages' \in [Chats -> SUBSET Ids] /\ rows' \in [Chats -> Rows]
    BY <1>6, <2>1, SaveType DEF SaveUpdate
  <2>3. QED
    BY <1>6, <2>2 DEF SaveUpdate, TypeOK, DownInv
<1>7. ASSUME NEW c \in Chats, NEW m \in Ids, FailUpdate(c, m) PROVE TypeOK' /\ DownInv'
  BY <1>7 DEF FailUpdate, TypeOK, DownInv
<1>8. ASSUME NEW c \in Chats, NextChat(c) PROVE TypeOK' /\ DownInv'
  BY <1>8 DEF NextChat, TypeOK, DownInv, Rows
<1>9. ASSUME FetchBatch PROVE TypeOK' /\ DownInv'
  <2>1. current \in Chats /\ After(current, position) \subseteq Ids
    BY <1>9 DEF FetchBatch, TypeOK, After
  <2>2. QED
    BY <1>9, <2>1 DEF FetchBatch, TypeOK, DownInv
<1>10. ASSUME FinishChat PROVE TypeOK' /\ DownInv'
  BY <1>10 DEF FinishChat, TypeOK, DownInv
<1>11. ASSUME NEW m \in Ids, SaveCaughtUp(m) PROVE TypeOK' /\ DownInv'
  <2>1. current \in Chats /\ listed[current].type \in Types /\ listed[current].cursor \in Nat
    BY <1>11 DEF SaveCaughtUp, TypeOK, Rows
  <2>2. messages' \in [Chats -> SUBSET Ids] /\ rows' \in [Chats -> Rows]
    BY <1>11, <2>1, SaveType DEF SaveCaughtUp
  <2>3. position' \in Nat /\ position' >= position
    BY <1>11, IdsAreNats, LargerType DEF SaveCaughtUp, TypeOK
  <2>4. current' # NoChat => position' >= listed'[current'].cursor
    BY <1>11, <2>1, <2>3 DEF SaveCaughtUp, TypeOK
  <2>5. QED
    BY <1>11, <2>2, <2>3, <2>4 DEF SaveCaughtUp, TypeOK, DownInv
<1>12. ASSUME Stop PROVE TypeOK' /\ DownInv'
  <2>1. DownInv' /\ backfilling' = NoChat /\ position' = 0 /\ current' = NoChat /\ batch' = {}
    BY <1>12 DEF Stop, DownInv
  <2>2. updates' = {} /\ handling' = {} /\ skipped' = {} /\ permitted' = {} /\ chosen' = {} /\ todo' = {}
    BY <1>12 DEF Stop
  <2>3. stops' \in Nat /\ up' = FALSE
    BY <1>12 DEF Stop, TypeOK
  <2>4. UNCHANGED <<history, latest, messages, rows, override, listed, ingest, errors,
                    ingests, backfills, policies>>
    BY <1>12 DEF Stop
  <2>5. QED
    BY <2>1, <2>2, <2>3, <2>4 DEF TypeOK
<1>13. ASSUME NEW c \in Chats, BeginBackfill(c) PROVE TypeOK' /\ DownInv'
  BY <1>13 DEF BeginBackfill, TypeOK, DownInv
<1>14. ASSUME NEW a \in Ids, NEW b \in Ids, CommitBackfill(a, b) PROVE TypeOK' /\ DownInv'
  <2>1. backfilling \in Chats
    BY <1>14 DEF CommitBackfill, TypeOK
  <2>2. messages' \in [Chats -> SUBSET Ids]
    BY <1>14, <2>1 DEF CommitBackfill, TypeOK
  <2>3. rows' \in [Chats -> Rows]
    BY <1>14, <2>1 DEF CommitBackfill, TypeOK, Rows, Types
  <2>4. QED
    BY <1>14, <2>2, <2>3 DEF CommitBackfill, TypeOK, DownInv
<1>15. ASSUME FailBackfill PROVE TypeOK' /\ DownInv'
  BY <1>15 DEF FailBackfill, TypeOK, DownInv
<1>16. ASSUME NEW c \in Chats, NEW mode \in Modes, BeginIngest(c, mode) PROVE TypeOK' /\ DownInv'
  <2>1. ingest' \in Ingests /\ ingest'.chat \in Chats
    BY <1>16 DEF BeginIngest, TypeOK, Ingests, NoIngest, Rows, Modes
  <2>2. QED
    BY <1>16, <2>1 DEF BeginIngest, TypeOK, DownInv
<1>17. ASSUME ReadIngest PROVE TypeOK' /\ DownInv'
  <2>1. PICK S \in SUBSET Ids, top \in Nat :
          ingest' = [ingest EXCEPT !.stage = "read", !.got = S, !.to = top]
    BY <1>17, ReadType
  <2>2. ingest' \in Ingests /\ ingest'.chat \in Chats
    BY <1>17, <2>1 DEF TypeOK, Ingests, ReadIngest
  <2>3. QED
    BY <1>17, <2>2 DEF ReadIngest, TypeOK, DownInv
<1>18. ASSUME CommitIngest PROVE TypeOK' /\ DownInv'
  <2>1. NoIngest \in Ingests /\ NoIngest.stage = "off"
    BY DEF NoIngest, Ingests, Modes
  <2>2. ingest.chat \in Chats /\ ingest.got \in SUBSET Ids /\ ingest.to \in Nat
    BY <1>18 DEF CommitIngest, TypeOK, Ingests
  <2>3. messages' \in [Chats -> SUBSET Ids]
    BY <1>18, <2>2 DEF CommitIngest, TypeOK
  <2>4. rows' \in [Chats -> Rows]
    BY <1>18, <2>2 DEF CommitIngest, TypeOK, Rows, Types
  <2>5. QED
    BY <1>18, <2>1, <2>3, <2>4 DEF CommitIngest, TypeOK, DownInv
<1>19. ASSUME FailIngest PROVE TypeOK' /\ DownInv'
  <2>1. NoIngest \in Ingests /\ NoIngest.stage = "off"
    BY DEF NoIngest, Ingests, Modes
  <2>2. QED
    BY <1>19, <2>1 DEF FailIngest, TypeOK, DownInv
<1>20. CASE UNCHANGED vars
  BY <1>20 DEF vars, TypeOK, DownInv
<1>21. QED
  BY <1>1, <1>2, <1>3, <1>4, <1>5, <1>6, <1>7, <1>8, <1>9, <1>10, <1>11, <1>12, <1>13, <1>14,
     <1>15, <1>16, <1>17, <1>18, <1>19, <1>20
     DEF Next, Telegram, Owner, Live, Fail, CatchUp, Archive, Batch, Ingestor

-----------------------------------------------------------------------------
(* Denied chats.                                                           *)

LEMMA ReadableIsPermitted == ASSUME NEW o, NEW c \in Chats, c \in Readable(o) PROVE c \notin BaseDenied
BY DEF Readable, CanRead, Effective

(* A row with a chat type is readable only if the chat is.                 *)
LEMMA CoveredIsReadable == ASSUME KindInv PROVE Covered(rows, Effective(override)) \subseteq Readable(override)
<1> SUFFICES ASSUME NEW c \in Chats, CanRead(Effective(override), c, rows[c].type)
             PROVE  c \in Readable(override)
  BY DEF Covered
<1>1. rows[c].type = Kind[c]
  BY DEF KindInv, CanRead
<1>2. QED
  BY <1>1 DEF Readable

LEMMA KindStep == TypeOK /\ KindInv /\ [Next]_vars => KindInv'
<1> SUFFICES ASSUME TypeOK, KindInv, [Next]_vars PROVE KindInv'
  OBVIOUS
<1> USE DEF telegramVars, catchUpVars
<1>1. ASSUME UNCHANGED <<rows, listed>> PROVE KindInv'
  BY <1>1 DEF KindInv
<1>2. ASSUME NEW c \in Chats, NEW m \in Ids, NEW t \in {"absent", "unknown", Kind[c]},
             SaveMessage(c, m, t), UNCHANGED listed
      PROVE  KindInv'
  BY <1>2 DEF SaveMessage, KindInv, TypeOK
<1>3. CASE Start
  BY <1>3 DEF Start, KindInv
<1>4. ASSUME NEW c \in Chats, NEW m \in Ids, SaveUpdate(c, m) PROVE KindInv'
  BY <1>2, <1>4 DEF SaveUpdate
<1>5. ASSUME NEW m \in Ids, SaveCaughtUp(m) PROVE KindInv'
  <2>1. current \in Chats /\ listed[current].type \in {"absent", "unknown", Kind[current]}
    BY <1>5 DEF SaveCaughtUp, TypeOK, KindInv
  <2>2. QED
    BY <1>2, <1>5, <2>1 DEF SaveCaughtUp
<1>6. ASSUME NEW a \in Ids, NEW b \in Ids, CommitBackfill(a, b) PROVE KindInv'
  <2>1. rows' = [rows EXCEPT ![backfilling].type = "unknown"] /\ listed' = listed
    BY <1>6 DEF CommitBackfill
  <2>2. \A c \in Chats : rows'[c].type \in {rows[c].type, "unknown"}
    BY <2>1 DEF TypeOK, Rows
  <2>3. QED
    BY <2>1, <2>2 DEF KindInv
<1>7. CASE CommitIngest
  <2>1. rows' = [rows EXCEPT ![ingest.chat] = [type |-> "unknown", cursor |-> ingest.to]]
    BY <1>7 DEF CommitIngest
  <2>2. \A c \in Chats : rows'[c].type \in {rows[c].type, "unknown"}
    BY <2>1 DEF TypeOK
  <2>3. QED
    BY <1>7, <2>2 DEF CommitIngest, KindInv
<1>8. CASE Telegram
  BY <1>1, <1>8 DEF Telegram, NewMessage, DeleteMessage
<1>9. CASE Owner \/ Fail \/ Stop
  BY <1>1, <1>9 DEF Owner, SetPolicy, Fail, FailUpdate, Stop
<1>10. ASSUME NEW c \in Chats, NEW m \in Ids, NEW t \in EventTypes(c), CheckUpdate(c, m, t) PROVE KindInv'
  BY <1>1, <1>10 DEF CheckUpdate
<1>11. ASSUME NEW c \in Chats, NextChat(c) \/ BeginBackfill(c) PROVE KindInv'
  BY <1>1, <1>11 DEF NextChat, BeginBackfill
<1>12. CASE FetchBatch \/ FinishChat \/ FailBackfill
  BY <1>1, <1>12 DEF FetchBatch, FinishChat, FailBackfill
<1>13. ASSUME NEW c \in Chats, NEW mode \in Modes, BeginIngest(c, mode) PROVE KindInv'
  BY <1>1, <1>13 DEF BeginIngest
<1>14. CASE ReadIngest \/ FailIngest
  BY <1>1, <1>14 DEF ReadIngest, FailIngest
<1>15. CASE UNCHANGED vars
  BY <1>1, <1>15 DEF vars
<1>16. QED
  BY <1>3, <1>4, <1>5, <1>6, <1>7, <1>8, <1>9, <1>10, <1>11, <1>12, <1>13, <1>14, <1>15
     DEF Next, Live, CatchUp, Batch, Archive, Ingestor

LEMMA PermitStep == TypeOK /\ DownInv /\ KindInv /\ PermitInv /\ [Next]_vars => PermitInv'
<1> SUFFICES ASSUME TypeOK, DownInv, KindInv, PermitInv, [Next]_vars PROVE PermitInv'
  OBVIOUS
<1> USE DEF telegramVars, catchUpVars, liveVars
<1>1. ASSUME UNCHANGED <<up, override, permitted, chosen>>, handling' \subseteq handling PROVE PermitInv'
  BY <1>1 DEF PermitInv, Readable
<1>2. ASSUME NEW c \in Chats, NEW s \in {"none", "allow", "deny"}, SetPolicy(c, s) PROVE PermitInv'
  <2>1. permitted \subseteq permitted' /\ (up' => Readable(override') \subseteq permitted')
    BY <1>2 DEF SetPolicy
  <2>2. Readable(override)' = Readable(override')
    BY DEF Readable
  <2>3. UNCHANGED <<chosen, handling>>
    BY <1>2 DEF SetPolicy
  <2>4. QED
    BY <2>1, <2>2, <2>3 DEF PermitInv
<1>3. CASE Start
  <2>1. chosen' \subseteq Readable(override) /\ permitted' = Readable(override) /\ UNCHANGED <<override, handling>>
    BY <1>3, CoveredIsReadable DEF Start
  <2>2. handling = {}
    BY <1>3 DEF Start, DownInv
  <2>3. chosen' \cap BaseDenied = {}
    BY <2>1, ReadableIsPermitted DEF Readable
  <2>4. Readable(override)' = Readable(override)
    BY <2>1 DEF Readable
  <2>5. QED
    BY <2>1, <2>2, <2>3, <2>4 DEF PermitInv
<1>4. ASSUME NEW c \in Chats, NEW m \in Ids, NEW t \in EventTypes(c), CheckUpdate(c, m, t) PROVE PermitInv'
  <2>1. CASE CanRead(Effective(override), c, t)
    <3>1. c \in permitted \ BaseDenied
      <4>1. t = Kind[c]
        BY <2>1 DEF EventTypes, CanRead
      <4>2. c \in Readable(override)
        BY <2>1, <4>1 DEF Readable
      <4>3. QED
        BY <1>4, <4>2, ReadableIsPermitted DEF CheckUpdate, PermitInv
    <3>2. handling' = {<<c, m>>} /\ UNCHANGED <<up, override, permitted, chosen>>
      BY <1>4, <2>1 DEF CheckUpdate
    <3>3. QED
      BY <3>1, <3>2 DEF PermitInv, Readable
  <2>2. CASE ~CanRead(Effective(override), c, t)
    BY <1>1, <1>4, <2>2 DEF CheckUpdate
  <2>3. QED
    BY <2>1, <2>2
<1>5. CASE Stop
  BY <1>5 DEF Stop, PermitInv
<1>6. CASE Telegram
  BY <1>1, <1>6 DEF Telegram, NewMessage, DeleteMessage
<1>7. ASSUME NEW c \in Chats, NEW m \in Ids, SaveUpdate(c, m) \/ FailUpdate(c, m) PROVE PermitInv'
  BY <1>1, <1>7 DEF SaveUpdate, FailUpdate
<1>8. ASSUME NEW c \in Chats, NextChat(c) \/ BeginBackfill(c) PROVE PermitInv'
  BY <1>1, <1>8 DEF NextChat, BeginBackfill
<1>9. CASE FetchBatch \/ FinishChat \/ FailBackfill
  BY <1>1, <1>9 DEF FetchBatch, FinishChat, FailBackfill
<1>10. ASSUME NEW m \in Ids, SaveCaughtUp(m) PROVE PermitInv'
  BY <1>1, <1>10 DEF SaveCaughtUp
<1>11. ASSUME NEW a \in Ids, NEW b \in Ids, CommitBackfill(a, b) PROVE PermitInv'
  BY <1>1, <1>11 DEF CommitBackfill
<1>12. ASSUME NEW c \in Chats, NEW mode \in Modes, BeginIngest(c, mode) PROVE PermitInv'
  BY <1>1, <1>12 DEF BeginIngest
<1>13. CASE ReadIngest \/ CommitIngest \/ FailIngest
  BY <1>1, <1>13 DEF ReadIngest, CommitIngest, FailIngest
<1>14. CASE UNCHANGED vars
  BY <1>1, <1>14 DEF vars
<1>15. QED
  BY <1>2, <1>3, <1>4, <1>5, <1>6, <1>7, <1>8, <1>9, <1>10, <1>11, <1>12, <1>13, <1>14
     DEF Next, Owner, Live, Fail, CatchUp, Batch, Archive, Ingestor

-----------------------------------------------------------------------------
(* The cursor.                                                             *)

LEMMA IngestStep == TypeOK /\ IngestInv /\ [Next]_vars => IngestInv'
<1> SUFFICES ASSUME TypeOK, IngestInv, [Next]_vars PROVE IngestInv'
  OBVIOUS
<1> USE DEF catchUpVars, transactions
<1>1. ASSUME UNCHANGED <<rows, ingest>> PROVE IngestInv'
  BY <1>1 DEF IngestInv
<1>2. ASSUME ingest'.stage = "off" PROVE IngestInv'
  BY <1>2 DEF IngestInv
<1>3. ASSUME NEW c \in Chats, NEW m \in Ids, SaveUpdate(c, m) PROVE IngestInv'
  BY <1>2, <1>3 DEF SaveUpdate, RowsFree
<1>4. ASSUME NEW a \in Ids, NEW b \in Ids, CommitBackfill(a, b) PROVE IngestInv'
  <2>1. rows' = [rows EXCEPT ![backfilling].type = "unknown"] /\ ingest' = ingest
    BY <1>4 DEF CommitBackfill
  <2>2. \A c \in Chats : rows'[c].cursor = rows[c].cursor
    BY <2>1 DEF TypeOK, Rows
  <2>3. QED
    BY <2>1, <2>2 DEF IngestInv, TypeOK
<1>5. ASSUME NEW c \in Chats, NEW mode \in Modes, BeginIngest(c, mode) PROVE IngestInv'
  <2>1. /\ ingest'.from = rows[c].cursor /\ ingest'.to = rows[c].cursor
        /\ ingest'.chat = c /\ rows' = rows /\ rows[c].cursor \in Nat
    BY <1>5 DEF BeginIngest, NoIngest, TypeOK, Rows
  <2>2. QED
    BY <2>1 DEF IngestInv
<1>6. CASE ReadIngest
  <2>1. PICK S \in SUBSET Ids, top \in Nat :
          /\ ingest' = [ingest EXCEPT !.stage = "read", !.got = S, !.to = top]
          /\ top >= ingest.from
          /\ top = ingest.from \/ top \in S \/ ingest.mode = "start_now"
    BY <1>6, ReadType
  <2>2. /\ ingest'.from = ingest.from /\ ingest'.chat = ingest.chat /\ ingest'.mode = ingest.mode
        /\ ingest'.got = S /\ ingest'.to = top
    BY <2>1 DEF TypeOK, Ingests
  <2>3. rows' = rows /\ ingest.stage # "off"
    BY <1>6 DEF ReadIngest
  <2>4. QED
    BY <2>1, <2>2, <2>3 DEF IngestInv
<1>7. CASE CommitIngest \/ FailIngest
  BY <1>2, <1>7 DEF CommitIngest, FailIngest, NoIngest
<1>8. CASE Telegram
  BY <1>1, <1>8 DEF Telegram, NewMessage, DeleteMessage
<1>9. CASE Owner \/ Fail \/ Stop \/ Start
  BY <1>1, <1>9 DEF Owner, SetPolicy, Fail, FailUpdate, Stop, Start
<1>10. ASSUME NEW c \in Chats, NEW m \in Ids, NEW t \in EventTypes(c), CheckUpdate(c, m, t) PROVE IngestInv'
  BY <1>1, <1>10 DEF CheckUpdate
<1>11. ASSUME NEW c \in Chats, NextChat(c) \/ BeginBackfill(c) PROVE IngestInv'
  BY <1>1, <1>11 DEF NextChat, BeginBackfill
<1>12. CASE FetchBatch \/ FinishChat \/ FailBackfill
  BY <1>1, <1>12 DEF FetchBatch, FinishChat, FailBackfill
<1>13. CASE UNCHANGED vars
  BY <1>1, <1>13 DEF vars
<1>14. ASSUME NEW m \in Ids, SaveCaughtUp(m) PROVE IngestInv'
  BY <1>2, <1>14 DEF SaveCaughtUp, RowsFree
<1>15. QED
  BY <1>3, <1>4, <1>5, <1>6, <1>7, <1>8, <1>9, <1>10, <1>11, <1>12, <1>13, <1>14
     DEF Next, Live, CatchUp, Batch, Archive, Ingestor

-----------------------------------------------------------------------------
(* Catch-up and the live handler.                                          *)

LEMMA BatchStep == TypeOK /\ BatchInv /\ HandlingInv /\ [Next]_vars => BatchInv' /\ HandlingInv'
<1> SUFFICES ASSUME TypeOK, BatchInv, HandlingInv, [Next]_vars PROVE BatchInv' /\ HandlingInv'
  OBVIOUS
<1> USE DEF telegramVars, catchUpVars, liveVars
<1>1. ASSUME UNCHANGED <<history, latest, current, position, batch>>,
             handling' = handling \/ handling' = {}
      PROVE  BatchInv' /\ HandlingInv'
  BY <1>1 DEF BatchInv, HandlingInv
<1>2. ASSUME NEW c \in Chats, NewMessage(c) PROVE BatchInv' /\ HandlingInv'
  <2>1. /\ latest[c] \in Nat
        /\ latest' = [latest EXCEPT ![c] = latest[c] + 1]
        /\ history' = [history EXCEPT ![c] = history[c] \cup {latest[c] + 1}]
        /\ UNCHANGED <<current, position, batch, handling>>
    BY <1>2 DEF NewMessage, TypeOK
  <2>2. \A d \in Chats : latest[d] \in Nat /\ latest'[d] >= latest[d] /\ latest'[d] \in Nat
    BY <2>1 DEF TypeOK
  <2>3. \A d \in Chats : history[d] \subseteq 1 .. latest'[d]
    BY <2>2 DEF BatchInv
  <2>4. latest'[c] = latest[c] + 1
    BY <2>1 DEF TypeOK
  <2>5. \A d \in Chats : \A m \in history'[d] : m \in history[d] \/ (d = c /\ m = latest[c] + 1)
    BY <2>1 DEF TypeOK
  <2>6. \A d \in Chats : history'[d] \subseteq 1 .. latest'[d]
    BY <2>1, <2>3, <2>4, <2>5
  <2>7. ASSUME current' # NoChat PROVE
          /\ batch' \subseteq 1 .. latest'[current']
          /\ \A m \in history'[current'] \ batch' : m > position' => \A k \in batch' : k < m
    <3>1. current \in Chats /\ current # NoChat
      BY <2>1, <2>7 DEF TypeOK
    <3>2. batch \subseteq 1 .. latest[current]
      BY <3>1 DEF BatchInv
    <3>3. batch \subseteq 1 .. latest'[current]
      BY <2>2, <3>1, <3>2
    <3>4. ASSUME NEW m \in history'[current] \ batch, m > position, NEW k \in batch PROVE k < m
      <4>1. CASE m \in history[current]
        BY <3>1, <3>4, <4>1 DEF BatchInv
      <4>2. CASE m \notin history[current]
        BY <2>1, <2>5, <3>1, <3>2, <3>4, <4>2
      <4>3. QED
        BY <4>1, <4>2
    <3>5. QED
      BY <2>1, <3>3, <3>4
  <2>8. QED
    BY <2>1, <2>6, <2>7 DEF BatchInv, HandlingInv
<1>3. ASSUME NEW c \in Chats, NEW m \in history[c], DeleteMessage(c, m) PROVE BatchInv' /\ HandlingInv'
  <2>1. \A d \in Chats : history'[d] \subseteq history[d]
    BY <1>3 DEF DeleteMessage, TypeOK
  <2>2. UNCHANGED <<latest, current, position, batch, handling>>
    BY <1>3 DEF DeleteMessage
  <2>3. current # NoChat => current \in Chats
    BY DEF TypeOK
  <2>4. QED
    BY <2>1, <2>2, <2>3 DEF BatchInv, HandlingInv
<1>4. ASSUME NEW c \in Chats, NEW m \in Ids, NEW t \in EventTypes(c), CheckUpdate(c, m, t) PROVE BatchInv' /\ HandlingInv'
  <2>1. HandlingInv'
    BY <1>4 DEF CheckUpdate, HandlingInv
  <2>2. UNCHANGED <<history, latest, current, position, batch>>
    BY <1>4 DEF CheckUpdate
  <2>3. QED
    BY <2>1, <2>2 DEF BatchInv
<1>5. ASSUME NEW c \in Chats, NextChat(c) PROVE BatchInv' /\ HandlingInv'
  <2>1. batch' = {} /\ current' = c /\ UNCHANGED <<history, latest, handling>>
    BY <1>5 DEF NextChat, TypeOK
  <2>2. QED
    BY <2>1 DEF BatchInv, HandlingInv
<1>6. CASE FetchBatch
  <2>1. PICK S \in SUBSET After(current, position) :
          OldestOf(After(current, position), S) /\ batch' = S
    BY <1>6 DEF FetchBatch
  <2>2. current \in Chats /\ UNCHANGED <<history, latest, current, position, handling>>
    BY <1>6 DEF FetchBatch, TypeOK
  <2>3. batch' \subseteq 1 .. latest[current]
    BY <2>1, <2>2 DEF After, BatchInv
  <2>4. \A m \in history[current] \ batch' : m > position => \A k \in batch' : k < m
    BY <2>1 DEF After, OldestOf
  <2>5. QED
    BY <2>2, <2>3, <2>4 DEF BatchInv, HandlingInv
<1>7. CASE FinishChat \/ Stop
  <2>1. current' = NoChat /\ UNCHANGED <<history, latest>> /\ (handling' = handling \/ handling' = {})
    BY <1>7 DEF FinishChat, Stop
  <2>2. QED
    BY <2>1 DEF BatchInv, HandlingInv
<1>8. ASSUME NEW m \in Ids, SaveCaughtUp(m) PROVE BatchInv' /\ HandlingInv'
  <2>1. /\ current \in Chats /\ current # NoChat /\ m \in batch /\ batch' = batch \ {m}
        /\ position' = Larger(position, m) /\ position \in Nat /\ m \in Nat
        /\ UNCHANGED <<history, latest, current, handling>>
    BY <1>8, IdsAreNats DEF SaveCaughtUp, TypeOK
  <2>2. position' \in Nat /\ position' >= position /\ position' >= m
    BY <2>1, LargerType
  <2>3. history[current] \subseteq Nat
    BY <2>1, IdsAreNats DEF TypeOK
  <2>4. ASSUME NEW n \in history[current] \ batch', n > position', NEW k \in batch' PROVE k < n
    <3>1. n \in Nat /\ n # m /\ n > position
      BY <2>1, <2>2, <2>3, <2>4
    <3>2. n \in history[current] \ batch /\ k \in batch
      BY <2>1, <2>4, <3>1
    <3>3. QED
      BY <2>1, <3>1, <3>2 DEF BatchInv
  <2>5. batch' \subseteq 1 .. latest[current]
    BY <2>1 DEF BatchInv
  <2>6. HandlingInv' /\ \A c \in Chats : history'[c] \subseteq 1 .. latest'[c]
    BY <2>1 DEF BatchInv, HandlingInv
  <2>7. QED
    BY <2>1, <2>4, <2>5, <2>6 DEF BatchInv
<1>9. ASSUME NEW c \in Chats, NEW s \in {"none", "allow", "deny"}, SetPolicy(c, s)
      PROVE  BatchInv' /\ HandlingInv'
  BY <1>1, <1>9 DEF SetPolicy
<1>10. ASSUME NEW c \in Chats, NEW m \in Ids, SaveUpdate(c, m) PROVE BatchInv' /\ HandlingInv'
  BY <1>1, <1>10 DEF SaveUpdate
<1>11. ASSUME NEW c \in Chats, NEW m \in Ids, FailUpdate(c, m) PROVE BatchInv' /\ HandlingInv'
  BY <1>1, <1>11 DEF FailUpdate
<1>12. ASSUME NEW c \in Chats, BeginBackfill(c) PROVE BatchInv' /\ HandlingInv'
  BY <1>1, <1>12 DEF BeginBackfill
<1>13. CASE Start \/ FailBackfill
  BY <1>1, <1>13 DEF Start, FailBackfill
<1>14. ASSUME NEW a \in Ids, NEW b \in Ids, CommitBackfill(a, b) PROVE BatchInv' /\ HandlingInv'
  BY <1>1, <1>14 DEF CommitBackfill
<1>15. ASSUME NEW c \in Chats, NEW mode \in Modes, BeginIngest(c, mode) PROVE BatchInv' /\ HandlingInv'
  BY <1>1, <1>15 DEF BeginIngest
<1>16. CASE ReadIngest \/ CommitIngest \/ FailIngest
  BY <1>1, <1>16 DEF ReadIngest, CommitIngest, FailIngest
<1>17. CASE UNCHANGED vars
  BY <1>1, <1>17 DEF vars
<1>18. QED
  BY <1>2, <1>3, <1>4, <1>5, <1>6, <1>7, <1>8, <1>9, <1>10, <1>11, <1>12, <1>13, <1>14, <1>15,
     <1>16, <1>17 DEF Next, Telegram, Owner, Live, Fail, CatchUp, Batch, Archive, Ingestor

(* An empty batch, with a limit above 0, means nothing is left to read.    *)
LEMMA NothingLeft == ASSUME IngestLimit # 0, NothingNew PROVE After(current, position) = {}
BY FS_EmptySet DEF NothingNew, OldestOf

LEMMA CaughtUpStep ==
  ASSUME IngestLimit # 0, TypeOK, DownInv, BatchInv, HandlingInv, CaughtUpInv, [Next]_vars
  PROVE  CaughtUpInv'
<1> USE DEF telegramVars, catchUpVars, liveVars
<1>1. ASSUME UNCHANGED <<history, updates, handling, skipped, listed, chosen, todo, current, position, batch>>,
             \A c \in Chats : messages[c] \subseteq messages'[c]
      PROVE  CaughtUpInv'
  BY <1>1 DEF CaughtUpInv, Pending, Ahead, TypeOK
<1>2. ASSUME NEW c \in Chats, NewMessage(c) PROVE CaughtUpInv'
  <2>1. UNCHANGED <<messages, handling, skipped, listed, chosen, todo, current, position, batch>>
    BY <1>2 DEF NewMessage
  <2>2. updates' = updates \cup Dispatched(c, latest[c] + 1)
    BY <1>2 DEF NewMessage
  <2>3. \A d \in Chats : \A m \in history'[d] : m \in history[d] \/ (d = c /\ m = latest[c] + 1)
    BY <1>2 DEF NewMessage, TypeOK
  <2>4. chosen # {} => <<c, latest[c] + 1>> \in updates'
    BY <2>2 DEF Dispatched, DownInv
  <2>5. ASSUME NEW d \in chosen, NEW m \in history'[d], m > listed[d].cursor
        PROVE  m \in messages[d] \/ <<d, m>> \in updates' \cup handling \cup skipped \/ Ahead(d, m)
    <3>1. CASE m \in history[d]
      BY <2>2, <2>5, <3>1 DEF CaughtUpInv, Pending
    <3>2. CASE m \notin history[d]
      BY <2>3, <2>4, <2>5, <3>2 DEF TypeOK
    <3>3. QED
      BY <3>1, <3>2
  <2>6. QED
    BY <2>1, <2>5 DEF CaughtUpInv, Pending, Ahead
<1>3. ASSUME NEW c \in Chats, NEW n \in history[c], DeleteMessage(c, n) PROVE CaughtUpInv'
  <2>1. \A d \in Chats : history'[d] \subseteq history[d]
    BY <1>3 DEF DeleteMessage, TypeOK
  <2>2. UNCHANGED <<updates, messages, handling, skipped, listed, chosen, todo, current, position, batch>>
    BY <1>3 DEF DeleteMessage
  <2>3. QED
    BY <2>1, <2>2 DEF CaughtUpInv, Pending, Ahead, TypeOK
<1>4. CASE Start
  <2>1. chosen' = todo' /\ current' = NoChat /\ chosen' \subseteq Chats
    BY <1>4 DEF Start, DownInv, Covered
  <2>2. \A c \in chosen' : \A m : Ahead(c, m)'
    BY <2>1, IngestionAssumption DEF Ahead
  <2>3. QED
    BY <2>2 DEF CaughtUpInv
<1>5. ASSUME NEW c \in Chats, NEW n \in Ids, NEW t \in EventTypes(c), CheckUpdate(c, n, t) PROVE CaughtUpInv'
  <2>1. UNCHANGED <<history, messages, listed, chosen, todo, current, position, batch>>
    BY <1>5 DEF CheckUpdate
  <2>2. \A d, m : Pending(d, m) => Pending(d, m)'
    BY <1>5 DEF CheckUpdate, Pending
  <2>3. QED
    BY <2>1, <2>2 DEF CaughtUpInv, Ahead
<1>6. ASSUME NEW c \in Chats, NEW n \in Ids, SaveUpdate(c, n) PROVE CaughtUpInv'
  <2>1. UNCHANGED <<history, updates, skipped, listed, chosen, todo, current, position, batch>>
    BY <1>6 DEF SaveUpdate
  <2>2. handling = {<<c, n>>} /\ handling' = {}
    BY <1>6 DEF SaveUpdate, HandlingInv
  <2>3. n \in messages'[c] /\ \A d \in Chats : messages[d] \subseteq messages'[d]
    BY <1>6 DEF SaveUpdate, SaveMessage, TypeOK
  <2>4. \A d \in Chats, m \in Nat : Pending(d, m) => Pending(d, m)' \/ m \in messages'[d]
    BY <2>1, <2>2, <2>3 DEF Pending
  <2>5. \A d \in Chats : history[d] \subseteq Nat
    BY IdsAreNats DEF TypeOK
  <2>6. QED
    BY <2>1, <2>3, <2>4, <2>5 DEF CaughtUpInv, Ahead, TypeOK
<1>7. ASSUME NEW c \in Chats, NEW n \in Ids, FailUpdate(c, n) PROVE CaughtUpInv'
  <2>1. UNCHANGED <<history, updates, messages, listed, chosen, todo, current, position, batch>>
    BY <1>7 DEF FailUpdate
  <2>2. handling = {<<c, n>>} /\ skipped' = skipped \cup {<<c, n>>}
    BY <1>7 DEF FailUpdate, HandlingInv
  <2>3. \A d, m : Pending(d, m) => Pending(d, m)'
    BY <2>1, <2>2 DEF Pending
  <2>4. QED
    BY <2>1, <2>3 DEF CaughtUpInv, Ahead
<1>8. ASSUME NEW c \in Chats, NextChat(c) PROVE CaughtUpInv'
  <2>1. /\ UNCHANGED <<history, updates, handling, skipped, messages, listed, chosen, todo>>
        /\ current = NoChat /\ current' = c /\ position' = listed[c].cursor
    BY <1>8 DEF NextChat
  <2>2. \A d \in Chats : \A m : m > listed[d].cursor /\ Ahead(d, m) => Ahead(d, m)'
    BY <2>1 DEF Ahead
  <2>3. \A d, m : Pending(d, m) => Pending(d, m)'
    BY <2>1 DEF Pending
  <2>4. QED
    BY <2>1, <2>2, <2>3 DEF CaughtUpInv, TypeOK
<1>9. CASE FetchBatch
  <2>1. /\ UNCHANGED <<history, updates, handling, skipped, messages, listed, chosen, todo, current, position>>
        /\ batch = {}
    BY <1>9 DEF FetchBatch
  <2>2. \A d, m : (Ahead(d, m) => Ahead(d, m)') /\ (Pending(d, m) => Pending(d, m)')
    BY <2>1 DEF Ahead, Pending
  <2>3. QED
    BY <2>1, <2>2 DEF CaughtUpInv
<1>10. CASE FinishChat
  <2>1. /\ UNCHANGED <<history, updates, handling, skipped, messages, listed, chosen>>
        /\ batch = {} /\ todo' = todo \ {current} /\ current' = NoChat
    BY <1>10 DEF FinishChat
  <2>2. After(current, position) = {}
    BY <1>10, NothingLeft DEF FinishChat
  <2>3. \A d \in Chats : \A m \in history[d] : Ahead(d, m) => Ahead(d, m)'
    BY <2>1, <2>2, IngestionAssumption DEF Ahead, After
  <2>4. \A d, m : Pending(d, m) => Pending(d, m)'
    BY <2>1 DEF Pending
  <2>5. QED
    BY <2>1, <2>3, <2>4 DEF CaughtUpInv, TypeOK
<1>11. ASSUME NEW n \in Ids, SaveCaughtUp(n) PROVE CaughtUpInv'
  <2>1. /\ UNCHANGED <<history, updates, handling, skipped, listed, chosen, todo, current>>
        /\ n \in batch /\ (\A k \in batch : n <= k) /\ batch' = batch \ {n}
        /\ position' = Larger(position, n)
        /\ current \in Chats /\ current # NoChat /\ position \in Nat /\ n \in Nat
    BY <1>11, IdsAreNats DEF SaveCaughtUp, TypeOK
  <2>2. n \in messages'[current] /\ \A d \in Chats : messages[d] \subseteq messages'[d]
    BY <1>11, <2>1 DEF SaveCaughtUp, SaveMessage, TypeOK
  <2>3. position' \in {position, n}
    BY <2>1, LargerType
  <2>4. \A d \in Chats : history[d] \subseteq Nat
    BY IdsAreNats DEF TypeOK
  <2>5. ASSUME NEW d \in Chats, NEW m \in history[d], Ahead(d, m) PROVE Ahead(d, m)' \/ m \in messages'[d]
    <3>1. CASE d # current \/ m \in batch
      BY <2>1, <2>2, <2>5, <3>1 DEF Ahead
    <3>2. CASE d = current /\ m \notin batch
      <4>1. m > position /\ n < m
        BY <2>1, <2>5, <3>2 DEF Ahead, BatchInv
      <4>2. QED
        BY <2>1, <2>3, <2>5, <4>1 DEF Ahead
    <3>3. QED
      BY <3>1, <3>2
  <2>6. \A d, m : Pending(d, m) => Pending(d, m)'
    BY <2>1 DEF Pending
  <2>7. QED
    BY <2>1, <2>2, <2>5, <2>6 DEF CaughtUpInv, TypeOK
<1>12. CASE Stop
  BY <1>12 DEF Stop, CaughtUpInv
<1>13. ASSUME NEW c \in Chats, NEW s \in {"none", "allow", "deny"}, SetPolicy(c, s) PROVE CaughtUpInv'
  BY <1>1, <1>13 DEF SetPolicy
<1>14. ASSUME NEW c \in Chats, BeginBackfill(c) PROVE CaughtUpInv'
  BY <1>1, <1>14 DEF BeginBackfill
<1>15. ASSUME NEW a \in Ids, NEW b \in Ids, CommitBackfill(a, b) PROVE CaughtUpInv'
  BY <1>1, <1>15 DEF CommitBackfill, TypeOK
<1>16. CASE FailBackfill \/ ReadIngest \/ FailIngest
  BY <1>1, <1>16 DEF FailBackfill, ReadIngest, FailIngest
<1>17. ASSUME NEW c \in Chats, NEW mode \in Modes, BeginIngest(c, mode) PROVE CaughtUpInv'
  BY <1>1, <1>17 DEF BeginIngest
<1>18. CASE CommitIngest
  BY <1>1, <1>18 DEF CommitIngest, TypeOK
<1>19. CASE UNCHANGED vars
  BY <1>1, <1>19 DEF vars
<1>20. QED
  BY <1>2, <1>3, <1>4, <1>5, <1>6, <1>7, <1>8, <1>9, <1>10, <1>11, <1>12, <1>13, <1>14, <1>15,
     <1>16, <1>17, <1>18, <1>19 DEF Next, Telegram, Owner, Live, Fail, CatchUp, Batch, Archive, Ingestor

-----------------------------------------------------------------------------
(* The inductive invariant.                                                *)

LEMMA InvInit == Init => IInv
<1> SUFFICES ASSUME Init PROVE IInv
  OBVIOUS
<1>1. TypeOK
  BY TypeInit
<1>2. DownInv /\ HandlingInv /\ CaughtUpInv /\ KindInv /\ PermitInv /\ IngestInv
  BY DEF Init, DownInv, HandlingInv, CaughtUpInv, KindInv, PermitInv, IngestInv, NoRow, NoIngest
<1>3. BatchInv
  BY DEF Init, BatchInv
<1>4. QED
  BY <1>1, <1>2, <1>3 DEF IInv

LEMMA InvStep == IInv /\ [Next]_vars => IInv'
BY TypeStep, BatchStep, CaughtUpStep, KindStep, PermitStep, IngestStep DEF IInv

THEOREM InvHolds == Spec => []IInv
<1>1. QED
  BY InvInit, InvStep, PTL DEF Spec

(* Tables, cursors, batches and open transactions keep their types through *)
(* every step of the listener, the ingestor, the bot and Telegram.         *)
THEOREM TypeCorrect == Spec => []TypeOK
<1>1. IInv => TypeOK
  BY DEF IInv
<1>2. QED
  BY <1>1, InvHolds, PTL

(* Between startup catch-up (_catch_up_chat) and the live handler no       *)
(* message is missed, as long as TELEGRAM_INGEST_LIMIT is above 0.         *)
THEOREM NothingMissedHolds == ASSUME IngestLimit # 0 PROVE Spec => []NothingMissed
<1>1. IInv => NothingMissed
  BY DEF IInv, CaughtUpInv, NothingMissed, Ahead
<1>2. QED
  BY <1>1, InvHolds, PTL

(* update_ingestion_state, whoever calls it, moves the cursor forward, and *)
(* over unarchived messages only for start_now.                            *)
THEOREM CursorForward == Spec => CursorNeverRewinds
<1> DEFINE Forward(c) ==
      rows'[c].cursor # rows[c].cursor =>
        /\ rows'[c].cursor > rows[c].cursor
        /\ rows'[c].cursor \in messages'[c] \/ ingest.mode = "start_now"
<1>1. ASSUME IInv, [Next]_vars PROVE \A c \in Chats : Forward(c)
  <2> USE DEF catchUpVars
  <2>1. ASSUME rows' = rows PROVE \A c \in Chats : Forward(c)
    BY <2>1
  <2>2. ASSUME NEW c \in Chats, NEW m \in Ids, NEW t, SaveMessage(c, m, t) PROVE \A d \in Chats : Forward(d)
    <3>1. rows[c].cursor \in Nat /\ m \in Nat
      BY <1>1, IdsAreNats DEF IInv, TypeOK, Rows
    <3>2. Larger(rows[c].cursor, m) >= rows[c].cursor /\ Larger(rows[c].cursor, m) \in {rows[c].cursor, m}
      BY <3>1, LargerType
    <3>3. rows'[c].cursor = Larger(rows[c].cursor, m) /\ m \in messages'[c]
      BY <1>1, <2>2 DEF SaveMessage, IInv, TypeOK
    <3>4. \A d \in Chats \ {c} : rows'[d] = rows[d]
      BY <1>1, <2>2 DEF SaveMessage, IInv, TypeOK
    <3>5. QED
      BY <3>1, <3>2, <3>3, <3>4
  <2>3. ASSUME NEW c \in Chats, NEW m \in Ids, SaveUpdate(c, m) PROVE \A d \in Chats : Forward(d)
    BY <2>2, <2>3 DEF SaveUpdate
  <2>4. ASSUME NEW m \in Ids, SaveCaughtUp(m) PROVE \A d \in Chats : Forward(d)
    <3>1. current \in Chats
      BY <1>1, <2>4 DEF SaveCaughtUp, IInv, TypeOK
    <3>2. QED
      BY <2>2, <2>4, <3>1 DEF SaveCaughtUp
  <2>5. ASSUME NEW a \in Ids, NEW b \in Ids, CommitBackfill(a, b) PROVE \A d \in Chats : Forward(d)
    <3>1. rows' = [rows EXCEPT ![backfilling].type = "unknown"]
      BY <2>5 DEF CommitBackfill
    <3>2. \A c \in Chats : rows'[c].cursor = rows[c].cursor
      BY <1>1, <3>1 DEF IInv, TypeOK, Rows
    <3>3. QED
      BY <3>2
  <2>6. CASE CommitIngest
    <3>1. /\ rows' = [rows EXCEPT ![ingest.chat] = [type |-> "unknown", cursor |-> ingest.to]]
          /\ messages' = [messages EXCEPT ![ingest.chat] = @ \cup ingest.got]
          /\ ingest.chat \in Chats /\ ingest.stage # "off"
      BY <1>1, <2>6 DEF CommitIngest, IInv, TypeOK
    <3>2. rows'[ingest.chat].cursor = ingest.to /\ ingest.got \subseteq messages'[ingest.chat]
      BY <1>1, <3>1 DEF IInv, TypeOK
    <3>3. \A d \in Chats \ {ingest.chat} : rows'[d] = rows[d]
      BY <1>1, <3>1 DEF IInv, TypeOK
    <3>4. ingest.to \in Nat /\ rows[ingest.chat].cursor \in Nat
      BY <1>1, <3>1 DEF IInv, TypeOK, Rows, Ingests
    <3>5. QED
      BY <1>1, <3>1, <3>2, <3>3, <3>4 DEF IInv, IngestInv
  <2>7. CASE Telegram
    BY <2>1, <2>7 DEF Telegram, NewMessage, DeleteMessage
  <2>8. CASE Owner \/ Fail \/ Stop \/ Start
    BY <2>1, <2>8 DEF Owner, SetPolicy, Fail, FailUpdate, Stop, Start
  <2>9. ASSUME NEW c \in Chats, NEW m \in Ids, NEW t \in EventTypes(c), CheckUpdate(c, m, t) PROVE \A d \in Chats : Forward(d)
    BY <2>1, <2>9 DEF CheckUpdate
  <2>10. ASSUME NEW c \in Chats, NextChat(c) \/ BeginBackfill(c) PROVE \A d \in Chats : Forward(d)
    BY <2>1, <2>10 DEF NextChat, BeginBackfill
  <2>11. CASE FetchBatch \/ FinishChat \/ FailBackfill
    BY <2>1, <2>11 DEF FetchBatch, FinishChat, FailBackfill
  <2>12. ASSUME NEW c \in Chats, NEW mode \in Modes, BeginIngest(c, mode) PROVE \A d \in Chats : Forward(d)
    BY <2>1, <2>12 DEF BeginIngest
  <2>13. CASE ReadIngest \/ FailIngest
    BY <2>1, <2>13 DEF ReadIngest, FailIngest
  <2>14. CASE UNCHANGED vars
    BY <2>1, <2>14 DEF vars
  <2>15. QED
    BY <1>1, <2>3, <2>4, <2>5, <2>6, <2>7, <2>8, <2>9, <2>10, <2>11, <2>12, <2>13, <2>14
       DEF Next, Live, CatchUp, Batch, Archive, Ingestor
<1>2. QED
  BY <1>1, InvHolds, PTL DEF Spec, CursorNeverRewinds

(* Neither the handler nor catch-up stores a message of a chat that has    *)
(* been denied since the process started.                                  *)
THEOREM DeniedUnread == Spec => DeniedStaysUnread
<1> DEFINE Unread(c) ==
      messages'[c] # messages[c] /\ ~Imported => c \in permitted /\ c \notin BaseDenied
<1>1. ASSUME IInv, [Next]_vars PROVE \A c \in Chats : Unread(c)
  <2> USE DEF catchUpVars, telegramVars, transactions, Imported
  <2>1. ASSUME messages' = messages \/ transactions' # transactions PROVE \A c \in Chats : Unread(c)
    BY <2>1
  <2>2. ASSUME NEW c \in Chats, NEW m \in Ids, NEW t, SaveMessage(c, m, t), c \in permitted \ BaseDenied
        PROVE  \A d \in Chats : Unread(d)
    <3>1. \A d \in Chats \ {c} : messages'[d] = messages[d]
      BY <1>1, <2>2 DEF SaveMessage, IInv, TypeOK
    <3>2. QED
      BY <2>2, <3>1
  <2>3. ASSUME NEW c \in Chats, NEW m \in Ids, SaveUpdate(c, m) PROVE \A d \in Chats : Unread(d)
    <3>1. c \in permitted \ BaseDenied
      BY <1>1, <2>3 DEF SaveUpdate, IInv, PermitInv
    <3>2. QED
      BY <2>2, <2>3, <3>1 DEF SaveUpdate
  <2>4. ASSUME NEW m \in Ids, SaveCaughtUp(m) PROVE \A d \in Chats : Unread(d)
    <3>1. current \in Chats /\ current \in chosen
      BY <1>1, <2>4 DEF SaveCaughtUp, IInv, TypeOK
    <3>2. current \in permitted \ BaseDenied
      BY <1>1, <3>1 DEF IInv, PermitInv
    <3>3. QED
      BY <2>2, <2>4, <3>1, <3>2 DEF SaveCaughtUp
  <2>5. ASSUME NEW a \in Ids, NEW b \in Ids, CommitBackfill(a, b) PROVE \A d \in Chats : Unread(d)
    BY <2>1, <2>5 DEF CommitBackfill
  <2>6. CASE CommitIngest
    <3>1. ingest' # ingest
      BY <2>6 DEF CommitIngest, NoIngest
    <3>2. QED
      BY <2>1, <3>1
  <2>7. CASE Telegram
    BY <2>1, <2>7 DEF Telegram, NewMessage, DeleteMessage
  <2>8. CASE Owner \/ Fail \/ Stop \/ Start
    BY <2>1, <2>8 DEF Owner, SetPolicy, Fail, FailUpdate, Stop, Start
  <2>9. ASSUME NEW c \in Chats, NEW m \in Ids, NEW t \in EventTypes(c), CheckUpdate(c, m, t) PROVE \A d \in Chats : Unread(d)
    BY <2>1, <2>9 DEF CheckUpdate
  <2>10. ASSUME NEW c \in Chats, NextChat(c) \/ BeginBackfill(c) PROVE \A d \in Chats : Unread(d)
    BY <2>1, <2>10 DEF NextChat, BeginBackfill
  <2>11. CASE FetchBatch \/ FinishChat \/ FailBackfill
    BY <2>1, <2>11 DEF FetchBatch, FinishChat, FailBackfill
  <2>12. ASSUME NEW c \in Chats, NEW mode \in Modes, BeginIngest(c, mode) PROVE \A d \in Chats : Unread(d)
    BY <2>1, <2>12 DEF BeginIngest
  <2>13. CASE ReadIngest \/ FailIngest
    BY <2>1, <2>13 DEF ReadIngest, FailIngest
  <2>14. CASE UNCHANGED vars
    BY <2>1, <2>14 DEF vars
  <2>15. QED
    BY <1>1, <2>3, <2>4, <2>5, <2>6, <2>7, <2>8, <2>9, <2>10, <2>11, <2>12, <2>13, <2>14
       DEF Next, Live, CatchUp, Batch, Archive, Ingestor
<1>2. QED
  BY <1>1, InvHolds, PTL DEF Spec, DeniedStaysUnread

-----------------------------------------------------------------------------
(* What a step can do to the archive, to the cursors and to those who are  *)
(* about to write them.                                                    *)

(* Nothing is written, and nobody comes to hold more than before.          *)
Quiet ==
  /\ UNCHANGED <<history, latest, messages, rows, listed, ingests, backfills>>
  /\ updates' \cup handling' \subseteq updates \cup handling
  /\ chosen' \subseteq chosen
  /\ current' = NoChat \/ (current' = current /\ position' = position)
  /\ ingest' = ingest \/ ingest' = NoIngest
  /\ backfilling' = backfilling \/ backfilling' = NoChat
  /\ up' => up

LEMMA StepKinds ==
  ASSUME TypeOK, [Next]_vars
  PROVE  \/ \E c \in Chats : NewMessage(c) \/ NextChat(c) \/ BeginBackfill(c)
         \/ \E c \in Chats : \E m \in history[c] : DeleteMessage(c, m)
         \/ \E c \in Chats, m \in Ids : SaveUpdate(c, m)
         \/ \E m \in Ids : SaveCaughtUp(m)
         \/ \E a, b \in Ids : CommitBackfill(a, b)
         \/ \E c \in Chats, mode \in Modes : BeginIngest(c, mode)
         \/ Start \/ ReadIngest \/ CommitIngest
         \/ Quiet
<1> USE DEF telegramVars, catchUpVars, liveVars, transactions, boundVars, Quiet
<1>1. ASSUME NEW c \in Chats, NEW s \in {"none", "allow", "deny"}, SetPolicy(c, s) PROVE Quiet
  BY <1>1 DEF SetPolicy
<1>2. ASSUME NEW c \in Chats, NEW m \in Ids, NEW t \in EventTypes(c), CheckUpdate(c, m, t) PROVE Quiet
  BY <1>2 DEF CheckUpdate
<1>3. ASSUME NEW c \in Chats, NEW m \in Ids, FailUpdate(c, m) PROVE Quiet
  BY <1>3 DEF FailUpdate
<1>4. CASE FetchBatch \/ FinishChat
  BY <1>4 DEF FetchBatch, FinishChat
<1>5. CASE Stop
  BY <1>5 DEF Stop
<1>6. CASE FailBackfill \/ FailIngest
  BY <1>6 DEF FailBackfill, FailIngest
<1>7. CASE UNCHANGED vars
  BY <1>7 DEF vars
<1>8. QED
  BY <1>1, <1>2, <1>3, <1>4, <1>5, <1>6, <1>7
     DEF Next, Telegram, Owner, Live, Fail, CatchUp, Archive, Batch, Ingestor

(* Everything any writer holds exists in Telegram.                         *)
ExistInv ==
  /\ NewIsAhead
  /\ \A c \in Chats : listed[c].cursor <= latest[c]
  /\ \A c \in Chats, m \in Ids : <<c, m>> \in updates \cup handling => m <= latest[c]
  /\ ingest.stage # "off" =>
       /\ ingest.got \subseteq 1 .. latest[ingest.chat] /\ ingest.to <= latest[ingest.chat]
       /\ ingest.mode = "start_now" => ingest.got = {}
  /\ current # NoChat => position <= latest[current]

LEMMA SaveFacts ==
  ASSUME TypeOK, NEW c \in Chats, NEW m \in Ids, NEW t, SaveMessage(c, m, t)
  PROVE  /\ messages' = [messages EXCEPT ![c] = @ \cup {m}]
         /\ \A d \in Chats : messages[d] \subseteq messages'[d]
         /\ \A d \in Chats \ {c} : messages'[d] = messages[d] /\ rows'[d] = rows[d]
         /\ m \in messages'[c] /\ messages'[c] = messages[c] \cup {m}
         /\ rows'[c].type = t /\ rows'[c].cursor \in {rows[c].cursor, m} /\ rows'[c].cursor >= rows[c].cursor
         /\ rows'[c].cursor >= m
<1>1. rows[c].cursor \in Nat /\ m \in Nat
  BY IdsAreNats DEF TypeOK, Rows
<1>2. Larger(rows[c].cursor, m) >= rows[c].cursor /\ Larger(rows[c].cursor, m) \in {rows[c].cursor, m}
      /\ Larger(rows[c].cursor, m) >= m
  BY <1>1, LargerType
<1>3. rows'[c].cursor = Larger(rows[c].cursor, m) /\ rows'[c].type = t
  BY DEF SaveMessage, TypeOK
<1>4. QED
  BY <1>2, <1>3 DEF SaveMessage, TypeOK

LEMMA CommitIngestFacts ==
  ASSUME TypeOK, CommitIngest
  PROVE  /\ ingest.chat \in Chats /\ ingest.stage # "off"
         /\ messages' = [messages EXCEPT ![ingest.chat] = @ \cup ingest.got]
         /\ messages'[ingest.chat] = messages[ingest.chat] \cup ingest.got
         /\ rows'[ingest.chat].cursor = ingest.to /\ rows'[ingest.chat].type = "unknown"
         /\ \A d \in Chats \ {ingest.chat} : messages'[d] = messages[d] /\ rows'[d] = rows[d]
         /\ \A d \in Chats : messages[d] \subseteq messages'[d]
<1>1. ingest.chat \in Chats /\ ingest.stage # "off"
  BY DEF CommitIngest, TypeOK
<1>2. QED
  BY <1>1 DEF CommitIngest, TypeOK

LEMMA CommitBackfillFacts ==
  ASSUME TypeOK, BatchInv, NEW a \in Ids, NEW b \in Ids, CommitBackfill(a, b)
  PROVE  \E S \in SUBSET (1 .. latest[backfilling]) :
           /\ backfilling \in Chats
           /\ messages' = [messages EXCEPT ![backfilling] = @ \cup S]
           /\ messages'[backfilling] = messages[backfilling] \cup S
           /\ \A d \in Chats : rows'[d].cursor = rows[d].cursor
           /\ \A d \in Chats \ {backfilling} : messages'[d] = messages[d]
           /\ \A d \in Chats : messages[d] \subseteq messages'[d]
<1> DEFINE S == {m \in history[backfilling] : a <= m /\ m <= b}
<1>1. backfilling \in Chats
  BY DEF CommitBackfill, TypeOK
<1>2. S \subseteq 1 .. latest[backfilling]
  BY <1>1 DEF BatchInv
<1>3. messages' = [messages EXCEPT ![backfilling] = @ \cup S] /\ rows' = [rows EXCEPT ![backfilling].type = "unknown"]
  BY DEF CommitBackfill
<1>4. \A d \in Chats : rows'[d].cursor = rows[d].cursor
  BY <1>3 DEF TypeOK, Rows
<1> HIDE DEF S
<1>5. QED
  BY <1>1, <1>2, <1>3, <1>4 DEF TypeOK

(* The ingestor reads what exists, and no message at all for start_now.    *)
LEMMA ReadExists ==
  ASSUME TypeOK, BatchInv, IngestInv, ExistInv, ReadIngest
  PROVE  \E S \in SUBSET (1 .. latest[ingest.chat]), top \in Nat :
           /\ ingest' = [ingest EXCEPT !.stage = "read", !.got = S, !.to = top]
           /\ top <= latest[ingest.chat]
           /\ ingest.mode = "start_now" => S = {}
<1>1. /\ ingest \in Ingests /\ ingest.chat \in Chats /\ ingest.from \in Nat
      /\ ingest.stage = "open" /\ ingest.stage # "off"
  BY DEF TypeOK, ReadIngest, Ingests
<1>2. history[ingest.chat] \subseteq 1 .. latest[ingest.chat] /\ latest[ingest.chat] \in Nat
  BY <1>1 DEF BatchInv, TypeOK
<1>3. ingest.from <= latest[ingest.chat]
  BY <1>1 DEF IngestInv, ExistInv, NewIsAhead
<1>4. CASE ingest.mode = "start_now"
  <2>1. PICK top \in history[ingest.chat] \cup {0} :
          ingest' = [ingest EXCEPT !.stage = "read", !.to = Larger(ingest.from, top)]
    BY <1>4 DEF ReadIngest, SkipBacklog
  <2>2. top \in Nat /\ top <= latest[ingest.chat]
    BY <1>2, <2>1
  <2>3. Larger(ingest.from, top) \in Nat /\ Larger(ingest.from, top) \in {ingest.from, top}
    BY <1>1, <2>2, LargerType
  <2>4. PICK n \in Nat : n = Larger(ingest.from, top) /\ n <= latest[ingest.chat]
    BY <1>3, <2>2, <2>3
  <2>5. ingest.got = {}
    BY <1>1, <1>4 DEF ExistInv
  <2>6. ingest' = [ingest EXCEPT !.stage = "read", !.got = {}, !.to = n]
    BY <1>1, <2>1, <2>4, <2>5 DEF Ingests
  <2>7. QED
    BY <2>4, <2>6
<1>5. CASE ingest.mode # "start_now"
  <2>1. PICK S \in SUBSET history[ingest.chat], since \in Ids : ReadNewMessages(S, since)
    BY <1>5 DEF ReadIngest
  <2>2. PICK top \in S \cup {ingest.from} :
          ingest' = [ingest EXCEPT !.stage = "read", !.got = S, !.to = top]
    BY <2>1 DEF ReadNewMessages
  <2>3. S \in SUBSET (1 .. latest[ingest.chat])
    BY <1>2, <2>1
  <2>4. top \in Nat /\ top <= latest[ingest.chat]
    BY <1>1, <1>2, <1>3, <2>2, <2>3
  <2>5. QED
    BY <1>5, <2>2, <2>3, <2>4
<1>6. QED
  BY <1>4, <1>5

LEMMA ExistInit == Init => ExistInv
BY DEF Init, ExistInv, NewIsAhead, NoRow, NoIngest

LEMMA ExistStep == IInv /\ ExistInv /\ [Next]_vars => ExistInv'
<1> SUFFICES ASSUME IInv, ExistInv, [Next]_vars PROVE ExistInv'
  OBVIOUS
<1> USE DEF telegramVars, catchUpVars, liveVars, transactions
<1>0. /\ TypeOK /\ DownInv /\ BatchInv /\ IngestInv
      /\ \A c \in Chats : latest[c] \in Nat /\ rows[c].cursor \in Nat /\ listed[c].cursor \in Nat
  BY DEF IInv, TypeOK, Rows
<1>1. ASSUME UNCHANGED <<latest, messages, rows, listed>>,
             updates' \cup handling' \subseteq updates \cup handling,
             ingest' = ingest \/ ingest'.stage = "off",
             current' = NoChat \/ (current' = current /\ position' = position)
      PROVE  ExistInv'
  BY <1>1 DEF ExistInv, NewIsAhead
<1>2. ASSUME NEW c \in Chats, NewMessage(c) PROVE ExistInv'
  <2>1. /\ latest' = [latest EXCEPT ![c] = latest[c] + 1]
        /\ UNCHANGED <<messages, rows, listed, handling, ingest, current, position>>
        /\ updates' \subseteq updates \cup {<<c, latest[c] + 1>>}
    BY <1>2 DEF NewMessage, Dispatched
  <2>2. /\ \A d \in Chats : latest'[d] \in Nat /\ latest[d] <= latest'[d]
        /\ latest'[c] = latest[c] + 1
    BY <1>0, <2>1 DEF TypeOK
  <2>3. \A d \in Chats : 1 .. latest[d] \subseteq 1 .. latest'[d]
    BY <1>0, <2>2
  <2>4. NewIsAhead' /\ \A d \in Chats : listed'[d].cursor <= latest'[d]
    BY <1>0, <2>1, <2>2, <2>3 DEF ExistInv, NewIsAhead
  <2>5. ASSUME NEW d \in Chats, NEW m \in Ids, <<d, m>> \in updates' \cup handling' PROVE m <= latest'[d]
    BY <1>0, <2>1, <2>2, <2>5, IdsAreNats DEF ExistInv
  <2>6. ingest.stage # "off" => ingest.chat \in Chats /\ ingest.to \in Nat
    BY <1>0 DEF TypeOK, Ingests
  <2>7. current # NoChat => current \in Chats /\ position \in Nat
    BY <1>0 DEF TypeOK
  <2>8. QED
    BY <1>0, <2>1, <2>2, <2>3, <2>4, <2>5, <2>6, <2>7 DEF ExistInv
<1>3. ASSUME NEW c \in Chats, NEW m \in Ids, NEW t, SaveMessage(c, m, t), m <= latest[c],
             RowsFree, UNCHANGED <<latest, updates, listed, ingest, current>>, handling' \subseteq handling,
             current # NoChat => position' <= latest[current]
      PROVE  ExistInv'
  <2>1. m \in 1 .. latest[c]
    BY <1>0, <1>3, IdsAreNats
  <2>2. NewIsAhead'
    BY <1>0, <1>3, <2>1, SaveFacts DEF ExistInv, NewIsAhead
  <2>3. QED
    BY <1>3, <2>2 DEF ExistInv, RowsFree
<1>4. ASSUME NEW c \in Chats, NEW m \in Ids, SaveUpdate(c, m) PROVE ExistInv'
  <2>1. m <= latest[c]
    BY <1>4 DEF SaveUpdate, ExistInv
  <2>2. QED
    BY <1>3, <1>4, <2>1 DEF SaveUpdate, ExistInv
<1>5. ASSUME NEW m \in Ids, SaveCaughtUp(m) PROVE ExistInv'
  <2>1. current \in Chats /\ current # NoChat /\ m \in batch /\ position \in Nat /\ m \in Nat
    BY <1>0, <1>5, IdsAreNats DEF SaveCaughtUp, TypeOK
  <2>2. m <= latest[current] /\ position <= latest[current]
    BY <2>1, <1>0 DEF BatchInv, ExistInv
  <2>3. position' \in {position, m}
    BY <1>5, <2>1, LargerType DEF SaveCaughtUp
  <2>4. QED
    BY <1>3, <1>5, <2>1, <2>2, <2>3 DEF SaveCaughtUp
<1>6. ASSUME NEW a \in Ids, NEW b \in Ids, CommitBackfill(a, b) PROVE ExistInv'
  <2>1. PICK S \in SUBSET (1 .. latest[backfilling]) :
           /\ backfilling \in Chats
           /\ messages'[backfilling] = messages[backfilling] \cup S
           /\ \A d \in Chats : rows'[d].cursor = rows[d].cursor
           /\ \A d \in Chats \ {backfilling} : messages'[d] = messages[d]
    BY <1>0, <1>6, CommitBackfillFacts
  <2>2. UNCHANGED <<latest, updates, handling, listed, ingest, current, position>>
    BY <1>6 DEF CommitBackfill
  <2>3. NewIsAhead'
    BY <2>1, <2>2 DEF ExistInv, NewIsAhead
  <2>4. QED
    BY <2>2, <2>3 DEF ExistInv
<1>7. CASE CommitIngest
  <2>1. /\ UNCHANGED <<latest, updates, handling, listed, current, position>> /\ ingest' = NoIngest
    BY <1>7 DEF CommitIngest
  <2>2. NewIsAhead'
    BY <1>0, <1>7, <2>1, CommitIngestFacts DEF ExistInv, NewIsAhead
  <2>3. QED
    BY <2>1, <2>2 DEF ExistInv, NoIngest
<1>8. ASSUME NEW c \in Chats, NEW mode \in Modes, BeginIngest(c, mode) PROVE ExistInv'
  <2>1. /\ UNCHANGED <<latest, messages, rows, updates, handling, listed, current, position>>
        /\ ingest' = [NoIngest EXCEPT !.stage = "open", !.chat = c, !.mode = mode,
                                      !.from = rows[c].cursor, !.to = rows[c].cursor]
    BY <1>8 DEF BeginIngest
  <2>2. ingest'.got = {} /\ ingest'.to = rows[c].cursor /\ ingest'.chat = c
    BY <2>1 DEF NoIngest
  <2>3. QED
    BY <2>1, <2>2 DEF ExistInv, NewIsAhead
<1>9. CASE ReadIngest
  <2>1. PICK S \in SUBSET (1 .. latest[ingest.chat]), top \in Nat :
           /\ ingest' = [ingest EXCEPT !.stage = "read", !.got = S, !.to = top]
           /\ top <= latest[ingest.chat]
           /\ ingest.mode = "start_now" => S = {}
    BY <1>0, <1>9, ReadExists
  <2>2. /\ ingest'.got = S /\ ingest'.to = top /\ ingest'.chat = ingest.chat
        /\ ingest'.mode = ingest.mode
    BY <1>0, <2>1 DEF TypeOK, Ingests
  <2>3. UNCHANGED <<latest, messages, rows, updates, handling, listed, current, position>>
    BY <1>9 DEF ReadIngest
  <2>4. QED
    BY <2>1, <2>2, <2>3 DEF ExistInv, NewIsAhead
<1>10. CASE Start
  <2>1. /\ UNCHANGED <<latest, messages, rows, updates, handling, ingest, current, position>>
        /\ listed' = rows
    BY <1>10 DEF Start
  <2>2. QED
    BY <2>1 DEF ExistInv, NewIsAhead
<1>11. ASSUME NEW c \in Chats, NextChat(c) PROVE ExistInv'
  <2>1. /\ UNCHANGED <<latest, messages, rows, updates, handling, ingest, listed>>
        /\ current' = c /\ position' = listed[c].cursor
    BY <1>11 DEF NextChat
  <2>2. QED
    BY <2>1 DEF ExistInv, NewIsAhead
<1>12. ASSUME NEW c \in Chats, BeginBackfill(c) PROVE ExistInv'
  BY <1>1, <1>12 DEF BeginBackfill
<1>13. ASSUME NEW c \in Chats, NEW m \in history[c], DeleteMessage(c, m) PROVE ExistInv'
  BY <1>1, <1>13 DEF DeleteMessage
<1>14. CASE Quiet
  BY <1>1, <1>14 DEF Quiet, NoIngest
<1>15. QED
  BY <1>0, <1>2, <1>4, <1>5, <1>6, <1>7, <1>8, <1>9, <1>10, <1>11, <1>12, <1>13, <1>14, StepKinds

LEMMA ExistHolds == Spec => []ExistInv
<1>1. QED
  BY ExistInit, ExistStep, InvHolds, PTL DEF Spec

(* Whoever stores a message (save_normalized_message), it exists, and no   *)
(* writer of the cursor (update_ingestion_state) runs ahead of Telegram.   *)
THEOREM NothingAhead == Spec => []NewIsAhead
<1>1. ExistInv => NewIsAhead
  BY DEF ExistInv
<1>2. QED
  BY <1>1, ExistHolds, PTL

(* Catch-up leaves no hole behind its position: of a batch it saves the    *)
(* oldest message first, and the batch holds the oldest there are.         *)
LEMMA GapStep ==
  IInv /\ ExistInv /\ CatchUpLeavesNoGap /\ [Next]_vars => CatchUpLeavesNoGap'
<1> SUFFICES ASSUME IInv, ExistInv, CatchUpLeavesNoGap, [Next]_vars PROVE CatchUpLeavesNoGap'
  OBVIOUS
<1> USE DEF telegramVars, catchUpVars
<1>0. TypeOK /\ DownInv /\ BatchInv /\ \A c \in Chats : history[c] \subseteq Nat
  BY IdsAreNats DEF IInv, TypeOK
<1>1. ASSUME \A c \in Chats : history'[c] \subseteq history[c] /\ messages[c] \subseteq messages'[c],
             listed' = listed, current' = NoChat \/ (current' = current /\ position' = position)
      PROVE  CatchUpLeavesNoGap'
  BY <1>0, <1>1 DEF CatchUpLeavesNoGap, TypeOK
<1>2. ASSUME NEW c \in Chats, NewMessage(c) PROVE CatchUpLeavesNoGap'
  <2>1. UNCHANGED <<messages, listed, current, position>>
    BY <1>2 DEF NewMessage
  <2>2. \A d \in Chats : \A m \in history'[d] : m \in history[d] \/ m = latest[d] + 1
    BY <1>0, <1>2 DEF NewMessage, TypeOK
  <2>3. current # NoChat => current \in Chats /\ position <= latest[current] /\ latest[current] \in Nat
                            /\ position \in Nat
    BY <1>0 DEF TypeOK, ExistInv
  <2>4. QED
    BY <2>1, <2>2, <2>3 DEF CatchUpLeavesNoGap
<1>3. ASSUME NEW m \in Ids, SaveCaughtUp(m) PROVE CatchUpLeavesNoGap'
  <2>1. /\ current \in Chats /\ current # NoChat /\ position \in Nat /\ m \in Nat
        /\ m \in batch /\ \A k \in batch : m <= k
        /\ position' = Larger(position, m) /\ UNCHANGED <<history, listed, current>>
    BY <1>0, <1>3, IdsAreNats DEF SaveCaughtUp, TypeOK
  <2>2. position' \in {position, m}
    BY <2>1, LargerType
  <2>3. m \in messages'[current] /\ messages[current] \subseteq messages'[current]
    BY <1>0, <1>3, <2>1, SaveFacts DEF SaveCaughtUp
  <2>4. ASSUME NEW n \in history[current], listed[current].cursor < n, n <= position'
        PROVE  n \in messages'[current]
    <3>1. CASE n <= position
      BY <2>1, <2>3, <2>4, <3>1 DEF CatchUpLeavesNoGap
    <3>2. CASE ~(n <= position)
      <4>1. n \in Nat /\ n > position /\ n <= m
        BY <1>0, <2>1, <2>2, <2>4, <3>2
      <4>2. n \in batch
        BY <2>1, <2>4, <4>1, <1>0 DEF BatchInv
      <4>3. n = m
        BY <2>1, <4>1, <4>2
      <4>4. QED
        BY <2>3, <4>3
    <3>3. QED
      BY <3>1, <3>2
  <2>5. QED
    BY <2>1, <2>4 DEF CatchUpLeavesNoGap
<1>4. ASSUME NEW c \in Chats, NextChat(c) PROVE CatchUpLeavesNoGap'
  <2>1. /\ UNCHANGED <<history, messages, listed>>
        /\ current' = c /\ position' = listed[c].cursor /\ listed[c].cursor \in Nat
    BY <1>0, <1>4 DEF NextChat, TypeOK, Rows
  <2>2. QED
    BY <1>0, <1>4, <2>1 DEF CatchUpLeavesNoGap
<1>5. ASSUME NEW c \in Chats, NEW m \in Ids, SaveUpdate(c, m) PROVE CatchUpLeavesNoGap'
  BY <1>0, <1>1, <1>5, SaveFacts DEF SaveUpdate
<1>6. ASSUME NEW a \in Ids, NEW b \in Ids, CommitBackfill(a, b) PROVE CatchUpLeavesNoGap'
  BY <1>0, <1>1, <1>6, CommitBackfillFacts DEF CommitBackfill
<1>7. CASE CommitIngest
  BY <1>0, <1>1, <1>7, CommitIngestFacts DEF CommitIngest
<1>8. CASE Start
  BY <1>0, <1>8 DEF Start, DownInv, CatchUpLeavesNoGap
<1>9. ASSUME NEW c \in Chats, NEW m \in history[c], DeleteMessage(c, m) PROVE CatchUpLeavesNoGap'
  BY <1>0, <1>1, <1>9 DEF DeleteMessage, TypeOK
<1>10. ASSUME NEW c \in Chats, NEW mode \in Modes, BeginIngest(c, mode) PROVE CatchUpLeavesNoGap'
  BY <1>1, <1>10 DEF BeginIngest
<1>11. ASSUME NEW c \in Chats, BeginBackfill(c) PROVE CatchUpLeavesNoGap'
  BY <1>1, <1>11 DEF BeginBackfill
<1>12. CASE ReadIngest
  BY <1>1, <1>12 DEF ReadIngest
<1>13. CASE Quiet
  BY <1>1, <1>13 DEF Quiet
<1>14. QED
  BY <1>0, <1>2, <1>3, <1>4, <1>5, <1>6, <1>7, <1>8, <1>9, <1>10, <1>11, <1>12, <1>13, StepKinds

(* _catch_up_chat never passes a message it has not stored, so what the    *)
(* cursor becomes by its saves hides no hole of its own making.            *)
THEOREM NoGapBehind == Spec => []CatchUpLeavesNoGap
<1>1. Init => CatchUpLeavesNoGap
  BY DEF Init, CatchUpLeavesNoGap
<1>2. QED
  BY <1>1, GapStep, InvHolds, ExistHolds, PTL DEF Spec

-----------------------------------------------------------------------------
(* The chat type that imports and batches erase.                           *)

(* Until the first of them, every row with a cursor has its chat's type,   *)
(* and so had every row when the listener listed them; a listed chat       *)
(* keeps its cursor.                                                       *)
Typed(table) == \A c \in Chats : table[c].cursor > 0 => table[c].type = Kind[c]
ErasedInv ==
  /\ backfills = 0 => backfilling = NoChat
  /\ ingests = 0 => ingest.stage = "off"
  /\ \A c \in chosen : listed[c].cursor > 0
  /\ ingests = 0 /\ backfills = 0 => Typed(rows) /\ Typed(listed)

LEMMA ErasedStep == IInv /\ ErasedInv /\ [Next]_vars => ErasedInv'
<1> SUFFICES ASSUME IInv, ErasedInv, [Next]_vars PROVE ErasedInv'
  OBVIOUS
<1> USE DEF telegramVars, catchUpVars, liveVars, transactions
<1>0. TypeOK
  BY DEF IInv
<1>1. ASSUME UNCHANGED <<rows, listed, ingests, backfills>>, chosen' \subseteq chosen,
             ingest' = ingest \/ ingest'.stage = "off", backfilling' = backfilling \/ backfilling' = NoChat
      PROVE  ErasedInv'
  BY <1>1 DEF ErasedInv, Typed
<1>2. ASSUME NEW c \in Chats, NEW m \in Ids, SaveMessage(c, m, Kind[c]),
             UNCHANGED <<listed, chosen, ingest, backfilling, ingests, backfills>>
      PROVE  ErasedInv'
  <2>1. rows'[c].type = Kind[c] /\ \A d \in Chats \ {c} : rows'[d] = rows[d]
    BY <1>0, <1>2, SaveFacts
  <2>2. QED
    BY <1>2, <2>1 DEF ErasedInv, Typed
<1>3. ASSUME NEW c \in Chats, NEW m \in Ids, SaveUpdate(c, m) PROVE ErasedInv'
  BY <1>2, <1>3 DEF SaveUpdate, boundVars
<1>4. ASSUME NEW m \in Ids, SaveCaughtUp(m) PROVE ErasedInv'
  <2>1. /\ current \in Chats /\ current \in chosen
        /\ SaveMessage(current, m, listed[current].type)
        /\ UNCHANGED <<listed, chosen, ingest, backfilling, ingests, backfills>>
    BY <1>0, <1>4 DEF SaveCaughtUp, TypeOK, boundVars
  <2>2. CASE ingests = 0 /\ backfills = 0
    BY <1>2, <2>1, <2>2 DEF ErasedInv, Typed
  <2>3. CASE ~(ingests = 0 /\ backfills = 0)
    BY <2>1, <2>3 DEF ErasedInv
  <2>4. QED
    BY <2>2, <2>3
<1>5. ASSUME NEW a \in Ids, NEW b \in Ids, CommitBackfill(a, b) PROVE ErasedInv'
  <2>1. /\ UNCHANGED <<listed, chosen, ingest, ingests, backfills>> /\ backfilling # NoChat
        /\ backfilling' = NoChat
    BY <1>5 DEF CommitBackfill, boundVars
  <2>2. QED
    BY <2>1 DEF ErasedInv
<1>6. CASE CommitIngest
  <2>1. /\ UNCHANGED <<listed, chosen, backfilling, ingests, backfills>> /\ ingest' = NoIngest
        /\ ingest.stage # "off"
    BY <1>6 DEF CommitIngest, boundVars
  <2>2. QED
    BY <2>1 DEF ErasedInv, NoIngest
<1>7. ASSUME NEW c \in Chats, NEW mode \in Modes, BeginIngest(c, mode) PROVE ErasedInv'
  <2>1. /\ UNCHANGED <<rows, listed, chosen, backfilling, backfills>>
        /\ ingests' = ingests + 1 /\ ingests \in Nat
    BY <1>0, <1>7 DEF BeginIngest, TypeOK
  <2>2. ingests' # 0
    BY <2>1
  <2>3. QED
    BY <2>1, <2>2 DEF ErasedInv
<1>8. ASSUME NEW c \in Chats, BeginBackfill(c) PROVE ErasedInv'
  <2>1. /\ UNCHANGED <<rows, listed, chosen, ingest, ingests>>
        /\ backfills' = backfills + 1 /\ backfills \in Nat
    BY <1>0, <1>8 DEF BeginBackfill, TypeOK
  <2>2. backfills' # 0
    BY <2>1
  <2>3. QED
    BY <2>1, <2>2 DEF ErasedInv
<1>9. CASE ReadIngest
  <2>1. /\ UNCHANGED <<rows, listed, chosen, backfilling, ingests, backfills>> /\ ingest.stage # "off"
    BY <1>9 DEF ReadIngest, boundVars
  <2>2. QED
    BY <2>1 DEF ErasedInv
<1>10. CASE Start
  <2>1. /\ listed' = rows /\ UNCHANGED <<rows, ingest, backfilling, ingests, backfills>>
        /\ \A c \in chosen' : rows[c].cursor > 0
    BY <1>10 DEF Start, Covered, boundVars
  <2>2. QED
    BY <2>1 DEF ErasedInv, Typed
<1>11. ASSUME NEW c \in Chats, NewMessage(c) \/ NextChat(c) PROVE ErasedInv'
  BY <1>1, <1>11 DEF NewMessage, NextChat, boundVars
<1>12. ASSUME NEW c \in Chats, NEW m \in history[c], DeleteMessage(c, m) PROVE ErasedInv'
  BY <1>1, <1>12 DEF DeleteMessage, boundVars
<1>13. CASE Quiet
  BY <1>1, <1>13 DEF Quiet, NoIngest
<1>14. QED
  BY <1>0, <1>3, <1>4, <1>5, <1>6, <1>7, <1>8, <1>9, <1>10, <1>11, <1>12, <1>13, StepKinds

LEMMA ErasedHolds == Spec => []ErasedInv
<1>1. Init => ErasedInv
  BY DEF Init, ErasedInv, Typed, NoRow, NoIngest
<1>2. QED
  BY <1>1, ErasedStep, InvHolds, PTL DEF Spec

(* Where no type has been erased, a start covers every chat it may read.   *)
LEMMA TypedIsCovered ==
  ASSUME TypeOK, ErasedInv, ~up, up', [Next]_vars, ingests = 0, backfills = 0,
         NEW c \in Readable(override), rows[c].cursor > 0
  PROVE  c \in chosen'
<1>1. Start
  BY DEF Next, Telegram, NewMessage, DeleteMessage, Owner, SetPolicy, Live, CheckUpdate, SaveUpdate,
         Fail, FailUpdate, CatchUp, NextChat, FetchBatch, FinishChat, SaveCaughtUp, Stop, Batch, Archive,
         CommitBackfill, FailBackfill, BeginBackfill, Ingestor, BeginIngest, ReadIngest, CommitIngest,
         FailIngest, vars
<1>2. c \in Chats /\ rows[c].type = Kind[c] /\ CanRead(Effective(override), c, Kind[c])
  BY DEF Readable, ErasedInv, Typed
<1>3. QED
  BY <1>1, <1>2 DEF Start, Covered

(* Before the first import or batch, startup catch-up (catch_up_chats)     *)
(* takes every readable chat with a cursor.                                *)
THEOREM CaughtUpAtFirst == Spec => CaughtUpUntilImport
<1>1. ASSUME IInv, ErasedInv, [Next]_vars,  ~up /\ up' /\ ingests = 0 /\ backfills = 0
      PROVE  \A c \in Readable(override) : rows[c].cursor > 0 => c \in chosen'
  BY <1>1, TypedIsCovered DEF IInv
<1>2. IInv /\ ErasedInv /\ [Next]_vars =>
        (~up /\ up' /\ ingests = 0 /\ backfills = 0 =>
           \A c \in Readable(override) : rows[c].cursor > 0 => c \in chosen')
  BY <1>1
<1>3. QED
  BY <1>2, InvHolds, ErasedHolds, PTL DEF Spec, CaughtUpUntilImport

-----------------------------------------------------------------------------
(* The archive of this module is the one ArchivePromise describes.         *)

LEMMA StoresSome ==
  ASSUME NEW c \in Chats, NEW S \in SUBSET (1 .. latest[c]),
         messages' = [messages EXCEPT ![c] = @ \cup S], latest' = latest,
         \A d \in Chats \ {c} : rows'[d].cursor = rows[d].cursor,
         rows'[c].cursor \in {rows[c].cursor} \cup messages'[c], rows'[c].cursor >= rows[c].cursor
  PROVE  Shared!Store(c)
<1> DEFINE f == [d \in Chats |-> rows[d].cursor]
           g == [d \in Chats |-> rows'[d].cursor]
<1>1. g = [f EXCEPT ![c] = rows'[c].cursor]
  OBVIOUS
<1>2. f[c] = rows[c].cursor
  OBVIOUS
<1> HIDE DEF f
<1>3. \E n \in {f[c]} \cup messages'[c] : n >= f[c] /\ g = [f EXCEPT ![c] = n]
  BY <1>1, <1>2
<1> USE DEF f
<1>4. QED
  BY <1>3 DEF Shared!Store

LEMMA SkipsOver ==
  ASSUME NEW c \in Chats, latest' = latest, messages' = messages,
         \A d \in Chats \ {c} : rows'[d].cursor = rows[d].cursor,
         rows'[c].cursor \in rows[c].cursor .. latest[c]
  PROVE  Shared!SkipTo(c)
<1> DEFINE f == [d \in Chats |-> rows[d].cursor]
           g == [d \in Chats |-> rows'[d].cursor]
<1>1. g = [f EXCEPT ![c] = rows'[c].cursor]
  OBVIOUS
<1>2. f[c] = rows[c].cursor
  OBVIOUS
<1> HIDE DEF f
<1>3. \E n \in f[c] .. latest[c] : g = [f EXCEPT ![c] = n]
  BY <1>1, <1>2
<1> USE DEF f
<1>4. QED
  BY <1>3 DEF Shared!SkipTo

LEMMA StepIsShared == IInv /\ ExistInv /\ [Next]_vars => [Shared!Next]_(Shared!archiveVars)
<1> SUFFICES ASSUME IInv, ExistInv, [Next]_vars PROVE Shared!Next \/ UNCHANGED Shared!archiveVars
  OBVIOUS
<1> USE DEF telegramVars, catchUpVars, liveVars, transactions
<1>0. TypeOK /\ BatchInv /\ IngestInv /\ \A c \in Chats : latest[c] \in Nat /\ rows[c].cursor \in Nat
  BY DEF IInv, TypeOK, Rows
<1>1. ASSUME UNCHANGED <<latest, messages, rows>> PROVE UNCHANGED Shared!archiveVars
  BY <1>1 DEF Shared!archiveVars
<1>2. ASSUME NEW c \in Chats, NewMessage(c) PROVE Shared!Next
  <2>1. Shared!Arrive(c)
    BY <1>2 DEF NewMessage, Shared!Arrive
  <2>2. QED
    BY <2>1 DEF Shared!Next
<1>3. ASSUME NEW c \in Chats, NEW m \in Ids, NEW t, SaveMessage(c, m, t), m <= latest[c], latest' = latest
      PROVE  Shared!Next
  <2>1. {m} \in SUBSET (1 .. latest[c])
    BY <1>0, <1>3, IdsAreNats
  <2>2. /\ messages' = [messages EXCEPT ![c] = @ \cup {m}]
        /\ \A d \in Chats \ {c} : rows'[d].cursor = rows[d].cursor
        /\ rows'[c].cursor \in {rows[c].cursor} \cup messages'[c] /\ rows'[c].cursor >= rows[c].cursor
    BY <1>0, <1>3, SaveFacts
  <2>3. Shared!Store(c)
    BY <1>3, <2>1, <2>2, StoresSome
  <2>4. QED
    BY <2>3 DEF Shared!Next
<1>4. ASSUME NEW c \in Chats, NEW m \in Ids, SaveUpdate(c, m) PROVE Shared!Next
  BY <1>3, <1>4 DEF SaveUpdate, ExistInv
<1>5. ASSUME NEW m \in Ids, SaveCaughtUp(m) PROVE Shared!Next
  <2>1. current \in Chats /\ current # NoChat /\ m \in batch
    BY <1>0, <1>5 DEF SaveCaughtUp, TypeOK
  <2>2. m <= latest[current]
    BY <1>0, <2>1 DEF BatchInv
  <2>3. QED
    BY <1>3, <1>5, <2>1, <2>2 DEF SaveCaughtUp
<1>6. ASSUME NEW a \in Ids, NEW b \in Ids, CommitBackfill(a, b) PROVE Shared!Next
  <2>1. PICK c \in Chats : c = backfilling
    BY <1>0, <1>6, CommitBackfillFacts
  <2>2. PICK S \in SUBSET (1 .. latest[c]) :
           /\ messages' = [messages EXCEPT ![c] = @ \cup S]
           /\ \A d \in Chats : rows'[d].cursor = rows[d].cursor
    BY <1>0, <1>6, <2>1, CommitBackfillFacts
  <2>3. latest' = latest
    BY <1>6 DEF CommitBackfill
  <2>4. rows'[c].cursor >= rows[c].cursor
    BY <1>0, <2>2
  <2>5. Shared!Store(c)
    BY <2>2, <2>3, <2>4, StoresSome
  <2>6. QED
    BY <2>5 DEF Shared!Next
<1>7. CASE CommitIngest
  <2>1. PICK c \in Chats : c = ingest.chat
    BY <1>0, <1>7, CommitIngestFacts
  <2>2. /\ messages' = [messages EXCEPT ![c] = @ \cup ingest.got]
        /\ messages'[c] = messages[c] \cup ingest.got
        /\ rows'[c].cursor = ingest.to /\ latest' = latest
        /\ \A d \in Chats \ {c} : rows'[d].cursor = rows[d].cursor
    BY <1>0, <1>7, <2>1, CommitIngestFacts DEF CommitIngest
  <2>3. /\ ingest.got \in SUBSET (1 .. latest[c]) /\ ingest.to <= latest[c]
        /\ ingest.mode = "start_now" => ingest.got = {}
        /\ ingest.to >= rows[c].cursor
        /\ ingest.to = rows[c].cursor \/ ingest.to \in ingest.got \/ ingest.mode = "start_now"
    BY <1>0, <1>7, <2>1, CommitIngestFacts DEF ExistInv, IngestInv
  <2>4. CASE ingest.mode # "start_now"
    <3>1. Shared!Store(c)
      BY <2>2, <2>3, <2>4, StoresSome
    <3>2. QED
      BY <3>1 DEF Shared!Next
  <2>5. CASE ingest.mode = "start_now"
    <3>1. messages' = messages
      BY <2>2, <2>3, <2>5, <1>0 DEF TypeOK
    <3>2. ingest.to \in Nat
      BY <1>0 DEF TypeOK, Ingests
    <3>3. Shared!SkipTo(c)
      BY <1>0, <2>2, <2>3, <3>1, <3>2, SkipsOver
    <3>4. QED
      BY <3>3 DEF Shared!Next
  <2>6. QED
    BY <2>4, <2>5
<1>8. ASSUME NEW c \in Chats, NEW mode \in Modes, BeginIngest(c, mode) PROVE UNCHANGED Shared!archiveVars
  BY <1>1, <1>8 DEF BeginIngest
<1>9. CASE ReadIngest \/ Start
  BY <1>1, <1>9 DEF ReadIngest, Start
<1>10. ASSUME NEW c \in Chats, NextChat(c) \/ BeginBackfill(c) PROVE UNCHANGED Shared!archiveVars
  BY <1>1, <1>10 DEF NextChat, BeginBackfill
<1>11. ASSUME NEW c \in Chats, NEW m \in history[c], DeleteMessage(c, m) PROVE UNCHANGED Shared!archiveVars
  BY <1>1, <1>11 DEF DeleteMessage
<1>12. CASE Quiet
  BY <1>1, <1>12 DEF Quiet
<1>13. QED
  BY <1>0, <1>2, <1>4, <1>5, <1>6, <1>7, <1>8, <1>9, <1>10, <1>11, <1>12, StepKinds

(* Listener, catch-up, batches and ingestor together keep the archive and  *)
(* its cursors as ArchivePromise says, whatever overlaps or fails.         *)
THEOREM ArchiveKept == Spec => ImplementsArchive
<1>1. Init => Shared!Init
  BY DEF Init, Shared!Init, NoRow
<1>2. QED
  BY <1>1, StepIsShared, InvHolds, ExistHolds, PTL DEF Spec, ImplementsArchive, Shared!Spec
=============================================================================
