--------------------------- MODULE ActionPipeline ---------------------------
(***************************************************************************)
(* What becomes of a stored message: app-worker scores it, queues it as a  *)
(* candidate, sends a batch of candidates to the LLM and stores each       *)
(* action the LLM proposes in llm_actions; the action is applied at once   *)
(* or waits in review_queue for the owner, who answers through the bot.    *)
(*                                                                         *)
(* A worker cycle is one transaction.  Its writes are kept apart (verdict, *)
(* saved, enqueued, created) until it commits, and are dropped when the    *)
(* process dies or PostgreSQL refuses a row.  The LLM's answer is revealed *)
(* one proposal at a time.  Each press of a button is one transaction of   *)
(* the bot, a process that runs at any time.                               *)
(*                                                                         *)
(* An action is identified by its key, the digest of its type, its source, *)
(* its target and its payload; here the key is the record of these, an     *)
(* action cites one message, and the only payload told apart is the status *)
(* that update_item_status proposes.  schedule_notification stands for the *)
(* four types that nothing applies.                                        *)
(***************************************************************************)
EXTENDS Integers, Sequences, FiniteSets, FiniteSetsExt, Functions

CONSTANTS Messages,    \* the messages Telegram will ever deliver
          SentAt,      \* their order by sent_at and telegram_message_id
          Number,      \* telegram_message_id, unique in a chat only
          Worth,       \* the messages score_message gives more than 0
          None,        \* no target, no status: NULL
          OldItems,    \* items of extracted_items at the start
          Invented,    \* item ids the LLM may name though there is no such item
          MayRepeat,   \* an answer may propose one action twice
          BatchSize,   \* WORKER_BATCH_SIZE
          ShowLimit,   \* how many reviews /review lists
          MaxActions,  \* bound: proposals in one answer
          MaxFaults,   \* bound: deaths, LLM failures, scoring failures
          MaxPresses   \* bound: status buttons pressed

Statuses == {"open", "completed"}

ASSUME PipelineAssumption ==
  /\ IsFiniteSet(Messages)
  /\ SentAt \in [Messages -> Int] /\ IsInjective(SentAt)
  /\ Number \in [Messages -> Int]
  /\ Worth \subseteq Messages
  /\ MayRepeat \in BOOLEAN
  /\ BatchSize \in Nat \ {0} /\ ShowLimit \in Nat \ {0}
  /\ MaxActions \in Nat /\ MaxFaults \in Nat /\ MaxPresses \in Nat

VARIABLES
  filter,     \* filter[m]: "absent", or the stored message's candidate_filter state
  queue,      \* the queued rows of message_candidates, oldest first
  extracted,  \* the messages whose candidate row is 'processed'
  actions,    \* llm_actions: key -> [state, confidence, cited]
  reviews,    \* review_queue: review_id -> [key, state]
  items,      \* extracted_items: item id -> status
  pc,         \* the worker: "idle", "asking" the LLM, "routing" its answer
  batch,      \* the candidates sent to the LLM
  verdict,    \* uncommitted: the filter states set in this cycle
  fresh,      \* uncommitted: rows inserted in message_candidates
  saved,      \* uncommitted: rows upserted in llm_actions
  enqueued,   \* uncommitted: keys of the rows inserted in review_queue
  created,    \* uncommitted: items upserted by high-confidence creates
  routed,     \* proposals of the answer routed so far
  shown,      \* ids of reviews that a message of the bot has buttons for
  refused,    \* reviews whose approval ended in an update_failed event
  faults,     \* deaths and failures so far
  presses     \* status buttons pressed so far

stages == <<filter, queue, extracted>>
store == <<actions, reviews, items>>
cycle == <<pc, batch, verdict, fresh, saved, enqueued, created, routed>>
owner == <<shown, refused, presses>>
vars == <<stages, store, cycle, owner, faults>>

-----------------------------------------------------------------------------
(* Actions and their keys *)

Key(type, source, target, status) ==
  [type |-> type, source |-> source, target |-> target, status |-> status]

CreateKey(m) == Key("create_item", m, None, None)

NewItems == {CreateKey(m) : m \in Messages}

ItemIds == OldItems \union NewItems

ASSUME ItemAssumption == OldItems \intersect NewItems = {} /\ None \notin ItemIds \union Invented

Keys == NewItems
          \union {Key("schedule_notification", m, None, None) : m \in Messages}
          \union {Key("update_item_status", m, i, s) :
                    m \in Messages, i \in ItemIds, s \in Statuses}

(* What an answer may say: the message it means, named by its number.      *)
Proposals ==
  [type : {"create_item"}, cited : Messages, target : {None}, status : {None},
   confidence : {"high", "low"}]
    \union
  [type : {"schedule_notification"}, cited : Messages, target : {None},
   status : {None}, confidence : {"high"}]
    \union
  [type : {"update_item_status"}, cited : Messages,
   target : DOMAIN items \union Invented, status : Statuses,
   confidence : {"high"}]

(* _source_refs looks a number up in a dictionary of the batch, where the  *)
(* last message of that number wins.                                       *)
Matching(n) == {i \in DOMAIN batch : Number[batch[i]] = n}

SourceOf(p) == batch[Max(Matching(Number[p.cited]))]

KeyOf(p) == Key(p.type, SourceOf(p), p.target, p.status)

(* A table is a function from the keys of its rows to their columns.       *)
EmptyMap == [k \in {} |-> None]
Single(key, row) == [k \in {key} |-> row]
Upsert(rows, table) ==
  [k \in DOMAIN rows \union DOMAIN table |-> IF k \in DOMAIN rows THEN rows[k] ELSE table[k]]

FirstOf(s, n) == SubSeq(s, 1, IF n < Len(s) THEN n ELSE Len(s))

Init ==
  /\ filter = [m \in Messages |-> "absent"]
  /\ queue = <<>>
  /\ extracted = {}
  /\ actions = EmptyMap
  /\ reviews = <<>>
  /\ items = [i \in OldItems |-> "open"]
  /\ pc = "idle"
  /\ batch = <<>>
  /\ verdict = EmptyMap
  /\ fresh = <<>>
  /\ saved = EmptyMap
  /\ enqueued = <<>>
  /\ created = {}
  /\ routed = 0
  /\ shown = {}
  /\ refused = {}
  /\ faults = 0
  /\ presses = 0

-----------------------------------------------------------------------------
(* The worker *)

\* The listener or the ingestor commits a message.
StoreMessage(m) ==
  /\ filter[m] = "absent"
  /\ filter' = [filter EXCEPT ![m] = "new"]
  /\ UNCHANGED <<queue, extracted, store, cycle, owner, faults>>

EarliestSent(S) == {m \in S : Cardinality({k \in S : SentAt[k] < SentAt[m]}) < BatchSize}

\* Mutant: messages the scorer failed on are never read again.
PendingOnce == EarliestSent({m \in Messages : filter[m] = "new"})

\* pending_messages: the failed ones are tried again, at their old place.
PendingMessages == EarliestSent({m \in Messages : filter[m] \in {"new", "failed"}})

\* The one sequence of the messages of S in the order they were sent.
InSentOrder(S) ==
  {s \in [1 .. Cardinality(S) -> S] :
     /\ Range(s) = S
     /\ \A i, j \in DOMAIN s : i < j => SentAt[s[i]] < SentAt[s[j]]}

\* The messages whose verdict makes them candidates.
Candidates(states) == {m \in DOMAIN states \intersect Worth : states[m] = "processed"}

\* ORDER BY c.created_at, c.candidate_id: those of earlier cycles come first.
Queued == queue \o fresh

(* process_messages, and the two reads with which process_candidates       *)
(* begins; the scorer raises on the messages of `bad'.                     *)
StartCycle(bad) ==
  LET states == [m \in PendingMessages |-> IF m \in bad THEN "failed" ELSE "processed"]
  IN  /\ pc = "idle"
      /\ bad \subseteq PendingMessages
      /\ faults + Cardinality(bad) <= MaxFaults
      /\ PendingMessages # {} \/ queue # <<>>
      /\ verdict' = states
      /\ fresh' \in InSentOrder(Candidates(states))
      /\ batch' = FirstOf(queue \o fresh', BatchSize)
      /\ pc' = "asking"
      /\ faults' = faults + Cardinality(bad)
      /\ UNCHANGED <<stages, store, saved, enqueued, created, routed, owner>>

\* Mutant: rows of an ended cycle are still there in the next.
CycleOverStale ==
  /\ pc' = "idle"
  /\ batch' = <<>>
  /\ verdict' = EmptyMap
  /\ fresh' = <<>>
  /\ UNCHANGED <<saved, enqueued, created, routed>>

CycleOver ==
  /\ pc' = "idle"
  /\ batch' = <<>>
  /\ verdict' = EmptyMap
  /\ fresh' = <<>>
  /\ saved' = EmptyMap
  /\ enqueued' = <<>>
  /\ created' = {}
  /\ routed' = 0

\* Mutant: a failed LLM call takes the candidates of the cycle with it.
KeepQueuedPartly ==
  /\ filter' = Upsert(verdict, filter)
  /\ queue' = queue
  /\ CycleOver
  /\ UNCHANGED <<extracted, store, owner>>

\* Commit of a cycle that extracted nothing: the candidates stay queued.
KeepQueued ==
  /\ filter' = Upsert(verdict, filter)
  /\ queue' = Queued
  /\ CycleOver
  /\ UNCHANGED <<extracted, store, owner>>

NothingQueued == pc = "asking" /\ batch = <<>> /\ KeepQueued /\ UNCHANGED faults

\* No answer, or one that parse_action_response refuses as a whole.
LLMFails ==
  /\ pc = "asking" /\ batch # <<>>
  /\ faults < MaxFaults
  /\ faults' = faults + 1
  /\ KeepQueued

LLMAnswers ==
  /\ pc = "asking" /\ batch # <<>>
  /\ pc' = "routing"
  /\ UNCHANGED <<stages, store, batch, verdict, fresh, saved, enqueued, created, routed,
                 owner, faults>>

\* save_action overwrites all but the state, mark_applied or mark_review that.
Row(p, state) == [state |-> state, confidence |-> p.confidence, cited |-> p.cited]

\* _domain_action raises: the source is not in the batch.  The action is skipped.
SkipProposal(p) ==
  /\ Matching(Number[p.cited]) = {}
  /\ UNCHANGED <<saved, enqueued, created, pc, batch, verdict, fresh>>

\* Mutant: the threshold is not looked at.
ApplyAnyCreate(p) ==
  /\ Matching(Number[p.cited]) # {}
  /\ p.type = "create_item"
  /\ created' = created \union {KeyOf(p)}
  /\ saved' = Upsert(Single(KeyOf(p), Row(p, "applied")), saved)
  /\ UNCHANGED <<enqueued, pc, batch, verdict, fresh>>

\* A create_item of high confidence is applied at once.
ApplyCreate(p) ==
  /\ Matching(Number[p.cited]) # {}
  /\ p.type = "create_item" /\ p.confidence = "high"
  /\ created' = created \union {KeyOf(p)}
  /\ saved' = Upsert(Single(KeyOf(p), Row(p, "applied")), saved)
  /\ UNCHANGED <<enqueued, pc, batch, verdict, fresh>>

\* Everything else waits for the owner; review_queue.item_id is a foreign key.
RouteToReview(p) ==
  /\ Matching(Number[p.cited]) # {}
  /\ ~ (p.type = "create_item" /\ p.confidence = "high")
  /\ p.target = None \/ p.target \in DOMAIN items \union created
  /\ saved' = Upsert(Single(KeyOf(p), Row(p, "review")), saved)
  /\ enqueued' = Append(enqueued, KeyOf(p))
  /\ UNCHANGED <<created, pc, batch, verdict, fresh>>

Repeats(p) == Matching(Number[p.cited]) # {} /\ KeyOf(p) \in DOMAIN saved

RouteProposal(p) ==
  /\ pc = "routing"
  /\ routed < MaxActions
  /\ MayRepeat \/ ~ Repeats(p)
  /\ SkipProposal(p) \/ ApplyCreate(p) \/ RouteToReview(p)
  /\ routed' = routed + 1
  /\ UNCHANGED <<stages, store, owner, faults>>

\* The insert violates the foreign key: the exception ends the process.
UnknownTarget(p) ==
  /\ pc = "routing"
  /\ routed < MaxActions
  /\ Matching(Number[p.cited]) # {}
  /\ p.target \notin DOMAIN items \union created \union {None}
  /\ CycleOver
  /\ UNCHANGED <<stages, store, owner, faults>>

ReviewRows(keys) == [i \in DOMAIN keys |-> [key |-> keys[i], state |-> "pending"]]

\* mark_processed; the batch is the head of the queue.
RestOf(s, n) == SubSeq(s, n + 1, Len(s))

CommitCycle ==
  /\ pc = "routing"
  /\ filter' = Upsert(verdict, filter)
  /\ queue' = RestOf(Queued, Len(batch))
  /\ extracted' = extracted \union Range(batch)
  /\ actions' = Upsert(saved, actions)
  /\ reviews' = reviews \o ReviewRows(enqueued)
  /\ items' = Upsert([i \in created |-> "open"], items)
  /\ CycleOver
  /\ UNCHANGED <<owner, faults>>

\* The process dies, or an exception leaves run_worker_once: rollback.
WorkerDies ==
  /\ pc # "idle"
  /\ faults < MaxFaults
  /\ faults' = faults + 1
  /\ CycleOver
  /\ UNCHANGED <<stages, store, owner>>

-----------------------------------------------------------------------------
(* The bot *)

\* Mutant: the listing forgets that some are resolved.
AllReviews == DOMAIN reviews

Pending == {r \in DOMAIN reviews : reviews[r].state = "pending"}

\* ORDER BY r.created_at, r.review_id LIMIT.
Listed == {r \in Pending : Cardinality({s \in Pending : s < r}) < ShowLimit}

ListReviews ==
  /\ shown' = shown \union Listed
  /\ UNCHANGED <<stages, store, cycle, refused, presses, faults>>

\* What _apply_review_action writes; it raises on every other type.
Supported(k) == k.type \in {"create_item", "update_item_status"}

Effect(k) == IF k.type = "create_item" THEN Single(k, "open") ELSE Single(k.target, k.status)

\* Mutant: only the review changes.
LeaveAction(k, state) == UNCHANGED actions

\* _mark_action_state
MarkAction(k, state) == actions' = [actions EXCEPT ![k].state = state]

\* Mutant: the last answer counts.
ResolveAgain(r, state) == reviews' = [reviews EXCEPT ![r].state = state]

\* _resolve_review: only a pending review changes.
Resolve(r, state) ==
  reviews' = [reviews EXCEPT ![r].state = IF @ = "pending" THEN state ELSE @]

\* Mutant: a second press of a button works again.
ApproveAgain(r) ==
  /\ r \in shown
  /\ reviews[r].state # "rejected"
  /\ Supported(reviews[r].key)
  /\ items' = Upsert(Effect(reviews[r].key), items)
  /\ MarkAction(reviews[r].key, "applied")
  /\ Resolve(r, "approved")
  /\ UNCHANGED <<stages, cycle, owner, faults>>

\* The press of an old button, on a review no longer pending, changes nothing.
Approve(r) ==
  /\ r \in shown
  /\ reviews[r].state = "pending"
  /\ Supported(reviews[r].key)
  /\ items' = Upsert(Effect(reviews[r].key), items)
  /\ MarkAction(reviews[r].key, "applied")
  /\ Resolve(r, "approved")
  /\ UNCHANGED <<stages, cycle, owner, faults>>

\* ValueError in the handler: the bot records update_failed, and no answer.
ApproveUnsupported(r) ==
  /\ r \in shown
  /\ reviews[r].state = "pending"
  /\ ~ Supported(reviews[r].key)
  /\ refused' = refused \union {r}
  /\ UNCHANGED <<stages, store, cycle, shown, presses, faults>>

\* Unlike approve_review, this looks at no state before it marks the action.
Reject(r) ==
  /\ r \in shown
  /\ MarkAction(reviews[r].key, "rejected")
  /\ Resolve(r, "rejected")
  /\ UNCHANGED <<stages, items, cycle, owner, faults>>

\* A status button of /tasks, perhaps of an old message.
SetStatus(i) ==
  /\ presses < MaxPresses
  /\ presses' = presses + 1
  /\ items' = [items EXCEPT ![i] = "completed"]
  /\ UNCHANGED <<stages, actions, reviews, cycle, shown, refused, faults>>

-----------------------------------------------------------------------------
Next ==
  \/ \E m \in Messages : StoreMessage(m)
  \/ \E bad \in SUBSET Messages : StartCycle(bad)
  \/ NothingQueued \/ LLMFails \/ LLMAnswers
  \/ \E p \in Proposals : RouteProposal(p) \/ UnknownTarget(p)
  \/ CommitCycle
  \/ WorkerDies
  \/ ListReviews
  \/ \E r \in DOMAIN reviews : \/ Approve(r)
                               \/ ApproveUnsupported(r)
                               \/ Reject(r)
  \/ \E i \in DOMAIN items : SetStatus(i)

Spec == Init /\ [][Next]_vars

(* The worker loops and docker restarts it; LM Studio answers in the end   *)
(* (its failures are bounded), and an answer is a finite list.  For the    *)
(* properties of the bot, an owner who opens /review again and again and   *)
(* settles, in one way or the other, what it shows.                        *)
Settle(r) == (Approve(r) \/ Reject(r)) /\ reviews[r].state = "pending"

FairWorker == Spec /\ WF_vars(\E bad \in SUBSET Messages : StartCycle(bad))
                   /\ WF_vars(NothingQueued) /\ WF_vars(LLMAnswers)
                   /\ WF_vars(CommitCycle)

FairSpec == FairWorker /\ WF_vars(ListReviews)
                       /\ \A r \in 1 .. Cardinality(Messages) * MaxActions : WF_vars(r \in DOMAIN reviews /\ Settle(r))
-----------------------------------------------------------------------------
(* Safety *)

\* Every variable has its type, and a cycle that is over leaves nothing behind.
ActionRows == [state : {"review", "applied", "rejected"}, confidence : {"high", "low"},
               cited : Messages]
ReviewRow  == [key : Keys, state : {"pending", "approved", "rejected"}]
IsTable(f, keys, values) == DOMAIN f \subseteq keys /\ f \in [DOMAIN f -> values]

TypeOK ==
  /\ filter \in [Messages -> {"absent", "new", "failed", "processed"}]
  /\ queue \in Seq(Messages) /\ extracted \subseteq Messages
  /\ IsTable(actions, Keys, ActionRows)
  /\ reviews \in Seq(ReviewRow)
  /\ IsTable(items, ItemIds, Statuses)
  /\ pc \in {"idle", "asking", "routing"}
  /\ batch \in Seq(Messages) /\ fresh \in Seq(Messages)
  /\ IsTable(verdict, Messages, {"failed", "processed"})
  /\ IsTable(saved, Keys, ActionRows)
  /\ enqueued \in Seq(Keys) /\ created \subseteq NewItems /\ routed \in Nat
  /\ pc # "routing" => saved = EmptyMap /\ enqueued = <<>> /\ created = {} /\ routed = 0
  /\ pc = "idle" => verdict = EmptyMap /\ batch = <<>> /\ fresh = <<>>
  /\ shown \subseteq DOMAIN reviews /\ refused \subseteq DOMAIN reviews
  /\ faults \in Nat /\ presses \in Nat

(* A message worth extracting that the filter is done with is queued or    *)
(* extracted, and never both, whatever failures came between: the filter   *)
(* state, the candidate row and the actions change in one transaction.     *)
NoCandidateLost ==
  \A m \in Worth :
    /\ filter[m] = "processed" <=> (m \in Range(queue) \/ m \in extracted)
    /\ ~ (m \in Range(queue) /\ m \in extracted)

(* An action that waits for the owner has a review she can still answer,   *)
(* and an action in the table has a source that is never sent again.       *)
NothingHidden ==
  \A k \in DOMAIN actions :
    /\ k.source \in extracted
    /\ actions[k].state = "review" =>
         \E r \in DOMAIN reviews : reviews[r].key = k /\ reviews[r].state = "pending"

(* An item the worker made was proposed with high confidence or approved,  *)
(* and an approved create_item has its item.                               *)
CreatedWithConsent ==
  \A m \in Messages : LET k == CreateKey(m) IN
    (k \in DOMAIN items) <=>
      \/ k \in DOMAIN actions /\ actions[k].confidence = "high"
      \/ \E r \in DOMAIN reviews : reviews[r].key = k /\ reviews[r].state = "approved"

(* The status of an item changes only when the owner presses its button or *)
(* approves a proposal to change it: nothing the worker commits, and no    *)
(* repeated button, brings a finished item back.                           *)
ChangedWithConsent ==
  [][\A i \in DOMAIN items : items'[i] # items[i] =>
       \/ presses' = presses + 1
       \/ \E r \in DOMAIN reviews : /\ reviews[r].key.type = "update_item_status"
                                    /\ reviews[r].key.target = i
                                    /\ reviews[r].state = "pending"
                                    /\ reviews'[r].state = "approved"]_vars

(* Whatever an answer repeats: the worker leaves every item that is there  *)
(* as it is, none is removed, and only the owner changes a status, by her  *)
(* button or by approving a review that is about this item.                *)
ItemsAreTheOwners ==
  [][\A i \in DOMAIN items :
       /\ i \in DOMAIN items'
       /\ items'[i] # items[i] =>
            \/ presses' = presses + 1
            \/ \E r \in DOMAIN reviews : /\ i \in {reviews[r].key, reviews[r].key.target}
                                         /\ reviews[r].state = "pending"
                                         /\ reviews'[r].state = "approved"]_vars

\* A create_item that the owner rejected while it waited makes no item.
RejectedWhileAsked ==
  \A r \in DOMAIN reviews :
    reviews[r].key.type = "create_item" /\ reviews[r].state = "rejected" =>
      reviews[r].key \notin DOMAIN items

\* The LLM is not asked again about a message whose answer is stored.
AskedOnce == \A m \in Range(batch) : m \notin extracted

(* First in, first out, across deaths and failed calls: what leaves the    *)
(* queue is extracted and was its head, what stays keeps its order, what   *)
(* comes goes to the end, and nothing is extracted while the head waits.   *)
InTurn ==
  [][\E n \in 0 .. Len(queue) :
       /\ \A i \in 1 .. n : queue[i] \in extracted'
       /\ Len(queue) - n <= Len(queue')
       /\ \A i \in 1 .. Len(queue) - n : queue'[i] = queue[n + i]
       /\ n = 0 /\ queue # <<>> => extracted' = extracted]_vars

(* /review shows reviews in the order they came: whoever answers what, and *)
(* however late, the owner has never had buttons for a review while an     *)
(* older one was never shown to her.                                       *)
ShownInOrder == \A r \in shown : \A s \in DOMAIN reviews : s < r => s \in shown

(* What the documents promise of every proposal and the code does not do.  *)

\* What the owner rejected, or took for rejected, has no effect.
RejectedHasNoEffect ==
  \A k \in DOMAIN actions :
    k.type = "create_item" /\ actions[k].state = "rejected" => k \notin DOMAIN items

\* Once there is an answer, its batch is done with unless the process dies.
AnswerKept ==
  [][pc = "routing" /\ pc' = "idle" /\ faults' = faults =>
       Range(batch) \subseteq extracted']_vars

\* The buttons of /review work on whatever /review lists.
ButtonsWork == refused = {}

\* The message an action names as its source is the message the LLM cited.
SourceAsCited == \A k \in DOMAIN actions : k.source = actions[k].cited

-----------------------------------------------------------------------------
(* What the owner sees of all this: a failed message is one received, and  *)
(* the tables of actions, candidates and the open cycle are hidden.        *)

StageOf(m) ==
  CASE filter[m] = "absent" -> "unseen"
    [] filter[m] \in {"new", "failed"} -> "received"
    [] filter[m] = "processed" ->
         IF m \in extracted THEN "extracted" ELSE IF m \in Worth THEN "candidate" ELSE "passed"

Asked == {reviews[r].key : r \in DOMAIN reviews}

AnswerTo(k) == reviews[CHOOSE r \in DOMAIN reviews : reviews[r].key = k].state

Promise == INSTANCE PipelinePromise WITH
  Creates <- NewItems,
  stage   <- [m \in Messages |-> StageOf(m)],
  asked   <- [k \in Asked |-> AnswerTo(k)]

\* Whatever fails, a question is put once and its answer stands.
ImplementsPromise == Promise!Spec

-----------------------------------------------------------------------------
(* Liveness *)

\* Every stored message worth it is sent to the LLM and its answer kept.
EveryCandidateExtracted ==
  \A m \in Worth : filter[m] # "absent" ~> m \in extracted

\* /review lists a few at a time, yet an owner who settles them sees them all.
EveryReviewShown ==
  \A r \in 1 .. Cardinality(Messages) * MaxActions : r \in DOMAIN reviews ~> r \in shown

=============================================================================
