----------------------- MODULE PipelinePromise_proofs -----------------------
(***************************************************************************)
(* ActionPipeline implements PipelinePromise, for every set of messages    *)
(* and items, every batch size and every bound on failures, if no answer   *)
(* proposes one action twice.  Each step is the promised step of the same  *)
(* name, Work for the two commits, or changes nothing the owner sees.      *)
(***************************************************************************)
EXTENDS ActionPipeline_proofs

(* With one review to an action, the answer to it is that of its review.   *)
LEMMA Answers ==
  ASSUME OneReview, NEW r \in DOMAIN reviews, NEW k, reviews[r].key = k
  PROVE  k \in Asked /\ AnswerTo(k) = reviews[r].state
BY DEF OneReview, Asked, AnswerTo

LEMMA AnswersAfter ==
  ASSUME OneReview', NEW r \in DOMAIN reviews', NEW k, reviews'[r].key = k
  PROVE  k \in Asked' /\ AnswerTo(k)' = reviews'[r].state
BY DEF OneReview, Asked, AnswerTo

LEMMA PromiseInit == Init => Promise!Init
<1> SUFFICES ASSUME Init PROVE Promise!Init
  OBVIOUS
<1>1. \A m \in Messages : StageOf(m) = "unseen"
  BY DEF Init, StageOf
<1>2. Asked = {}
  BY DEF Init, Asked
<1>3. QED
  BY <1>1, <1>2 DEF Init, Promise!Init

PStage == [m \in Messages |-> StageOf(m)]
PAsked == [k \in Asked |-> AnswerTo(k)]

-----------------------------------------------------------------------------
(* What a commit does to the stages.                                       *)

Judged == {m \in DOMAIN verdict : verdict[m] = "processed"}

LEMMA StageStep ==
  ASSUME TypeOK, QueueInv, CycleInv, NEW done, done \subseteq Range(Queued),
         filter' = Upsert(verdict, filter), extracted' = extracted \union done
  PROVE  /\ Judged \subseteq Promise!At("received")
         /\ done \subseteq Promise!At("candidate") \union (Judged \intersect Worth)
         /\ \A m \in Messages :
              StageOf(m)' = IF m \in done THEN "extracted"
                            ELSE IF m \in Judged THEN IF m \in Worth THEN "candidate" ELSE "passed"
                            ELSE StageOf(m)
<1>1. /\ DOMAIN verdict \subseteq Messages /\ DOMAIN filter = Messages
      /\ \A m \in DOMAIN verdict : verdict[m] \in {"failed", "processed"}
  BY DEF TypeOK, IsTable
<1>2. /\ \A m \in DOMAIN verdict : filter[m] \in {"new", "failed"} /\ m \notin extracted
      /\ \A m \in extracted : filter[m] = "processed"
  BY DEF CycleInv, QueueInv
<1>3. \A m \in Messages : filter'[m] = IF m \in DOMAIN verdict THEN verdict[m] ELSE filter[m]
  BY <1>1 DEF Upsert
<1>4. \A m \in done : m \in Worth /\ m \notin extracted /\ filter'[m] = "processed"
  BY QueuedFacts
<1>5. Judged \subseteq Promise!At("received")
  BY <1>1, <1>2 DEF Judged, Promise!At, StageOf
<1>6. done \subseteq Promise!At("candidate") \union (Judged \intersect Worth)
  BY <1>1, <1>3, <1>4, PipelineAssumption DEF Judged, Promise!At, StageOf
<1>7. ASSUME NEW m \in Messages, m \in done PROVE StageOf(m)' = "extracted"
  BY <1>4, <1>7 DEF StageOf
<1>8. ASSUME NEW m \in Messages, m \notin done, m \in Judged
      PROVE  StageOf(m)' = IF m \in Worth THEN "candidate" ELSE "passed"
  BY <1>2, <1>3, <1>8 DEF StageOf, Judged
<1>9. ASSUME NEW m \in Messages, m \notin done, m \notin Judged PROVE StageOf(m)' = StageOf(m)
  <2>1. CASE m \in DOMAIN verdict
    BY <1>1, <1>2, <1>3, <1>9, <2>1 DEF StageOf, Judged
  <2>2. CASE m \notin DOMAIN verdict
    BY <1>3, <1>9, <2>2 DEF StageOf
  <2>3. QED
    BY <2>1, <2>2
<1>10. QED
  BY <1>5, <1>6, <1>7, <1>8, <1>9

LEMMA WorkStep ==
  ASSUME TypeOK, QueueInv, CycleInv, NEW done, done \subseteq Range(Queued),
         filter' = Upsert(verdict, filter), extracted' = extracted \union done,
         NEW made \in SUBSET {k \in NewItems : k.source \in done}, made \intersect DOMAIN items = {},
         items' = Promise!With(items, made, "open"),
         NEW put \in SUBSET {k \in Keys : k.source \in done}, put \intersect Asked = {},
         put \intersect NewItems \intersect DOMAIN items' = {},
         \A k \in put : k.target \in DOMAIN items' \union {None},
         PAsked' = Promise!With(PAsked, put, "pending")
  PROVE  Promise!Work(Judged, done)
<1>1. PStage' = [m \in Messages |->
                   IF m \in done THEN "extracted"
                   ELSE IF m \in Judged THEN IF m \in Worth THEN "candidate" ELSE "passed"
                   ELSE PStage[m]]
  BY StageStep DEF PStage
<1>2. DOMAIN PAsked = Asked
  BY DEF PAsked
<1>3. \E x \in SUBSET {k \in NewItems : k.source \in done} :
        /\ x \intersect DOMAIN items = {}
        /\ items' = Promise!With(items, x, "open")
  OBVIOUS
<1>4. \E x \in SUBSET {k \in Keys : k.source \in done} :
        /\ x \intersect DOMAIN PAsked = {}
        /\ x \intersect NewItems \intersect DOMAIN items' = {}
        /\ \A k \in x : k.target \in DOMAIN items' \union {None}
        /\ PAsked' = Promise!With(PAsked, x, "pending")
  BY <1>2
<1>5. /\ Judged \subseteq Promise!At("received")
      /\ done \subseteq Promise!At("candidate") \union (Judged \intersect Worth)
  BY StageStep
<1>6. QED
  BY <1>1, <1>3, <1>4, <1>5 DEF Promise!Work, PStage, PAsked

LEMMA KeepStep ==
  ASSUME TypeOK, QueueInv, CycleInv, KeepQueued
  PROVE  Promise!Work(Judged, {})
<1>1. PICK none : none = {}
  OBVIOUS
<1>2. /\ filter' = Upsert(verdict, filter) /\ extracted' = extracted \union none
      /\ none \subseteq Range(Queued) /\ UNCHANGED <<reviews, items>>
  BY <1>1 DEF KeepQueued, store
<1>3. items' = Promise!With(items, none, "open")
  <2>1. items \in [DOMAIN items -> Statuses]
    BY DEF TypeOK, IsTable
  <2>2. items = [k \in DOMAIN items |-> items[k]]
    BY <2>1
  <2>3. Promise!With(items, none, "open") = [k \in DOMAIN items |-> items[k]]
    BY <1>1 DEF Promise!With
  <2>4. QED
    BY <1>2, <2>2, <2>3
<1>4. PAsked' = Promise!With(PAsked, none, "pending")
  <2>1. Asked' = Asked /\ \A k \in Asked : AnswerTo(k)' = AnswerTo(k)
    BY <1>2 DEF Asked, AnswerTo
  <2>2. QED
    BY <1>1, <2>1 DEF PAsked, Promise!With
<1>5. none \in SUBSET {k \in NewItems : k.source \in none} /\ none \in SUBSET {k \in Keys : k.source \in none}
  BY <1>1
<1>6. Promise!Work(Judged, none)
  BY <1>1, <1>2, <1>3, <1>4, <1>5, WorkStep
<1>7. QED
  BY <1>1, <1>6

LEMMA CommitStep ==
  ASSUME ~MayRepeat, IInv, OneReview', CommitCycle
  PROVE  Promise!Work(Judged, Range(batch))
<1>1. /\ TypeOK /\ QueueInv /\ CycleInv /\ RouteInv /\ StoreInv /\ OnceInv /\ OneReview /\ ConsentInv
      /\ pc # "idle"
  BY DEF IInv, CommitCycle
<1>2. filter' = Upsert(verdict, filter) /\ extracted' = extracted \union Range(batch)
  BY DEF CommitCycle
<1>3. Range(batch) \subseteq Range(Queued)
  BY <1>1, BatchFacts
<1>4. created \in SUBSET {k \in NewItems : k.source \in Range(batch)}
  BY <1>1 DEF RouteInv, TypeOK
<1>5. created \intersect DOMAIN items = {}
  <2>1. \A k \in created : k \in DOMAIN saved /\ k \in NewItems
    BY <1>1 DEF RouteInv, TypeOK
  <2>2. QED
    BY <1>1, <2>1, SavedIsNotMade
<1>6. items' = Promise!With(items, created, "open") /\ DOMAIN items' = DOMAIN items \union created
  BY DEF CommitCycle, Upsert, Promise!With
<1>7. enqueued \in Seq(Keys) /\ \A k \in Range(enqueued) : k \in Keys
  <2>1. enqueued \in Seq(Keys)
    BY <1>1 DEF TypeOK
  <2>2. QED
    BY <2>1, InRange
<1>8. \A k \in Range(enqueued) : /\ k \in DOMAIN saved /\ k.source \in Range(batch)
                                 /\ k.target \in DOMAIN items \union created \union {None}
                                 /\ \A r \in DOMAIN reviews : reviews[r].key # k
  <2>1. \A k \in Range(enqueued) : k \in DOMAIN saved
    BY <1>1 DEF RouteInv
  <2>2. \A k \in Range(enqueued) : \A r \in DOMAIN reviews : reviews[r].key # k
    BY <1>1, <2>1, SavedIsNew
  <2>3. QED
    BY <1>1, <2>1, <2>2 DEF RouteInv
<1>9. Range(enqueued) \in SUBSET {k \in Keys : k.source \in Range(batch)}
  BY <1>7, <1>8
<1>10. Range(enqueued) \intersect Asked = {}
  BY <1>8 DEF Asked
<1>11. Range(enqueued) \intersect NewItems \intersect DOMAIN items' = {}
  <2>1. ASSUME NEW k \in Range(enqueued), k \in NewItems PROVE k \notin DOMAIN items'
    <3>1. k.type = "create_item" /\ k \in DOMAIN saved
      BY <1>8, <2>1, CreateKeys
    <3>2. k \notin created
      BY <1>1, <3>1 DEF OnceInv
    <3>3. k \notin DOMAIN items
      BY <1>1, <2>1, <3>1, SavedIsNotMade
    <3>4. QED
      BY <1>6, <3>2, <3>3
  <2>2. QED
    BY <2>1
<1>12. \A k \in Range(enqueued) : k.target \in DOMAIN items' \union {None}
  BY <1>6, <1>8
<1>13. ASSUME NEW k \in Range(enqueued) PROVE k \in Asked' /\ AnswerTo(k)' = "pending"
  <2>1. PICK i \in 1 .. Len(enqueued) : enqueued[i] = k
    BY <1>7, InRange
  <2>2. PICK r \in DOMAIN reviews' : reviews'[r].key = k /\ reviews'[r].state = "pending"
    BY <1>1, <2>1, CommitReviews
  <2>3. QED
    BY <2>2, AnswersAfter
<1>14. ASSUME NEW k \in Asked PROVE k \in Asked' /\ AnswerTo(k)' = AnswerTo(k)
  <2>1. PICK r \in DOMAIN reviews : reviews[r].key = k
    BY DEF Asked
  <2>2. r \in DOMAIN reviews' /\ reviews'[r] = reviews[r]
    BY <1>1, CommitReviews
  <2>3. AnswerTo(k) = reviews[r].state
    BY <1>1, <2>1, Answers
  <2>4. k \in Asked' /\ AnswerTo(k)' = reviews'[r].state
    BY <2>1, <2>2, AnswersAfter
  <2>5. QED
    BY <2>2, <2>3, <2>4
<1>15. ASSUME NEW k \in Asked' PROVE k \in Asked \union Range(enqueued)
  <2>1. PICK r \in DOMAIN reviews' : reviews'[r].key = k
    BY DEF Asked
  <2>2. CASE r \in DOMAIN reviews
    <3>1. reviews[r].key = k
      BY <1>1, <2>1, <2>2, CommitReviews
    <3>2. QED
      BY <2>2, <3>1 DEF Asked
  <2>3. CASE r \notin DOMAIN reviews
    <3>1. PICK i \in 1 .. Len(enqueued) : r = Len(reviews) + i
      BY <1>1, <2>3, CommitReviews
    <3>2. enqueued[i] = k
      BY <1>1, <2>1, <3>1, CommitReviews
    <3>3. QED
      BY <1>7, <3>2, InRange
  <2>4. QED
    BY <2>2, <2>3
<1>16. PAsked' = Promise!With(PAsked, Range(enqueued), "pending")
  <2>1. Asked' = Asked \union Range(enqueued)
    BY <1>13, <1>14, <1>15
  <2>2. QED
    BY <1>10, <1>13, <1>14, <2>1 DEF PAsked, Promise!With
<1>17. QED
  BY <1>1, <1>2, <1>3, <1>4, <1>5, <1>6, <1>9, <1>10, <1>11, <1>12, <1>16, WorkStep

-----------------------------------------------------------------------------
(* What the owner's answers do to the questions.                           *)

LEMMA AskedKept ==
  ASSUME TypeOK, OneReview, OneReview', NEW r \in DOMAIN reviews,
         NEW state \in {"approved", "rejected"}, Resolve(r, state)
  PROVE  /\ Asked' = Asked
         /\ \A k \in Asked : AnswerTo(k)' = IF k = reviews[r].key /\ reviews[r].state = "pending"
                                              THEN state ELSE AnswerTo(k)
<1>1. /\ DOMAIN reviews' = DOMAIN reviews
      /\ \A s \in DOMAIN reviews : /\ reviews'[s].key = reviews[s].key
                                   /\ reviews'[s].state = IF s = r /\ reviews[r].state = "pending"
                                                            THEN state ELSE reviews[s].state
  BY ResolveType
<1>2. Asked' = Asked
  BY <1>1 DEF Asked
<1>3. ASSUME NEW k \in Asked
      PROVE  AnswerTo(k)' = IF k = reviews[r].key /\ reviews[r].state = "pending" THEN state ELSE AnswerTo(k)
  <2>1. PICK s \in DOMAIN reviews : reviews[s].key = k
    BY DEF Asked
  <2>2. AnswerTo(k) = reviews[s].state
    BY <2>1, Answers
  <2>3. AnswerTo(k)' = reviews'[s].state
    BY <1>1, <2>1, AnswersAfter
  <2>4. k = reviews[r].key <=> s = r
    BY <2>1 DEF OneReview
  <2>5. QED
    BY <1>1, <2>2, <2>3, <2>4
<1>4. QED
  BY <1>2, <1>3

LEMMA AnswerStep ==
  ASSUME TypeOK, OneReview, OneReview', NEW r \in DOMAIN reviews, reviews[r].state = "pending",
         NEW state \in {"approved", "rejected"}, Resolve(r, state)
  PROVE  /\ reviews[r].key \in DOMAIN PAsked /\ PAsked[reviews[r].key] = "pending"
         /\ PAsked' = [PAsked EXCEPT ![reviews[r].key] = state]
<1>1. \E k : k = reviews[r].key
  OBVIOUS
<1>2. PICK k : k = reviews[r].key
  BY <1>1
<1>3. k \in Asked /\ AnswerTo(k) = "pending"
  BY <1>2, Answers
<1>4. Asked' = Asked /\ \A x \in Asked : AnswerTo(x)' = IF x = k THEN state ELSE AnswerTo(x)
  BY <1>2, AskedKept
<1>5. PAsked' = [PAsked EXCEPT ![k] = state]
  BY <1>4 DEF PAsked
<1>6. QED
  BY <1>2, <1>3, <1>5 DEF PAsked

LEMMA ApproveStep ==
  ASSUME TypeOK, StoreInv, ConsentInv, OneReview, OneReview', NEW r \in DOMAIN reviews, Approve(r)
  PROVE  Promise!Approve(reviews[r].key)
<1> DEFINE k == reviews[r].key
<1>1. /\ k \in DOMAIN PAsked /\ PAsked[k] = "pending"
      /\ PAsked' = [PAsked EXCEPT ![k] = "approved"]
  BY AnswerStep DEF Approve
<1>2. k \in Keys
  <2>1. reviews[r] \in ReviewRow
    BY DEF TypeOK
  <2>2. QED
    BY <2>1 DEF ReviewRow
<1>3. PStage' = PStage
  BY DEF Approve, stages, PStage, StageOf
<1>4. Supported(k) /\ items' = Upsert(Effect(k), items) /\ reviews[r].state = "pending"
  BY DEF Approve
<1>5. CASE k.type = "create_item"
  <2>1. k \in NewItems
    BY <1>2, <1>5, CreateKeys
  <2>2. k \notin DOMAIN items
    BY <1>4, <2>1, PendingIsNotMade
  <2>3. items' = Promise!With(items, {k}, "open")
    BY <1>4, <1>5 DEF Effect, Single, Upsert, Promise!With
  <2>4. QED
    BY <1>1, <1>3, <2>1, <2>2, <2>3 DEF Promise!Approve, PStage, PAsked
<1>6. CASE k.type # "create_item"
  <2>1. k.type = "update_item_status"
    BY <1>4, <1>6 DEF Supported
  <2>2. k.target \in ItemIds
    BY <1>2, <2>1, CreateKeys
  <2>3. k.target \in DOMAIN items
    BY <2>2, ItemAssumption DEF StoreInv, ReviewInv
  <2>4. items' = [items EXCEPT ![k.target] = k.status]
    <3>1. items \in [DOMAIN items -> Statuses]
      BY DEF TypeOK, IsTable
    <3>2. QED
      BY <1>4, <1>6, <2>3, <3>1 DEF Effect, Single, Upsert
  <2>5. QED
    BY <1>1, <1>3, <2>3, <2>4 DEF Promise!Approve, PStage, PAsked
<1>7. QED
  BY <1>5, <1>6

-----------------------------------------------------------------------------
LEMMA PromiseStep ==
  ~MayRepeat /\ IInv /\ OneReview' /\ [Next]_vars => [Promise!Next]_(Promise!promiseVars)
<1> SUFFICES ASSUME ~MayRepeat, IInv, OneReview', [Next]_vars
             PROVE  Promise!Next \/ UNCHANGED Promise!promiseVars
  OBVIOUS
<1> USE DEF stages, store, owner
<1>1. TypeOK /\ QueueInv /\ CycleInv /\ StoreInv /\ ConsentInv /\ OneReview
  BY DEF IInv
<1>2. ASSUME UNCHANGED <<filter, extracted, reviews, items>> PROVE UNCHANGED Promise!promiseVars
  BY <1>2 DEF Promise!promiseVars, StageOf, Asked, AnswerTo
<1>3. Judged \in SUBSET Messages /\ {} \in SUBSET Messages /\ Range(batch) \in SUBSET Messages
  <2>1. Judged \in SUBSET Messages
    BY <1>1 DEF TypeOK, IsTable, Judged
  <2>2. \A m \in Range(batch) : m \in Messages
    BY <1>1, InRange DEF TypeOK
  <2>3. QED
    BY <2>1, <2>2
<1>4. ASSUME NEW m \in Messages, StoreMessage(m) PROVE Promise!Next
  <2>1. PStage[m] = "unseen" /\ PStage' = [PStage EXCEPT ![m] = "received"]
    <3>1. filter[m] = "absent" /\ filter' = [filter EXCEPT ![m] = "new"] /\ extracted' = extracted
      BY <1>4 DEF StoreMessage
    <3>2. \A x \in Messages : filter'[x] = IF x = m THEN "new" ELSE filter[x]
      BY <1>1, <3>1 DEF TypeOK
    <3>3. StageOf(m) = "unseen" /\ StageOf(m)' = "received"
      BY <3>1, <3>2 DEF StageOf
    <3>4. \A x \in Messages \ {m} : StageOf(x)' = StageOf(x)
      BY <3>1, <3>2 DEF StageOf
    <3>5. QED
      BY <3>3, <3>4 DEF PStage
  <2>2. PAsked' = PAsked /\ items' = items
    BY <1>4 DEF StoreMessage, PAsked, Asked, AnswerTo
  <2>3. Promise!Receive(m)
    BY <2>1, <2>2 DEF Promise!Receive, PStage, PAsked
  <2>4. QED
    BY <2>3 DEF Promise!Next
<1>5. CASE NothingQueued \/ LLMFails
  <2>1. Promise!Work(Judged, {})
    BY <1>1, <1>5, KeepStep DEF NothingQueued, LLMFails
  <2>2. QED
    BY <1>3, <2>1 DEF Promise!Next
<1>6. CASE CommitCycle
  <2>1. Promise!Work(Judged, Range(batch))
    BY <1>6, CommitStep
  <2>2. QED
    BY <1>3, <2>1 DEF Promise!Next
<1>7. ASSUME NEW r \in DOMAIN reviews, Approve(r) PROVE Promise!Next
  <2>1. Promise!Approve(reviews[r].key)
    BY <1>1, <1>7, ApproveStep
  <2>2. reviews[r].key \in Asked
    BY DEF Asked
  <2>3. QED
    BY <2>1, <2>2 DEF Promise!Next
<1>8. ASSUME NEW r \in DOMAIN reviews, Reject(r) PROVE Promise!Next \/ UNCHANGED Promise!promiseVars
  <2>1. Resolve(r, "rejected") /\ UNCHANGED <<filter, extracted, items>>
    BY <1>8 DEF Reject
  <2>2. PStage' = PStage
    BY <2>1 DEF PStage, StageOf
  <2>3. CASE reviews[r].state = "pending"
    <3>1. /\ reviews[r].key \in Asked /\ PAsked[reviews[r].key] = "pending"
          /\ PAsked' = [PAsked EXCEPT ![reviews[r].key] = "rejected"]
      BY <1>1, <2>1, <2>3, AnswerStep DEF PAsked
    <3>2. Promise!Reject(reviews[r].key)
      BY <2>1, <2>2, <3>1 DEF Promise!Reject, PStage, PAsked
    <3>3. QED
      BY <3>1, <3>2 DEF Promise!Next
  <2>4. CASE reviews[r].state # "pending"
    <3>1. Asked' = Asked /\ \A k \in Asked : AnswerTo(k)' = AnswerTo(k)
      BY <1>1, <2>1, <2>4, AskedKept
    <3>2. QED
      BY <2>1, <2>2, <3>1 DEF Promise!promiseVars, PStage
  <2>5. QED
    BY <2>3, <2>4
<1>9. ASSUME NEW i \in DOMAIN items, SetStatus(i) PROVE Promise!Next
  <2>1. UNCHANGED <<filter, extracted, reviews>> /\ items' = [items EXCEPT ![i] = "completed"]
    BY <1>9 DEF SetStatus
  <2>2. PStage' = PStage /\ PAsked' = PAsked
    BY <2>1 DEF PStage, StageOf, PAsked, Asked, AnswerTo
  <2>3. Promise!Press(i)
    BY <2>1, <2>2 DEF Promise!Press, PStage, PAsked
  <2>4. QED
    BY <2>3 DEF Promise!Next
<1>10. CASE \E bad \in SUBSET Messages : StartCycle(bad)
  BY <1>2, <1>10 DEF StartCycle
<1>11. CASE LLMAnswers \/ WorkerDies \/ ListReviews
  BY <1>2, <1>11 DEF LLMAnswers, WorkerDies, ListReviews
<1>12. ASSUME NEW p \in Proposals, RouteProposal(p) \/ UnknownTarget(p) PROVE UNCHANGED Promise!promiseVars
  BY <1>2, <1>12 DEF RouteProposal, UnknownTarget
<1>13. ASSUME NEW r \in DOMAIN reviews, ApproveUnsupported(r) PROVE UNCHANGED Promise!promiseVars
  BY <1>2, <1>13 DEF ApproveUnsupported
<1>14. CASE UNCHANGED vars
  BY <1>2, <1>14 DEF vars
<1>15. QED
  BY <1>4, <1>5, <1>6, <1>7, <1>8, <1>9, <1>10, <1>11, <1>12, <1>13, <1>14 DEF Next

(* If no answer proposes one action twice, the worker with its queue and   *)
(* its cycles, whatever fails and rolls back, and the bot with its old     *)
(* buttons keep the promise: each message is extracted at most once, each  *)
(* question is put once, and its answer stands.                            *)
THEOREM Refinement == ASSUME ~MayRepeat PROVE Spec => ImplementsPromise
<1>1. IInv => OneReview
  BY DEF IInv
<1>2. ~MayRepeat /\ IInv /\ OneReview' /\ [Next]_vars => [Promise!Next]_(Promise!promiseVars)
  BY PromiseStep
<1>3. QED
  BY <1>1, <1>2, PromiseInit, InvHolds, PTL DEF Spec, ImplementsPromise, Promise!Spec
=============================================================================
