----------------------- MODULE ActionPipeline_proofs -----------------------
(***************************************************************************)
(* Proofs about ActionPipeline.  The queue and the open cycle: a candidate *)
(* is in one place, and what a cycle writes is about its batch (QueueInv,  *)
(* CycleInv).  The tables: an action that waits has its review (RouteInv,  *)
(* StoreInv).  Consent, of answers that repeat no action: an action has    *)
(* one review at most, and an item its proposal or its approval (OnceInv,  *)
(* OneReview, ConsentInv).                                                 *)
(***************************************************************************)
EXTENDS ActionPipeline, FiniteSetTheorems, SequenceTheorems, WellFoundedInduction, TLAPS

(* The greatest index of a set of indices exists.                          *)
LEMMA MaxIsIn == ASSUME NEW n \in Nat, NEW S \in SUBSET (1 .. n), S # {}
                 PROVE  Max(S) \in S
<1> DEFINE T == {n - i : i \in S}
<1>1. ASSUME NEW i \in S PROVE i \in Int /\ n - i \in Nat
  OBVIOUS
<1>2. T \subseteq Nat
  BY <1>1
<1>3. T # {}
  <2>1. PICK i \in S : TRUE
    OBVIOUS
  <2>2. n - i \in T
    BY <2>1
  <2>3. QED
    BY <2>2
<1>4. PICK x \in T : \A y \in T : ~ (<<y, x>> \in OpToRel(<, Nat))
  <2> HIDE DEF T
  <2>1. QED
    BY <1>2, <1>3, NatLessThanWellFounded, WFMin
<1>5. \A y \in T : ~ (y < x)
  BY <1>2, <1>4 DEF OpToRel
<1>6. PICK i \in S : x = n - i
  BY <1>4
<1>7. \A j \in S : i >= j
  BY <1>1, <1>5, <1>6
<1>8. QED
  BY <1>7 DEF Max

-----------------------------------------------------------------------------
(* Sequences and tables.                                                   *)

LEMMA InRange == ASSUME NEW S, NEW s \in Seq(S), NEW x
                 PROVE  x \in Range(s) <=> \E i \in 1 .. Len(s) : s[i] = x
BY DEF Range

LEMMA FirstOfSeq ==
  ASSUME NEW S, NEW s \in Seq(S), NEW n \in Nat
  PROVE  /\ FirstOf(s, n) \in Seq(S)
         /\ Len(FirstOf(s, n)) = IF n < Len(s) THEN n ELSE Len(s)
         /\ \A i \in 1 .. Len(FirstOf(s, n)) : FirstOf(s, n)[i] = s[i]
<1> DEFINE k == IF n < Len(s) THEN n ELSE Len(s)
<1>1. k \in Nat /\ k <= Len(s)
  OBVIOUS
<1>2. \A i \in 1 .. k : s[i] \in S
  BY <1>1
<1>3. /\ SubSeq(s, 1, k) \in Seq(S)
      /\ Len(SubSeq(s, 1, k)) = IF 1 <= k THEN k - 1 + 1 ELSE 0
      /\ \A i \in 1 .. k - 1 + 1 : SubSeq(s, 1, k)[i] = s[1 + i - 1]
  BY <1>1, <1>2, SubSeqProperties
<1>4. FirstOf(s, n) = SubSeq(s, 1, k)
  BY DEF FirstOf
<1>5. QED
  BY <1>1, <1>3, <1>4

LEMMA RestOfSeq ==
  ASSUME NEW S, NEW s \in Seq(S), NEW n \in 0 .. Len(s)
  PROVE  /\ RestOf(s, n) \in Seq(S)
         /\ Len(RestOf(s, n)) = Len(s) - n
         /\ \A i \in 1 .. Len(s) - n : RestOf(s, n)[i] = s[n + i]
<1>1. \A i \in n + 1 .. Len(s) : s[i] \in S
  OBVIOUS
<1>2. /\ SubSeq(s, n + 1, Len(s)) \in Seq(S)
      /\ Len(SubSeq(s, n + 1, Len(s))) = IF n + 1 <= Len(s) THEN Len(s) - (n + 1) + 1 ELSE 0
      /\ \A i \in 1 .. Len(s) - (n + 1) + 1 : SubSeq(s, n + 1, Len(s))[i] = s[n + 1 + i - 1]
  BY <1>1, SubSeqProperties
<1>3. QED
  BY <1>2 DEF RestOf

LEMMA UpsertTable ==
  ASSUME NEW K, NEW V, NEW f, NEW g, IsTable(f, K, V), IsTable(g, K, V)
  PROVE  /\ IsTable(Upsert(f, g), K, V)
         /\ DOMAIN Upsert(f, g) = DOMAIN f \union DOMAIN g
         /\ \A k \in DOMAIN f : Upsert(f, g)[k] = f[k]
         /\ \A k \in DOMAIN g \ DOMAIN f : Upsert(f, g)[k] = g[k]
BY DEF Upsert, IsTable

LEMMA SingleTable == ASSUME NEW K, NEW V, NEW k \in K, NEW v \in V
                     PROVE  /\ IsTable(Single(k, v), K, V)
                            /\ DOMAIN Single(k, v) = {k} /\ Single(k, v)[k] = v
BY DEF Single, IsTable

LEMMA UpsertOne ==
  ASSUME NEW K, NEW V, NEW table, IsTable(table, K, V), NEW k \in K, NEW v \in V
  PROVE  /\ IsTable(Upsert(Single(k, v), table), K, V)
         /\ DOMAIN Upsert(Single(k, v), table) = DOMAIN table \union {k}
         /\ Upsert(Single(k, v), table)[k] = v
         /\ \A x \in DOMAIN table \ {k} : Upsert(Single(k, v), table)[x] = table[x]
<1>1. \A x \in DOMAIN Single(k, v) : Single(k, v)[x] = v
  BY DEF Single
<1>2. DOMAIN Single(k, v) = {k}
  BY DEF Single
<1>3. QED
  BY <1>1, <1>2 DEF Upsert, IsTable

LEMMA EmptyTable == ASSUME NEW K, NEW V PROVE IsTable(EmptyMap, K, V) /\ DOMAIN EmptyMap = {}
BY DEF EmptyMap, IsTable

-----------------------------------------------------------------------------
(* Proposals and their keys.                                               *)

LEMMA ProposalKinds ==
  ASSUME NEW p \in Proposals
  PROVE  /\ p.cited \in Messages /\ p.confidence \in {"high", "low"}
         /\ p.type \in {"create_item", "schedule_notification", "update_item_status"}
         /\ p.type # "update_item_status" => p.target = None /\ p.status = None
         /\ p.type = "update_item_status" =>
              p.target \in DOMAIN items \union Invented /\ p.status \in Statuses
BY DEF Proposals

LEMMA SourceInBatch ==
  ASSUME TypeOK, NEW p, Matching(Number[p.cited]) # {}
  PROVE  SourceOf(p) \in Range(batch) /\ SourceOf(p) \in Messages
<1>1. Len(batch) \in Nat /\ DOMAIN batch = 1 .. Len(batch)
  BY DEF TypeOK
<1>2. Matching(Number[p.cited]) \subseteq 1 .. Len(batch)
  BY <1>1 DEF Matching
<1>3. Max(Matching(Number[p.cited])) \in 1 .. Len(batch)
  BY <1>1, <1>2, MaxIsIn
<1>4. QED
  BY <1>1, <1>3 DEF SourceOf, Range, TypeOK

(* A proposal that is saved has a target that exists, so its key is one.   *)
LEMMA KeyType ==
  ASSUME TypeOK, NEW p \in Proposals, Matching(Number[p.cited]) # {},
         p.target = None \/ p.target \in DOMAIN items \union created
  PROVE  /\ KeyOf(p) \in Keys
         /\ KeyOf(p).source = SourceOf(p) /\ KeyOf(p).target = p.target /\ KeyOf(p).type = p.type
         /\ p.type = "create_item" => KeyOf(p) = CreateKey(SourceOf(p)) /\ KeyOf(p) \in NewItems
<1>1. SourceOf(p) \in Messages
  BY SourceInBatch
<1>2. p.type = "create_item" => KeyOf(p) = CreateKey(SourceOf(p)) /\ KeyOf(p) \in NewItems
  BY <1>1, ProposalKinds DEF KeyOf, CreateKey, NewItems
<1>3. CASE p.type = "create_item"
  BY <1>2, <1>3 DEF Keys, KeyOf, Key
<1>4. CASE p.type = "schedule_notification"
  BY <1>1, <1>2, <1>4, ProposalKinds DEF Keys, KeyOf, Key
<1>5. CASE p.type = "update_item_status"
  <2>1. p.target \in ItemIds /\ p.status \in Statuses
    BY <1>5, ProposalKinds, ItemAssumption DEF TypeOK, IsTable, ItemIds
  <2>2. QED
    BY <1>1, <1>2, <1>5, <2>1 DEF Keys, KeyOf, Key
<1>6. QED
  BY <1>3, <1>4, <1>5, ProposalKinds

LEMMA RowType == ASSUME NEW p \in Proposals, NEW state \in {"review", "applied"}
                 PROVE  Row(p, state) \in ActionRows
BY ProposalKinds DEF Row, ActionRows

-----------------------------------------------------------------------------
(* Type correctness.                                                       *)

LEMMA TypeInit == Init => TypeOK
<1> SUFFICES ASSUME Init PROVE TypeOK
  OBVIOUS
<1>1. IsTable(actions, Keys, ActionRows) /\ IsTable(saved, Keys, ActionRows)
      /\ IsTable(verdict, Messages, {"failed", "processed"})
  BY EmptyTable DEF Init
<1>2. IsTable(items, ItemIds, Statuses)
  BY DEF Init, IsTable, ItemIds, Statuses
<1>3. \A S : <<>> \in Seq(S)
  OBVIOUS
<1>4. QED
  BY <1>1, <1>2, <1>3 DEF Init, TypeOK

LEMMA EffectType == ASSUME NEW k \in Keys, Supported(k)
                    PROVE  /\ IsTable(Effect(k), ItemIds, Statuses)
                           /\ k.type = "create_item" => k \in NewItems /\ DOMAIN Effect(k) = {k}
                           /\ k.type # "create_item" => k.target \in ItemIds /\ DOMAIN Effect(k) = {k.target}
<1>1. CASE k.type = "create_item"
  <2>1. k \in NewItems
    BY <1>1 DEF Keys, Key
  <2>2. k \in ItemIds /\ "open" \in Statuses
    BY <2>1 DEF ItemIds, Statuses
  <2>3. Effect(k) = Single(k, "open")
    BY <1>1 DEF Effect
  <2>4. IsTable(Single(k, "open"), ItemIds, Statuses) /\ DOMAIN Single(k, "open") = {k}
    BY <2>2, SingleTable
  <2>5. QED
    BY <1>1, <2>1, <2>3, <2>4
<1>2. CASE k.type = "update_item_status"
  <2>1. k.target \in ItemIds /\ k.status \in Statuses
    BY <1>2 DEF Keys, Key, NewItems, CreateKey
  <2>2. Effect(k) = Single(k.target, k.status)
    BY <1>2 DEF Effect
  <2>3. IsTable(Single(k.target, k.status), ItemIds, Statuses) /\ DOMAIN Single(k.target, k.status) = {k.target}
    BY <2>1, SingleTable
  <2>4. QED
    BY <1>2, <2>1, <2>2, <2>3
<1>3. QED
  BY <1>1, <1>2 DEF Supported

LEMMA CycleOverType ==
  ASSUME TypeOK, CycleOver, UNCHANGED <<store, owner>>, faults' \in Nat,
         filter' \in [Messages -> {"absent", "new", "failed", "processed"}],
         queue' \in Seq(Messages), extracted' \subseteq Messages
  PROVE  TypeOK'
<1>1. IsTable(saved', Keys, ActionRows) /\ IsTable(verdict', Messages, {"failed", "processed"})
  BY EmptyTable DEF CycleOver
<1>2. \A S : <<>> \in Seq(S)
  OBVIOUS
<1>3. UNCHANGED <<actions, reviews, items, shown, refused, presses>>
  BY DEF store, owner
<1>4. QED
  BY <1>1, <1>2, <1>3 DEF CycleOver, TypeOK, IsTable

LEMMA QueuedType == ASSUME TypeOK PROVE Queued \in Seq(Messages) /\ Len(Queued) = Len(queue) + Len(fresh)
BY ConcatProperties DEF TypeOK, Queued

LEMMA VerdictType ==
  ASSUME TypeOK
  PROVE  /\ Upsert(verdict, filter) \in [Messages -> {"absent", "new", "failed", "processed"}]
         /\ \A m \in Messages : Upsert(verdict, filter)[m] = IF m \in DOMAIN verdict THEN verdict[m] ELSE filter[m]
<1>1. /\ DOMAIN verdict \subseteq Messages /\ DOMAIN filter = Messages
      /\ \A m \in DOMAIN verdict : verdict[m] \in {"failed", "processed"}
      /\ \A m \in Messages : filter[m] \in {"absent", "new", "failed", "processed"}
  BY DEF TypeOK, IsTable
<1>2. DOMAIN verdict \union DOMAIN filter = Messages
  BY <1>1
<1>3. QED
  BY <1>1, <1>2 DEF Upsert

LEMMA MarkType ==
  ASSUME TypeOK, NEW k, NEW state \in {"applied", "rejected"}, MarkAction(k, state)
  PROVE  /\ IsTable(actions', Keys, ActionRows) /\ DOMAIN actions' = DOMAIN actions
         /\ \A x \in DOMAIN actions : /\ actions'[x].confidence = actions[x].confidence
                                      /\ actions'[x].state = IF x = k THEN state ELSE actions[x].state
<1>1. actions \in [DOMAIN actions -> ActionRows] /\ DOMAIN actions \subseteq Keys
  BY DEF TypeOK, IsTable
<1>2. \A x \in DOMAIN actions : actions[x] \in ActionRows /\ [actions[x] EXCEPT !.state = state] \in ActionRows
  BY <1>1 DEF ActionRows
<1>3. actions' = [actions EXCEPT ![k] = [actions[k] EXCEPT !.state = state]]
  BY DEF MarkAction
<1>4. /\ DOMAIN actions' = DOMAIN actions
      /\ \A x \in DOMAIN actions : actions'[x] = IF x = k THEN [actions[x] EXCEPT !.state = state] ELSE actions[x]
  BY <1>1, <1>3
<1>5. actions' \in [DOMAIN actions -> ActionRows]
  BY <1>1, <1>2, <1>3
<1>6. \A x \in DOMAIN actions : actions'[x].confidence = actions[x].confidence
                              /\ actions'[x].state = IF x = k THEN state ELSE actions[x].state
  BY <1>2, <1>4 DEF ActionRows
<1>7. QED
  BY <1>1, <1>4, <1>5, <1>6 DEF IsTable

LEMMA ResolveType ==
  ASSUME TypeOK, NEW r \in DOMAIN reviews, NEW state \in {"approved", "rejected"}, Resolve(r, state)
  PROVE  /\ reviews' \in Seq(ReviewRow) /\ DOMAIN reviews' = DOMAIN reviews
         /\ \A s \in DOMAIN reviews : /\ reviews'[s].key = reviews[s].key
                                      /\ reviews'[s].state = IF s = r /\ reviews[r].state = "pending"
                                                               THEN state ELSE reviews[s].state
<1>1. reviews[r] \in ReviewRow
  BY DEF TypeOK
<1>2. [reviews[r] EXCEPT !.state = IF @ = "pending" THEN state ELSE @] \in ReviewRow
  BY <1>1 DEF ReviewRow
<1>3. reviews' = [reviews EXCEPT ![r] = [reviews[r] EXCEPT !.state = IF @ = "pending" THEN state ELSE @]]
  BY DEF Resolve
<1>4. reviews' \in Seq(ReviewRow) /\ DOMAIN reviews' = DOMAIN reviews
  BY <1>2, <1>3 DEF TypeOK
<1>5. \A s \in DOMAIN reviews : reviews[s] \in ReviewRow
  BY DEF TypeOK
<1>6. QED
  BY <1>3, <1>4, <1>5 DEF TypeOK, ReviewRow

LEMMA SubsetSize == ASSUME NEW S, S \subseteq Messages PROVE Cardinality(S) \in Nat
BY FS_Subset, FS_CardinalityType, PipelineAssumption

LEMMA SortedType ==
  ASSUME NEW S, S \subseteq Messages, NEW s \in InSentOrder(S)
  PROVE  /\ s \in Seq(Messages) /\ Len(s) = Cardinality(S) /\ Range(s) = S
         /\ \A i, j \in 1 .. Len(s) : s[i] = s[j] => i = j
<1>1. Cardinality(S) \in Nat
  BY SubsetSize
<1>2. s \in [1 .. Cardinality(S) -> S] /\ Range(s) = S
      /\ \A i, j \in DOMAIN s : i < j => SentAt[s[i]] < SentAt[s[j]]
  BY DEF InSentOrder
<1>3. s \in Seq(Messages) /\ Len(s) = Cardinality(S)
  BY <1>1, <1>2
<1>4. ASSUME NEW i \in 1 .. Len(s), NEW j \in 1 .. Len(s), s[i] = s[j] PROVE i = j
  <2>1. SentAt[s[i]] \in Int
    BY <1>3, PipelineAssumption
  <2>2. i \in DOMAIN s /\ j \in DOMAIN s /\ i \in Int /\ j \in Int
    BY <1>2, <1>3
  <2>3. ~ (i < j) /\ ~ (j < i)
    BY <1>2, <1>4, <2>1, <2>2
  <2>4. QED
    BY <2>2, <2>3
<1>5. QED
  BY <1>2, <1>3, <1>4

(* What a cycle begins with.                                               *)
LEMMA CycleStart ==
  ASSUME TypeOK, NEW bad, StartCycle(bad)
  PROVE  /\ DOMAIN verdict' = PendingMessages /\ PendingMessages \subseteq Messages
         /\ IsTable(verdict', Messages, {"failed", "processed"})
         /\ fresh' \in Seq(Messages)
         /\ Range(fresh') = {m \in DOMAIN verdict' \intersect Worth : verdict'[m] = "processed"}
         /\ \A i, j \in 1 .. Len(fresh') : fresh'[i] = fresh'[j] => i = j
         /\ batch' = FirstOf(queue \o fresh', BatchSize) /\ batch' \in Seq(Messages)
         /\ faults' \in Nat
<1> DEFINE states == [m \in PendingMessages |-> IF m \in bad THEN "failed" ELSE "processed"]
<1>1. PendingMessages \subseteq Messages
  BY DEF PendingMessages, EarliestSent
<1>2. verdict' = states /\ bad \subseteq PendingMessages
  BY DEF StartCycle
<1>3. IsTable(states, Messages, {"failed", "processed"}) /\ DOMAIN states = PendingMessages
  BY <1>1 DEF IsTable
<1>4. Candidates(states) \subseteq Messages
  BY <1>1 DEF Candidates
<1>5. fresh' \in InSentOrder(Candidates(states))
  BY DEF StartCycle
<1>6. fresh' \in Seq(Messages) /\ Range(fresh') = Candidates(states)
      /\ \A i, j \in 1 .. Len(fresh') : fresh'[i] = fresh'[j] => i = j
  <2> HIDE DEF states
  <2>1. QED
    BY <1>4, <1>5, SortedType
<1>7. queue \o fresh' \in Seq(Messages)
  BY <1>6, ConcatProperties DEF TypeOK
<1>8. batch' = FirstOf(queue \o fresh', BatchSize)
  BY DEF StartCycle
<1>9. batch' \in Seq(Messages)
  BY <1>7, <1>8, FirstOfSeq, PipelineAssumption
<1>10. faults' \in Nat
  <2>1. Cardinality(bad) \in Nat
    BY <1>1, <1>2, SubsetSize
  <2>2. QED
    BY <2>1 DEF StartCycle, TypeOK
<1>11. Range(fresh') = {m \in DOMAIN verdict' \intersect Worth : verdict'[m] = "processed"}
  BY <1>2, <1>6 DEF Candidates
<1>12. QED
  BY <1>1, <1>2, <1>3, <1>6, <1>8, <1>9, <1>10, <1>11

(* What routing one proposal does to the uncommitted writes.               *)
LEMMA Routing ==
  ASSUME TypeOK, NEW p \in Proposals, RouteProposal(p)
  PROVE  /\ UNCHANGED <<stages, store, owner, faults, pc, batch, verdict, fresh>>
         /\ pc = "routing" /\ routed' \in Nat
         /\ \/ UNCHANGED <<saved, enqueued, created>>
            \/ /\ MayRepeat \/ KeyOf(p) \notin DOMAIN saved
               /\ KeyOf(p) \in Keys /\ KeyOf(p).source \in Range(batch)
               /\ IsTable(saved', Keys, ActionRows) /\ DOMAIN saved' = DOMAIN saved \union {KeyOf(p)}
               /\ saved'[KeyOf(p)].confidence = p.confidence
               /\ \A k \in DOMAIN saved \ {KeyOf(p)} : saved'[k] = saved[k]
               /\ \/ /\ saved'[KeyOf(p)].state = "applied"
                     /\ KeyOf(p).type = "create_item" /\ p.confidence = "high"
                     /\ KeyOf(p) \in NewItems
                     /\ created' = created \union {KeyOf(p)} /\ enqueued' = enqueued
                  \/ /\ saved'[KeyOf(p)].state = "review"
                     /\ KeyOf(p).type = "create_item" => p.confidence = "low"
                     /\ KeyOf(p).target \in DOMAIN items \union created \union {None}
                     /\ created' = created /\ enqueued' = Append(enqueued, KeyOf(p))
<1> DEFINE k == KeyOf(p)
<1>1. /\ UNCHANGED <<stages, store, owner, faults, pc, batch, verdict, fresh>>
      /\ pc = "routing" /\ routed' \in Nat
  BY DEF RouteProposal, SkipProposal, ApplyCreate, RouteToReview, TypeOK
<1>2. CASE SkipProposal(p)
  BY <1>1, <1>2 DEF SkipProposal
<1>3. ASSUME Matching(Number[p.cited]) # {}, NEW state \in {"review", "applied"},
             p.target = None \/ p.target \in DOMAIN items \union created,
             saved' = Upsert(Single(k, Row(p, state)), saved)
      PROVE  /\ MayRepeat \/ k \notin DOMAIN saved
             /\ k \in Keys /\ k.source \in Range(batch) /\ k.target = p.target /\ k.type = p.type
             /\ IsTable(saved', Keys, ActionRows) /\ DOMAIN saved' = DOMAIN saved \union {k}
             /\ saved'[k].confidence = p.confidence /\ saved'[k].state = state
             /\ \A x \in DOMAIN saved \ {k} : saved'[x] = saved[x]
             /\ p.type = "create_item" => k \in NewItems
  <2>1. /\ k \in Keys /\ k.source \in Range(batch) /\ k.target = p.target /\ k.type = p.type
        /\ p.type = "create_item" => k \in NewItems
    BY <1>3, KeyType, SourceInBatch
  <2>2. Row(p, state) \in ActionRows
    BY RowType
  <2>3. MayRepeat \/ k \notin DOMAIN saved
    BY <1>3 DEF RouteProposal, Repeats
  <2>4. IsTable(saved, Keys, ActionRows)
    BY DEF TypeOK
  <2>5. /\ IsTable(saved', Keys, ActionRows) /\ DOMAIN saved' = DOMAIN saved \union {k}
        /\ saved'[k] = Row(p, state)
        /\ \A x \in DOMAIN saved \ {k} : saved'[x] = saved[x]
    BY <1>3, <2>1, <2>2, <2>4, UpsertOne
  <2>6. QED
    BY <2>1, <2>3, <2>5 DEF Row
<1>4. CASE ApplyCreate(p)
  <2>1. Matching(Number[p.cited]) # {} /\ p.target = None /\ saved' = Upsert(Single(k, Row(p, "applied")), saved)
        /\ p.type = "create_item" /\ p.confidence = "high"
        /\ created' = created \union {k} /\ enqueued' = enqueued
    BY <1>4, ProposalKinds DEF ApplyCreate
  <2>2. QED
    BY <1>1, <1>3, <2>1
<1>5. CASE RouteToReview(p)
  <2>1. /\ Matching(Number[p.cited]) # {} /\ saved' = Upsert(Single(k, Row(p, "review")), saved)
        /\ p.target = None \/ p.target \in DOMAIN items \union created
        /\ p.type = "create_item" => p.confidence = "low"
        /\ created' = created /\ enqueued' = Append(enqueued, k)
    BY <1>5, ProposalKinds DEF RouteToReview
  <2>2. QED
    BY <1>1, <1>3, <2>1
<1>6. QED
  BY <1>2, <1>4, <1>5 DEF RouteProposal

(* The tables after a commit.                                              *)
LEMMA CommitType ==
  ASSUME TypeOK, CommitCycle
  PROVE  /\ IsTable(actions', Keys, ActionRows) /\ DOMAIN actions' = DOMAIN saved \union DOMAIN actions
         /\ \A k \in DOMAIN saved : actions'[k] = saved[k]
         /\ \A k \in DOMAIN actions \ DOMAIN saved : actions'[k] = actions[k]
         /\ IsTable(items', ItemIds, Statuses) /\ DOMAIN items' = created \union DOMAIN items
         /\ \A i \in DOMAIN items \ created : items'[i] = items[i]
         /\ reviews' \in Seq(ReviewRow) /\ Len(reviews') = Len(reviews) + Len(enqueued)
         /\ \A r \in 1 .. Len(reviews) : reviews'[r] = reviews[r]
         /\ \A r \in 1 .. Len(enqueued) :
              reviews'[Len(reviews) + r] = [key |-> enqueued[r], state |-> "pending"]
<1>1. /\ IsTable(actions', Keys, ActionRows) /\ DOMAIN actions' = DOMAIN saved \union DOMAIN actions
      /\ \A k \in DOMAIN saved : actions'[k] = saved[k]
      /\ \A k \in DOMAIN actions \ DOMAIN saved : actions'[k] = actions[k]
  <2>1. actions' = Upsert(saved, actions)
    BY DEF CommitCycle
  <2>2. IsTable(saved, Keys, ActionRows) /\ IsTable(actions, Keys, ActionRows)
    BY DEF TypeOK
  <2>3. QED
    BY <2>1, <2>2 DEF Upsert, IsTable
<1>2. /\ IsTable(items', ItemIds, Statuses) /\ DOMAIN items' = created \union DOMAIN items
      /\ \A i \in DOMAIN items \ created : items'[i] = items[i]
  <2>1. items' = Upsert([i \in created |-> "open"], items)
    BY DEF CommitCycle
  <2>2. IsTable(items, ItemIds, Statuses) /\ created \subseteq ItemIds
    BY DEF TypeOK, ItemIds
  <2>3. QED
    BY <2>1, <2>2 DEF Upsert, IsTable, Statuses
<1>3. ReviewRows(enqueued) \in Seq(ReviewRow) /\ Len(ReviewRows(enqueued)) = Len(enqueued)
      /\ \A r \in 1 .. Len(enqueued) : ReviewRows(enqueued)[r] = [key |-> enqueued[r], state |-> "pending"]
  <2>1. enqueued \in Seq(Keys) /\ DOMAIN enqueued = 1 .. Len(enqueued)
    BY DEF TypeOK
  <2>2. \A r \in 1 .. Len(enqueued) : [key |-> enqueued[r], state |-> "pending"] \in ReviewRow
    BY <2>1 DEF ReviewRow
  <2>3. ReviewRows(enqueued) = [r \in 1 .. Len(enqueued) |-> [key |-> enqueued[r], state |-> "pending"]]
    BY <2>1 DEF ReviewRows
  <2>4. QED
    BY <2>1, <2>2, <2>3
<1>4. reviews \in Seq(ReviewRow) /\ reviews' = reviews \o ReviewRows(enqueued)
  BY DEF TypeOK, CommitCycle
<1>5. /\ reviews' \in Seq(ReviewRow) /\ Len(reviews') = Len(reviews) + Len(enqueued)
      /\ \A r \in 1 .. Len(reviews) + Len(enqueued) :
           reviews'[r] = IF r <= Len(reviews) THEN reviews[r] ELSE ReviewRows(enqueued)[r - Len(reviews)]
  <2>1. PICK rows : rows = ReviewRows(enqueued)
    OBVIOUS
  <2>2. rows \in Seq(ReviewRow) /\ Len(rows) = Len(enqueued) /\ reviews' = reviews \o rows
    BY <1>3, <1>4, <2>1
  <2>3. /\ reviews \o rows \in Seq(ReviewRow) /\ Len(reviews \o rows) = Len(reviews) + Len(rows)
        /\ \A r \in 1 .. Len(reviews) + Len(rows) :
             (reviews \o rows)[r] = IF r <= Len(reviews) THEN reviews[r] ELSE rows[r - Len(reviews)]
    BY <1>4, <2>2, ConcatProperties
  <2>4. QED
    BY <2>1, <2>2, <2>3
<1>6. ASSUME NEW r \in 1 .. Len(enqueued)
      PROVE  reviews'[Len(reviews) + r] = [key |-> enqueued[r], state |-> "pending"]
  <2>1. Len(reviews) \in Nat /\ Len(enqueued) \in Nat
    BY DEF TypeOK
  <2>2. reviews'[Len(reviews) + r] = ReviewRows(enqueued)[r]
    BY <1>5, <2>1
  <2>3. QED
    BY <1>3, <2>2
<1>7. \A r \in 1 .. Len(reviews) : reviews'[r] = reviews[r]
  <2>1. Len(reviews) \in Nat /\ Len(enqueued) \in Nat
    BY DEF TypeOK
  <2>2. QED
    BY <1>5, <2>1
<1>8. QED
  BY <1>1, <1>2, <1>5, <1>6, <1>7

LEMMA TypeStep == TypeOK /\ [Next]_vars => TypeOK'
<1> SUFFICES ASSUME TypeOK, [Next]_vars PROVE TypeOK'
  OBVIOUS
<1> USE DEF stages, store, owner
<1>1. ASSUME NEW m \in Messages, StoreMessage(m) PROVE TypeOK'
  BY <1>1 DEF StoreMessage, cycle, TypeOK, IsTable
<1>2. ASSUME NEW bad, StartCycle(bad) PROVE TypeOK'
  <2>1. UNCHANGED <<filter, queue, extracted, actions, reviews, items, saved, enqueued, created, routed,
                    shown, refused, presses>> /\ pc = "idle" /\ pc' = "asking"
    BY <1>2 DEF StartCycle
  <2>2. QED
    BY <1>2, <2>1, CycleStart DEF TypeOK, IsTable
<1>3. ASSUME NothingQueued \/ LLMFails PROVE TypeOK'
  <2>1. CycleOver /\ UNCHANGED <<store, owner>> /\ extracted' = extracted /\ faults' \in Nat
        /\ filter' = Upsert(verdict, filter) /\ queue' = Queued
    BY <1>3 DEF NothingQueued, LLMFails, KeepQueued, TypeOK
  <2>2. extracted \subseteq Messages
    BY DEF TypeOK
  <2>3. QED
    BY <2>1, <2>2, CycleOverType, QueuedType, VerdictType
<1>4. ASSUME LLMAnswers PROVE TypeOK'
  BY <1>4 DEF LLMAnswers, TypeOK, IsTable
<1>5. ASSUME NEW p \in Proposals, RouteProposal(p) PROVE TypeOK'
  <2>1. /\ UNCHANGED <<filter, queue, extracted, actions, reviews, items, shown, refused, presses, faults,
                       pc, batch, verdict, fresh>>
        /\ pc = "routing" /\ routed' \in Nat
    BY <1>5, Routing
  <2>2. IsTable(saved', Keys, ActionRows) /\ enqueued' \in Seq(Keys) /\ created' \subseteq NewItems
    <3>1. CASE UNCHANGED <<saved, enqueued, created>>
      BY <3>1 DEF TypeOK
    <3>2. CASE created' = created \union {KeyOf(p)} /\ KeyOf(p) \in NewItems /\ enqueued' = enqueued
               /\ IsTable(saved', Keys, ActionRows)
      BY <3>2 DEF TypeOK
    <3>3. CASE created' = created /\ enqueued' = Append(enqueued, KeyOf(p)) /\ KeyOf(p) \in Keys
               /\ IsTable(saved', Keys, ActionRows)
      BY <3>3, AppendProperties DEF TypeOK
    <3>4. QED
      BY <1>5, <3>1, <3>2, <3>3, Routing
  <2>3. QED
    BY <2>1, <2>2 DEF TypeOK, IsTable
<1>6. ASSUME NEW p, UnknownTarget(p) PROVE TypeOK'
  <2>1. CycleOver /\ UNCHANGED <<filter, queue, extracted, store, owner, faults>>
    BY <1>6 DEF UnknownTarget
  <2>2. QED
    BY <2>1, CycleOverType DEF TypeOK
<1>7. ASSUME CommitCycle PROVE TypeOK'
  <2>1. filter' \in [Messages -> {"absent", "new", "failed", "processed"}]
    BY <1>7, VerdictType DEF CommitCycle
  <2>2. Len(batch) \in Nat /\ batch \in Seq(Messages)
    BY DEF TypeOK
  <2>3. queue' \in Seq(Messages)
    <3>1. \A i \in Len(batch) + 1 .. Len(Queued) : Queued[i] \in Messages
      BY <2>2, QueuedType
    <3>2. Len(batch) + 1 \in Int /\ Len(Queued) \in Int
      BY <2>2, QueuedType
    <3>3. QED
      BY <1>7, <3>1, <3>2, SubSeqProperties DEF CommitCycle, RestOf
  <2>4. extracted' \subseteq Messages
    BY <1>7, <2>2 DEF CommitCycle, Range, TypeOK
  <2>5. /\ IsTable(actions', Keys, ActionRows) /\ IsTable(items', ItemIds, Statuses)
        /\ reviews' \in Seq(ReviewRow) /\ Len(reviews') >= Len(reviews)
    BY <1>7, CommitType DEF TypeOK
  <2>6. DOMAIN reviews \subseteq DOMAIN reviews'
    BY <2>5 DEF TypeOK
  <2>7. IsTable(saved', Keys, ActionRows) /\ IsTable(verdict', Messages, {"failed", "processed"})
    BY <1>7, EmptyTable DEF CommitCycle, CycleOver
  <2>8. \A S : <<>> \in Seq(S)
    OBVIOUS
  <2>9. UNCHANGED <<shown, refused, presses, faults>>
    BY <1>7 DEF CommitCycle
  <2>10. QED
    BY <1>7, <2>1, <2>3, <2>4, <2>5, <2>6, <2>7, <2>8, <2>9 DEF CommitCycle, CycleOver, TypeOK
<1>8. ASSUME WorkerDies PROVE TypeOK'
  <2>1. CycleOver /\ UNCHANGED <<filter, queue, extracted, store, owner>> /\ faults' \in Nat
    BY <1>8 DEF WorkerDies, TypeOK
  <2>2. QED
    BY <2>1, CycleOverType DEF TypeOK
<1>9. ASSUME ListReviews PROVE TypeOK'
  <2>1. shown' \subseteq DOMAIN reviews
    BY <1>9 DEF ListReviews, Listed, Pending, TypeOK
  <2>2. QED
    BY <1>9, <2>1 DEF ListReviews, cycle, TypeOK, IsTable
<1>10. ASSUME NEW r \in DOMAIN reviews, NEW state \in {"approved", "rejected"}, Resolve(r, state),
              NEW mark \in {"applied", "rejected"}, MarkAction(reviews[r].key, mark),
              UNCHANGED <<stages, cycle, owner, faults>>, IsTable(items', ItemIds, Statuses)
       PROVE  TypeOK'
  <2>1. IsTable(actions', Keys, ActionRows) /\ reviews' \in Seq(ReviewRow) /\ DOMAIN reviews' = DOMAIN reviews
    BY <1>10, MarkType, ResolveType
  <2>2. QED
    BY <1>10, <2>1 DEF cycle, TypeOK, IsTable
<1>11. ASSUME NEW r \in DOMAIN reviews, Approve(r) PROVE TypeOK'
  <2>1. reviews[r].key \in Keys /\ Supported(reviews[r].key)
    <3>1. reviews[r] \in ReviewRow
      BY DEF TypeOK
    <3>2. QED
      BY <1>11, <3>1 DEF Approve, ReviewRow
  <2>2. IsTable(Effect(reviews[r].key), ItemIds, Statuses) /\ IsTable(items, ItemIds, Statuses)
    BY <2>1, EffectType DEF TypeOK
  <2>3. IsTable(items', ItemIds, Statuses)
    BY <1>11, <2>2, UpsertTable DEF Approve
  <2>4. QED
    BY <1>10, <1>11, <2>3 DEF Approve
<1>12. ASSUME NEW r \in DOMAIN reviews, ApproveUnsupported(r) PROVE TypeOK'
  BY <1>12 DEF ApproveUnsupported, cycle, TypeOK, IsTable
<1>13. ASSUME NEW r \in DOMAIN reviews, Reject(r) PROVE TypeOK'
  <2>1. IsTable(items', ItemIds, Statuses)
    BY <1>13 DEF Reject, TypeOK
  <2>2. QED
    BY <1>10, <1>13, <2>1 DEF Reject
<1>14. ASSUME NEW i \in DOMAIN items, SetStatus(i) PROVE TypeOK'
  <2>1. IsTable(items', ItemIds, Statuses)
    BY <1>14 DEF SetStatus, TypeOK, IsTable, Statuses
  <2>2. QED
    BY <1>14, <2>1 DEF SetStatus, cycle, TypeOK, IsTable
<1>15. CASE UNCHANGED vars
  BY <1>15 DEF vars, cycle, TypeOK, IsTable
<1>16. QED
  BY <1>1, <1>2, <1>3, <1>4, <1>5, <1>6, <1>7, <1>8, <1>9, <1>11, <1>12, <1>13, <1>14, <1>15 DEF Next

-----------------------------------------------------------------------------
(* The candidate queue.                                                    *)

Distinct(s) == \A i, j \in 1 .. Len(s) : s[i] = s[j] => i = j

(* Queued and extracted messages are those worth it that the filter is     *)
(* done with, each in one place.                                           *)
QueueInv ==
  /\ Distinct(queue)
  /\ \A m \in Range(queue) : m \in Worth /\ filter[m] = "processed" /\ m \notin extracted
  /\ \A m \in extracted : m \in Worth /\ filter[m] = "processed"
  /\ \A m \in Worth : filter[m] = "processed" => m \in Range(queue) \/ m \in extracted

(* What the open cycle has judged was still to be judged, its candidates   *)
(* are those it judged worth it, and its batch is the head of the queue.   *)
CycleInv ==
  /\ \A m \in DOMAIN verdict : filter[m] \in {"new", "failed"}
  /\ Range(fresh) = {m \in DOMAIN verdict \intersect Worth : verdict[m] = "processed"}
  /\ Distinct(fresh)
  /\ pc # "idle" => batch = FirstOf(Queued, BatchSize)

LEMMA QueuedFacts ==
  ASSUME TypeOK, QueueInv, CycleInv
  PROVE  /\ Queued \in Seq(Messages) /\ Distinct(Queued)
         /\ \A m \in Range(Queued) :
              m \in Worth /\ m \notin extracted /\ Upsert(verdict, filter)[m] = "processed"
         /\ \A m \in Worth :
              Upsert(verdict, filter)[m] = "processed" => m \in Range(Queued) \/ m \in extracted
         /\ \A m \in extracted : Upsert(verdict, filter)[m] = "processed"
<1>1. queue \in Seq(Messages) /\ fresh \in Seq(Messages)
  BY DEF TypeOK
<1>2. /\ Queued \in Seq(Messages) /\ Len(Queued) = Len(queue) + Len(fresh)
      /\ \A i \in 1 .. Len(queue) + Len(fresh) :
           Queued[i] = IF i <= Len(queue) THEN queue[i] ELSE fresh[i - Len(queue)]
  BY <1>1, ConcatProperties DEF Queued
<1>3. Len(queue) \in Nat /\ Len(fresh) \in Nat
  BY <1>1
<1>4. \A m : m \in Range(Queued) <=> m \in Range(queue) \/ m \in Range(fresh)
  <2>1. ASSUME NEW i \in 1 .. Len(queue) PROVE queue[i] \in Range(Queued)
    <3>1. i \in 1 .. Len(Queued) /\ Queued[i] = queue[i]
      BY <1>2, <1>3
    <3>2. QED
      BY <1>2, <3>1, InRange
  <2>2. ASSUME NEW i \in 1 .. Len(fresh) PROVE fresh[i] \in Range(Queued)
    <3>1. i + Len(queue) \in 1 .. Len(Queued) /\ Queued[i + Len(queue)] = fresh[i]
      BY <1>2, <1>3
    <3>2. QED
      BY <1>2, <3>1, InRange
  <2>3. ASSUME NEW i \in 1 .. Len(Queued) PROVE Queued[i] \in Range(queue) \/ Queued[i] \in Range(fresh)
    <3>1. CASE i <= Len(queue)
      BY <1>1, <1>2, <1>3, <3>1, InRange
    <3>2. CASE i > Len(queue)
      <4>1. i - Len(queue) \in 1 .. Len(fresh) /\ Queued[i] = fresh[i - Len(queue)]
        BY <1>2, <1>3, <3>2
      <4>2. QED
        BY <1>1, <4>1, InRange
    <3>3. QED
      BY <1>2, <1>3, <3>1, <3>2
  <2>4. QED
    BY <1>1, <1>2, <2>1, <2>2, <2>3, InRange
<1>5. \A m \in Range(fresh) : m \in DOMAIN verdict /\ m \in Worth /\ verdict[m] = "processed" /\ filter[m] \in {"new", "failed"}
  BY DEF CycleInv
<1>6. Distinct(Queued)
  <2>1. ASSUME NEW i \in 1 .. Len(queue), NEW j \in 1 .. Len(fresh) PROVE queue[i] # fresh[j]
    BY <1>1, <1>5, InRange DEF QueueInv
  <2>2. ASSUME NEW i \in 1 .. Len(Queued), NEW j \in 1 .. Len(Queued), Queued[i] = Queued[j] PROVE i = j
    <3>1. CASE i <= Len(queue) /\ j <= Len(queue)
      BY <1>2, <1>3, <2>2, <3>1 DEF QueueInv, Distinct
    <3>2. CASE i > Len(queue) /\ j > Len(queue)
      <4>1. /\ i - Len(queue) \in 1 .. Len(fresh) /\ Queued[i] = fresh[i - Len(queue)]
            /\ j - Len(queue) \in 1 .. Len(fresh) /\ Queued[j] = fresh[j - Len(queue)]
        BY <1>2, <1>3, <3>2
      <4>2. i - Len(queue) = j - Len(queue)
        BY <2>2, <4>1 DEF CycleInv, Distinct
      <4>3. QED
        BY <1>3, <4>2
    <3>3. CASE i <= Len(queue) /\ j > Len(queue)
      <4>1. i \in 1 .. Len(queue) /\ Queued[i] = queue[i]
            /\ j - Len(queue) \in 1 .. Len(fresh) /\ Queued[j] = fresh[j - Len(queue)]
        BY <1>2, <1>3, <3>3
      <4>2. QED
        BY <2>1, <2>2, <4>1
    <3>4. CASE i > Len(queue) /\ j <= Len(queue)
      <4>1. j \in 1 .. Len(queue) /\ Queued[j] = queue[j]
            /\ i - Len(queue) \in 1 .. Len(fresh) /\ Queued[i] = fresh[i - Len(queue)]
        BY <1>2, <1>3, <3>4
      <4>2. QED
        BY <2>1, <2>2, <4>1
    <3>5. QED
      BY <1>2, <1>3, <3>1, <3>2, <3>3, <3>4
  <2>3. QED
    BY <2>2 DEF Distinct
<1>7. \A m \in Messages : Upsert(verdict, filter)[m] = IF m \in DOMAIN verdict THEN verdict[m] ELSE filter[m]
  BY VerdictType
<1>8. \A m \in DOMAIN verdict : m \in Messages /\ filter[m] # "processed"
  BY DEF TypeOK, IsTable, CycleInv
<1>9. \A m \in Range(Queued) :
        m \in Worth /\ m \notin extracted /\ Upsert(verdict, filter)[m] = "processed"
  <2>1. ASSUME NEW m \in Range(queue)
        PROVE  m \in Worth /\ m \notin extracted /\ Upsert(verdict, filter)[m] = "processed"
    BY <1>7, <1>8, PipelineAssumption DEF QueueInv
  <2>2. ASSUME NEW m \in Range(fresh)
        PROVE  m \in Worth /\ m \notin extracted /\ Upsert(verdict, filter)[m] = "processed"
    BY <1>5, <1>7, PipelineAssumption DEF QueueInv
  <2>3. QED
    BY <1>4, <2>1, <2>2
<1>10. \A m \in Worth :
         Upsert(verdict, filter)[m] = "processed" => m \in Range(Queued) \/ m \in extracted
  BY <1>4, <1>7, PipelineAssumption DEF QueueInv, CycleInv
<1>11. \A m \in extracted : Upsert(verdict, filter)[m] = "processed"
  BY <1>7, <1>8 DEF QueueInv, TypeOK
<1>12. QED
  BY <1>2, <1>6, <1>9, <1>10, <1>11

(* The batch is the head of the queue.                                     *)
LEMMA BatchFacts ==
  ASSUME TypeOK, CycleInv, pc # "idle"
  PROVE  /\ Len(batch) \in 0 .. Len(Queued)
         /\ \A i \in 1 .. Len(batch) : batch[i] = Queued[i]
         /\ \A m \in Range(batch) : m \in Range(Queued)
<1>1. Queued \in Seq(Messages)
  BY QueuedType
<1>2. batch = FirstOf(Queued, BatchSize) /\ BatchSize \in Nat
  BY PipelineAssumption DEF CycleInv
<1>3. /\ batch \in Seq(Messages)
      /\ Len(batch) = IF BatchSize < Len(Queued) THEN BatchSize ELSE Len(Queued)
      /\ \A i \in 1 .. Len(batch) : batch[i] = Queued[i]
  BY <1>1, <1>2, FirstOfSeq
<1>4. Len(batch) \in 0 .. Len(Queued)
  BY <1>1, <1>2, <1>3
<1>5. ASSUME NEW m \in Range(batch) PROVE m \in Range(Queued)
  <2>1. PICK i \in 1 .. Len(batch) : batch[i] = m
    BY <1>3, InRange
  <2>2. i \in 1 .. Len(Queued) /\ Queued[i] = m
    BY <1>1, <1>3, <1>4, <2>1
  <2>3. QED
    BY <1>1, <2>2, InRange
<1>6. QED
  BY <1>3, <1>4, <1>5

LEMMA CycleOverQueue == ASSUME CycleOver PROVE CycleInv'
<1>1. pc' = "idle" /\ verdict' = EmptyMap /\ fresh' = <<>>
  BY DEF CycleOver
<1>2. DOMAIN verdict' = {}
  BY <1>1, EmptyTable
<1>3. Range(fresh') = {} /\ Len(fresh') = 0
  BY <1>1 DEF Range
<1>4. QED
  BY <1>1, <1>2, <1>3 DEF CycleInv, Distinct

LEMMA QueueStep == TypeOK /\ QueueInv /\ CycleInv /\ [Next]_vars => QueueInv' /\ CycleInv'
<1> SUFFICES ASSUME TypeOK, QueueInv, CycleInv, [Next]_vars PROVE QueueInv' /\ CycleInv'
  OBVIOUS
<1> USE DEF stages, store, owner
<1>1. ASSUME UNCHANGED <<filter, queue, extracted>>, CycleInv' PROVE QueueInv' /\ CycleInv'
  BY <1>1 DEF QueueInv, Distinct
<1>2. ASSUME UNCHANGED <<filter, queue, extracted, verdict, fresh, batch>>, pc' # "idle" => pc # "idle"
      PROVE  QueueInv' /\ CycleInv'
  BY <1>1, <1>2 DEF CycleInv, Distinct, Queued
<1>3. ASSUME NEW m \in Messages, StoreMessage(m) PROVE QueueInv' /\ CycleInv'
  <2>1. filter[m] = "absent" /\ filter' = [filter EXCEPT ![m] = "new"]
        /\ UNCHANGED <<queue, extracted, verdict, fresh, batch, pc>>
    BY <1>3 DEF StoreMessage, cycle
  <2>2. \A k \in Messages : filter'[k] = IF k = m THEN "new" ELSE filter[k]
    BY <2>1 DEF TypeOK
  <2>3. Range(queue) \subseteq Messages /\ extracted \subseteq Messages /\ DOMAIN verdict \subseteq Messages
    BY DEF TypeOK, Range, IsTable
  <2>4. QueueInv'
    BY <2>1, <2>2, <2>3, PipelineAssumption DEF QueueInv, Distinct
  <2>5. CycleInv'
    BY <2>1, <2>2, <2>3 DEF CycleInv, Distinct, Queued
  <2>6. QED
    BY <2>4, <2>5
<1>4. ASSUME NEW bad, StartCycle(bad) PROVE QueueInv' /\ CycleInv'
  <2>1. UNCHANGED <<filter, queue, extracted>>
    BY <1>4 DEF StartCycle
  <2>2. /\ DOMAIN verdict' = PendingMessages
        /\ Range(fresh') = {m \in DOMAIN verdict' \intersect Worth : verdict'[m] = "processed"}
        /\ \A i, j \in 1 .. Len(fresh') : fresh'[i] = fresh'[j] => i = j
        /\ batch' = FirstOf(queue \o fresh', BatchSize)
    BY <1>4, CycleStart
  <2>3. \A m \in PendingMessages : filter[m] \in {"new", "failed"}
    BY DEF PendingMessages, EarliestSent
  <2>4. CycleInv'
    BY <2>1, <2>2, <2>3 DEF CycleInv, Distinct, Queued
  <2>5. QED
    BY <1>1, <2>1, <2>4
<1>5. ASSUME NothingQueued \/ LLMFails PROVE QueueInv' /\ CycleInv'
  <2>1. CycleOver /\ extracted' = extracted /\ filter' = Upsert(verdict, filter) /\ queue' = Queued
    BY <1>5 DEF NothingQueued, LLMFails, KeepQueued
  <2>2. QueueInv'
    BY <2>1, QueuedFacts DEF QueueInv, Distinct
  <2>3. QED
    BY <2>1, <2>2, CycleOverQueue
<1>6. CASE LLMAnswers
  BY <1>2, <1>6 DEF LLMAnswers
<1>7. ASSUME NEW p \in Proposals, RouteProposal(p) PROVE QueueInv' /\ CycleInv'
  BY <1>2, <1>7, Routing
<1>8. ASSUME NEW p, UnknownTarget(p) PROVE QueueInv' /\ CycleInv'
  BY <1>1, <1>8, CycleOverQueue DEF UnknownTarget
<1>9. CASE CommitCycle
  <2>1. /\ CycleOver /\ pc # "idle" /\ filter' = Upsert(verdict, filter)
        /\ queue' = RestOf(Queued, Len(batch)) /\ extracted' = extracted \union Range(batch)
    BY <1>9 DEF CommitCycle
  <2>2. Queued \in Seq(Messages) /\ Len(Queued) \in Nat /\ batch \in Seq(Messages)
    BY QueuedType DEF TypeOK
  <2>3. /\ queue' \in Seq(Messages) /\ Len(queue') = Len(Queued) - Len(batch)
        /\ \A i \in 1 .. Len(Queued) - Len(batch) : queue'[i] = Queued[Len(batch) + i]
    BY <2>1, <2>2, BatchFacts, RestOfSeq
  <2>4. Len(batch) \in Nat /\ Len(batch) <= Len(Queued)
    BY <2>1, <2>2, BatchFacts
  <2>5. ASSUME NEW i \in 1 .. Len(queue')
        PROVE  Len(batch) + i \in 1 .. Len(Queued) /\ queue'[i] = Queued[Len(batch) + i]
    <3>1. i \in 1 .. Len(Queued) - Len(batch)
      BY <2>3
    <3>2. Len(batch) + i \in 1 .. Len(Queued)
      BY <2>2, <2>4, <3>1
    <3>3. QED
      BY <2>3, <3>1, <3>2
  <2>6. Distinct(queue')
    <3>1. ASSUME NEW i \in 1 .. Len(queue'), NEW j \in 1 .. Len(queue'), queue'[i] = queue'[j] PROVE i = j
      <4>1. Len(batch) + i = Len(batch) + j
        BY <2>5, <3>1, QueuedFacts DEF Distinct
      <4>2. QED
        BY <2>3, <2>4, <4>1
    <3>2. QED
      BY <3>1 DEF Distinct
  <2>7. ASSUME NEW m \in Range(queue') PROVE m \in Range(Queued) /\ m \notin Range(batch)
    <3>1. PICK i \in 1 .. Len(queue') : queue'[i] = m
      BY <2>3, InRange
    <3>2. m \in Range(Queued)
      BY <2>2, <2>5, <3>1, InRange
    <3>3. ASSUME NEW j \in 1 .. Len(batch), batch[j] = m PROVE FALSE
      <4>1. Queued[j] = m /\ j \in 1 .. Len(Queued)
        BY <2>1, <2>2, <2>4, <3>3, BatchFacts
      <4>2. Len(batch) + i = j
        BY <2>5, <3>1, <4>1, QueuedFacts DEF Distinct
      <4>3. QED
        BY <2>4, <3>1, <4>2
    <3>4. QED
      BY <2>2, <3>2, <3>3, InRange
  <2>8. ASSUME NEW m \in Range(Queued), m \notin Range(batch) PROVE m \in Range(queue')
    <3>1. PICK j \in 1 .. Len(Queued) : Queued[j] = m
      BY <2>2, InRange
    <3>2. j > Len(batch)
      <4>1. CASE j <= Len(batch)
        <5>1. j \in 1 .. Len(batch) /\ batch[j] = m
          BY <2>1, <2>4, <3>1, <4>1, BatchFacts
        <5>2. QED
          BY <2>2, <2>8, <5>1, InRange
      <4>2. QED
        BY <2>4, <3>1, <4>1
    <3>3. j - Len(batch) \in 1 .. Len(queue') /\ queue'[j - Len(batch)] = m
      BY <2>2, <2>3, <2>4, <3>1, <3>2
    <3>4. QED
      BY <2>3, <3>3, InRange
  <2>9. \A m \in Range(queue') : m \in Worth /\ filter'[m] = "processed" /\ m \notin extracted'
    BY <2>1, <2>7, QueuedFacts
  <2>10. \A m \in extracted' : m \in Worth /\ filter'[m] = "processed"
    BY <2>1, BatchFacts, QueuedFacts DEF QueueInv
  <2>11. \A m \in Worth : filter'[m] = "processed" => m \in Range(queue') \/ m \in extracted'
    BY <2>1, <2>8, QueuedFacts
  <2>12. Range(queue)' = Range(queue')
    OBVIOUS
  <2>13. QueueInv'
    BY <2>6, <2>9, <2>10, <2>11 DEF QueueInv, Distinct
  <2>14. QED
    BY <2>1, <2>13, CycleOverQueue
<1>10. CASE WorkerDies
  BY <1>1, <1>10, CycleOverQueue DEF WorkerDies
<1>11. CASE ListReviews
  BY <1>2, <1>11 DEF ListReviews, cycle
<1>12. ASSUME NEW r \in DOMAIN reviews, Approve(r) \/ ApproveUnsupported(r) \/ Reject(r)
       PROVE  QueueInv' /\ CycleInv'
  BY <1>2, <1>12 DEF Approve, ApproveUnsupported, Reject, cycle
<1>13. ASSUME NEW i \in DOMAIN items, SetStatus(i) PROVE QueueInv' /\ CycleInv'
  BY <1>2, <1>13 DEF SetStatus, cycle
<1>14. CASE UNCHANGED vars
  BY <1>2, <1>14 DEF vars, cycle
<1>15. QED
  BY <1>3, <1>4, <1>5, <1>6, <1>7, <1>8, <1>9, <1>10, <1>11, <1>12, <1>13, <1>14 DEF Next

-----------------------------------------------------------------------------
(* Actions and reviews.                                                    *)

(* Routed proposals are about messages of the batch; each is applied, or   *)
(* has a review with a target that is there or is made in the same cycle.  *)
RouteInv ==
  /\ \A k \in DOMAIN saved : /\ k.source \in Range(batch)
                             /\ saved[k].state = "review" => k \in Range(enqueued)
  /\ \A k \in Range(enqueued) :
       k \in DOMAIN saved /\ k.target \in DOMAIN items \union created \union {None}
  /\ created \subseteq DOMAIN saved

ReviewInv ==
  \A r \in DOMAIN reviews : /\ reviews[r].key \in DOMAIN actions
                            /\ reviews[r].key.target \in DOMAIN items \union {None}

StoreInv == NothingHidden /\ ReviewInv

LEMMA InAppend == ASSUME NEW S, NEW s \in Seq(S), NEW e \in S
                  PROVE  \A x : x \in Range(Append(s, e)) <=> x \in Range(s) \/ x = e
<1>1. /\ Append(s, e) \in Seq(S) /\ Len(Append(s, e)) = Len(s) + 1 /\ Len(s) \in Nat
      /\ \A i \in 1 .. Len(s) : Append(s, e)[i] = s[i]
      /\ Append(s, e)[Len(s) + 1] = e
  BY AppendProperties
<1>2. Range(Append(s, e)) = {Append(s, e)[i] : i \in 1 .. Len(s) + 1} /\ Range(s) = {s[i] : i \in 1 .. Len(s)}
  BY <1>1 DEF Range
<1>3. \A i : i \in 1 .. Len(s) + 1 <=> i \in 1 .. Len(s) \/ i = Len(s) + 1
  BY <1>1
<1>4. QED
  BY <1>1, <1>2, <1>3

LEMMA RouteStep == TypeOK /\ RouteInv /\ [Next]_vars => RouteInv'
<1> SUFFICES ASSUME TypeOK, RouteInv, [Next]_vars PROVE RouteInv'
  OBVIOUS
<1> USE DEF stages, store, owner
<1>1. ASSUME UNCHANGED <<saved, batch, enqueued, created>>, DOMAIN items \subseteq DOMAIN items' PROVE RouteInv'
  BY <1>1 DEF RouteInv
<1>2. ASSUME saved' = EmptyMap, enqueued' = <<>>, created' = {} PROVE RouteInv'
  <2>1. DOMAIN saved' = {} /\ Range(enqueued') = {}
    BY <1>2, EmptyTable DEF Range
  <2>2. QED
    BY <1>2, <2>1 DEF RouteInv
<1>3. CASE \E bad \in SUBSET Messages : StartCycle(bad)
  BY <1>2, <1>3 DEF StartCycle, TypeOK
<1>4. ASSUME NEW p \in Proposals, RouteProposal(p) PROVE RouteInv'
  <2>1. UNCHANGED <<batch, items>>
    BY <1>4, Routing
  <2>2. CASE UNCHANGED <<saved, enqueued, created>>
    BY <1>1, <2>1, <2>2
  <2>3. ASSUME KeyOf(p) \in Keys, KeyOf(p).source \in Range(batch), DOMAIN saved' = DOMAIN saved \union {KeyOf(p)},
               \A k \in DOMAIN saved \ {KeyOf(p)} : saved'[k] = saved[k],
               saved'[KeyOf(p)].state = "applied",
               created' = created \union {KeyOf(p)}, enqueued' = enqueued
        PROVE  RouteInv'
    BY <2>1, <2>3 DEF RouteInv
  <2>4. ASSUME KeyOf(p) \in Keys, KeyOf(p).source \in Range(batch), DOMAIN saved' = DOMAIN saved \union {KeyOf(p)},
               \A k \in DOMAIN saved \ {KeyOf(p)} : saved'[k] = saved[k],
               KeyOf(p).target \in DOMAIN items \union created \union {None},
               created' = created, enqueued' = Append(enqueued, KeyOf(p))
        PROVE  RouteInv'
    <3>1. \A x : x \in Range(enqueued') <=> x \in Range(enqueued) \/ x = KeyOf(p)
      BY <2>4, InAppend DEF TypeOK
    <3>2. QED
      BY <2>1, <2>4, <3>1 DEF RouteInv
  <2>5. QED
    BY <1>4, <2>2, <2>3, <2>4, Routing
<1>5. CASE NothingQueued \/ LLMFails \/ CommitCycle \/ WorkerDies \/ \E p \in Proposals : UnknownTarget(p)
  BY <1>2, <1>5 DEF NothingQueued, LLMFails, KeepQueued, CommitCycle, WorkerDies, UnknownTarget, CycleOver
<1>6. CASE LLMAnswers
  BY <1>1, <1>6 DEF LLMAnswers
<1>7. ASSUME NEW m \in Messages, StoreMessage(m) PROVE RouteInv'
  BY <1>1, <1>7 DEF StoreMessage, cycle
<1>8. CASE ListReviews
  BY <1>1, <1>8 DEF ListReviews, cycle
<1>9. ASSUME NEW r \in DOMAIN reviews, Approve(r) PROVE RouteInv'
  <2>1. DOMAIN items \subseteq DOMAIN items'
    BY <1>9 DEF Approve, Upsert
  <2>2. QED
    BY <1>1, <1>9, <2>1 DEF Approve, cycle
<1>10. ASSUME NEW r \in DOMAIN reviews, ApproveUnsupported(r) \/ Reject(r) PROVE RouteInv'
  BY <1>1, <1>10 DEF ApproveUnsupported, Reject, cycle
<1>11. ASSUME NEW i \in DOMAIN items, SetStatus(i) PROVE RouteInv'
  BY <1>1, <1>11 DEF SetStatus, cycle
<1>12. CASE UNCHANGED vars
  BY <1>1, <1>12 DEF vars, cycle
<1>13. QED
  BY <1>3, <1>4, <1>5, <1>6, <1>7, <1>8, <1>9, <1>10, <1>11, <1>12 DEF Next

(* No action of this cycle is in the table yet.                            *)
LEMMA SavedIsNew ==
  ASSUME TypeOK, QueueInv, CycleInv, RouteInv, StoreInv, pc # "idle", NEW k \in DOMAIN saved
  PROVE  /\ k \notin DOMAIN actions
         /\ \A r \in DOMAIN reviews : reviews[r].key # k
BY BatchFacts, QueuedFacts DEF RouteInv, StoreInv, NothingHidden, ReviewInv

(* The reviews after a commit: the old ones, and those the cycle added.    *)
LEMMA CommitReviews ==
  ASSUME TypeOK, CommitCycle
  PROVE  /\ \A r \in DOMAIN reviews : r \in DOMAIN reviews' /\ reviews'[r] = reviews[r]
         /\ \A r \in DOMAIN reviews' \ DOMAIN reviews :
              \E i \in 1 .. Len(enqueued) : r = Len(reviews) + i
         /\ \A i \in 1 .. Len(enqueued) :
              /\ Len(reviews) + i \in DOMAIN reviews' \ DOMAIN reviews
              /\ reviews'[Len(reviews) + i].key = enqueued[i]
              /\ reviews'[Len(reviews) + i].state = "pending"
<1>1. /\ Len(reviews') = Len(reviews) + Len(enqueued)
      /\ \A r \in 1 .. Len(reviews) : reviews'[r] = reviews[r]
      /\ reviews' \in Seq(ReviewRow)
  BY CommitType
<1>2. \A i \in 1 .. Len(enqueued) : reviews'[Len(reviews) + i] = [key |-> enqueued[i], state |-> "pending"]
  BY CommitType
<1>3. /\ DOMAIN reviews = 1 .. Len(reviews) /\ DOMAIN reviews' = 1 .. Len(reviews')
      /\ Len(reviews) \in Nat /\ Len(enqueued) \in Nat
  BY <1>1 DEF TypeOK
<1>4. \A r \in DOMAIN reviews : r \in DOMAIN reviews' /\ reviews'[r] = reviews[r]
  BY <1>1, <1>3
<1>5. ASSUME NEW r \in DOMAIN reviews' \ DOMAIN reviews
      PROVE  \E i \in 1 .. Len(enqueued) : r = Len(reviews) + i
  <2>1. r \in 1 .. Len(reviews) + Len(enqueued) /\ r \notin 1 .. Len(reviews)
    BY <1>1, <1>3
  <2>2. r - Len(reviews) \in 1 .. Len(enqueued) /\ r = Len(reviews) + (r - Len(reviews))
    BY <1>3, <2>1
  <2>3. QED
    BY <2>2
<1>6. ASSUME NEW i \in 1 .. Len(enqueued)
      PROVE  /\ Len(reviews) + i \in DOMAIN reviews' \ DOMAIN reviews
             /\ reviews'[Len(reviews) + i].key = enqueued[i]
             /\ reviews'[Len(reviews) + i].state = "pending"
  <2>1. Len(reviews) + i \in 1 .. Len(reviews) + Len(enqueued) /\ Len(reviews) + i \notin 1 .. Len(reviews)
    BY <1>3
  <2>2. Len(reviews) + i \in DOMAIN reviews' \ DOMAIN reviews
    BY <1>1, <1>3, <2>1
  <2>3. reviews'[Len(reviews) + i] = [key |-> enqueued[i], state |-> "pending"]
    BY <1>2
  <2>4. QED
    BY <2>2, <2>3
<1>7. QED
  BY <1>4, <1>5, <1>6

LEMMA StoreStep == TypeOK /\ QueueInv /\ CycleInv /\ RouteInv /\ StoreInv /\ [Next]_vars => StoreInv'
<1> SUFFICES ASSUME TypeOK, QueueInv, CycleInv, RouteInv, StoreInv, [Next]_vars PROVE StoreInv'
  OBVIOUS
<1> USE DEF stages, store, owner
<1>1. ASSUME UNCHANGED <<actions, reviews, items>>, extracted \subseteq extracted' PROVE StoreInv'
  BY <1>1 DEF StoreInv, NothingHidden, ReviewInv
<1>2. CASE CommitCycle
  <2>1. extracted' = extracted \union Range(batch) /\ pc # "idle"
    BY <1>2 DEF CommitCycle
  <2>2. /\ DOMAIN actions' = DOMAIN saved \union DOMAIN actions
        /\ \A k \in DOMAIN saved : actions'[k] = saved[k]
        /\ \A k \in DOMAIN actions \ DOMAIN saved : actions'[k] = actions[k]
        /\ DOMAIN items' = created \union DOMAIN items
    BY <1>2, CommitType
  <2>3. enqueued \in Seq(Keys)
    BY DEF TypeOK
  <2>5. ASSUME NEW k \in DOMAIN actions' PROVE
          /\ k.source \in extracted'
          /\ actions'[k].state = "review" =>
               \E r \in DOMAIN reviews' : reviews'[r].key = k /\ reviews'[r].state = "pending"
    <3>1. CASE k \in DOMAIN saved
      <4>1. k.source \in extracted'
        BY <2>1, <3>1 DEF RouteInv
      <4>2. ASSUME actions'[k].state = "review"
            PROVE  \E r \in DOMAIN reviews' : reviews'[r].key = k /\ reviews'[r].state = "pending"
        <5> saved[k].state = "review"
          BY <2>2, <3>1, <4>2
        <5> k \in Range(enqueued)
          BY <3>1 DEF RouteInv
        <5>1. PICK r \in 1 .. Len(enqueued) : enqueued[r] = k
          BY <2>3, InRange
        <5>2. QED
          BY <1>2, <5>1, CommitReviews
      <4>3. QED
        BY <4>1, <4>2
    <3>2. CASE k \notin DOMAIN saved
      BY <1>2, <2>1, <2>2, <2>5, <3>2, CommitReviews DEF StoreInv, NothingHidden
    <3>3. QED
      BY <3>1, <3>2
  <2>6. ASSUME NEW r \in DOMAIN reviews' PROVE
          reviews'[r].key \in DOMAIN actions' /\ reviews'[r].key.target \in DOMAIN items' \union {None}
    <3>1. CASE r \in DOMAIN reviews
      BY <1>2, <2>2, <3>1, CommitReviews DEF StoreInv, ReviewInv
    <3>2. CASE r \notin DOMAIN reviews
      <4>1. PICK i \in 1 .. Len(enqueued) : r = Len(reviews) + i
        BY <1>2, <3>2, CommitReviews
      <4>2. reviews'[r].key = enqueued[i]
        BY <1>2, <4>1, CommitReviews
      <4>3. enqueued[i] \in Range(enqueued)
        BY <2>3, InRange
      <4>4. /\ enqueued[i] \in DOMAIN saved
            /\ enqueued[i].target \in DOMAIN items \union created \union {None}
        BY <4>3 DEF RouteInv
      <4>5. QED
        BY <2>2, <4>2, <4>4
    <3>3. QED
      BY <3>1, <3>2
  <2>7. QED
    BY <2>5, <2>6 DEF StoreInv, NothingHidden, ReviewInv
<1>3. ASSUME NEW r \in DOMAIN reviews, NEW state \in {"approved", "rejected"}, Resolve(r, state),
             NEW mark \in {"applied", "rejected"}, MarkAction(reviews[r].key, mark),
             extracted' = extracted, DOMAIN items \subseteq DOMAIN items'
      PROVE  StoreInv'
  <2>1. /\ DOMAIN actions' = DOMAIN actions
        /\ \A k \in DOMAIN actions : actions'[k].state = IF k = reviews[r].key THEN mark ELSE actions[k].state
    BY <1>3, MarkType
  <2>2. /\ DOMAIN reviews' = DOMAIN reviews
        /\ \A s \in DOMAIN reviews : /\ reviews'[s].key = reviews[s].key
                                     /\ s # r => reviews'[s].state = reviews[s].state
    BY <1>3, ResolveType
  <2>3. ASSUME NEW k \in DOMAIN actions, actions'[k].state = "review"
        PROVE  \E s \in DOMAIN reviews : reviews'[s].key = k /\ reviews'[s].state = "pending"
    <3>1. k # reviews[r].key /\ actions[k].state = "review"
      BY <2>1, <2>3
    <3>2. PICK s \in DOMAIN reviews : reviews[s].key = k /\ reviews[s].state = "pending"
      BY <3>1 DEF StoreInv, NothingHidden
    <3>3. QED
      BY <2>2, <3>1, <3>2
  <2>4. NothingHidden'
    BY <1>3, <2>1, <2>2, <2>3 DEF StoreInv, NothingHidden
  <2>5. ReviewInv'
    BY <1>3, <2>1, <2>2 DEF StoreInv, ReviewInv
  <2>6. QED
    BY <2>4, <2>5 DEF StoreInv
<1>4. ASSUME NEW r \in DOMAIN reviews, Approve(r) PROVE StoreInv'
  <2>1. DOMAIN items \subseteq DOMAIN items'
    BY <1>4 DEF Approve, Upsert
  <2>2. QED
    BY <1>3, <1>4, <2>1 DEF Approve
<1>5. ASSUME NEW r \in DOMAIN reviews, Reject(r) PROVE StoreInv'
  BY <1>3, <1>5 DEF Reject
<1>6. ASSUME NEW i \in DOMAIN items, SetStatus(i) PROVE StoreInv'
  BY <1>6 DEF SetStatus, StoreInv, NothingHidden, ReviewInv
<1>7. ASSUME NEW m \in Messages, StoreMessage(m) PROVE StoreInv'
  BY <1>1, <1>7 DEF StoreMessage
<1>8. CASE \E bad \in SUBSET Messages : StartCycle(bad)
  BY <1>1, <1>8 DEF StartCycle
<1>9. CASE NothingQueued \/ LLMFails \/ LLMAnswers \/ WorkerDies \/ ListReviews
  BY <1>1, <1>9 DEF NothingQueued, LLMFails, KeepQueued, LLMAnswers, WorkerDies, ListReviews
<1>10. ASSUME NEW p \in Proposals, RouteProposal(p) \/ UnknownTarget(p) PROVE StoreInv'
  BY <1>1, <1>10 DEF RouteProposal, UnknownTarget
<1>11. ASSUME NEW r \in DOMAIN reviews, ApproveUnsupported(r) PROVE StoreInv'
  BY <1>1, <1>11 DEF ApproveUnsupported
<1>12. CASE UNCHANGED vars
  BY <1>1, <1>12 DEF vars
<1>13. QED
  BY <1>2, <1>4, <1>5, <1>6, <1>7, <1>8, <1>9, <1>10, <1>11, <1>12 DEF Next

-----------------------------------------------------------------------------
(* Consent.  All of this rests on an answer that proposes no action twice. *)

(* Of the creates routed in the cycle, the applied ones are those of high  *)
(* confidence; nothing is sent to the owner twice.                         *)
OnceInv ==
  /\ \A k \in DOMAIN saved : k.type = "create_item" => (k \in created <=> saved[k].confidence = "high")
  /\ \A k \in Range(enqueued) : k.type = "create_item" => saved[k].confidence = "low"
  /\ Distinct(enqueued)

(* An action has one review, and a create that has one is of low confidence. *)
OneReview ==
  /\ \A r, s \in DOMAIN reviews : reviews[r].key = reviews[s].key => r = s
  /\ \A r \in DOMAIN reviews :
       reviews[r].key.type = "create_item" => actions[reviews[r].key].confidence = "low"

LEMMA DistinctAppend ==
  ASSUME NEW S, NEW s \in Seq(S), NEW e \in S, Distinct(s), e \notin Range(s)
  PROVE  Distinct(Append(s, e))
<1>1. /\ Len(Append(s, e)) = Len(s) + 1 /\ Len(s) \in Nat
      /\ \A i \in 1 .. Len(s) : Append(s, e)[i] = s[i]
      /\ Append(s, e)[Len(s) + 1] = e
  BY AppendProperties
<1>2. \A i \in 1 .. Len(s) : s[i] # e
  BY InRange
<1>3. \A i : i \in 1 .. Len(s) + 1 <=> i \in 1 .. Len(s) \/ i = Len(s) + 1
  BY <1>1
<1>4. QED
  BY <1>1, <1>2, <1>3 DEF Distinct

LEMMA OnceStep == ~MayRepeat /\ TypeOK /\ RouteInv /\ OnceInv /\ [Next]_vars => OnceInv'
<1> SUFFICES ASSUME ~MayRepeat, TypeOK, RouteInv, OnceInv, [Next]_vars PROVE OnceInv'
  OBVIOUS
<1> USE DEF stages, store, owner
<1>1. ASSUME UNCHANGED <<saved, enqueued, created>> PROVE OnceInv'
  BY <1>1 DEF OnceInv, Distinct
<1>2. ASSUME saved' = EmptyMap, enqueued' = <<>>, created' = {} PROVE OnceInv'
  <2>1. DOMAIN saved' = {} /\ Range(enqueued') = {} /\ Distinct(enqueued')
    BY <1>2, EmptyTable DEF Range, Distinct
  <2>2. QED
    BY <2>1 DEF OnceInv, Distinct
<1>3. CASE \E bad \in SUBSET Messages : StartCycle(bad)
  BY <1>1, <1>3 DEF StartCycle
<1>4. ASSUME NEW p \in Proposals, RouteProposal(p) PROVE OnceInv'
  <2>1. CASE UNCHANGED <<saved, enqueued, created>>
    BY <1>1, <2>1
  <2>2. ASSUME KeyOf(p) \notin DOMAIN saved, KeyOf(p) \in Keys,
               DOMAIN saved' = DOMAIN saved \union {KeyOf(p)},
               \A k \in DOMAIN saved \ {KeyOf(p)} : saved'[k] = saved[k],
               saved'[KeyOf(p)].confidence = p.confidence
        PROVE  OnceInv'
    <3>1. KeyOf(p) \notin Range(enqueued) /\ KeyOf(p) \notin created
      BY <2>2 DEF RouteInv
    <3>2. CASE p.confidence = "high" /\ created' = created \union {KeyOf(p)} /\ enqueued' = enqueued
      BY <2>2, <3>1, <3>2 DEF OnceInv, RouteInv, Distinct
    <3>3. CASE /\ KeyOf(p).type = "create_item" => p.confidence = "low"
               /\ created' = created /\ enqueued' = Append(enqueued, KeyOf(p))
      <4>1. \A x : x \in Range(enqueued') <=> x \in Range(enqueued) \/ x = KeyOf(p)
        BY <2>2, <3>3, InAppend DEF TypeOK
      <4>2. Distinct(enqueued')
        BY <2>2, <3>1, <3>3, DistinctAppend DEF TypeOK, OnceInv
      <4>3. \A k \in Range(enqueued') : k.type = "create_item" => saved'[k].confidence = "low"
        BY <2>2, <3>3, <4>1 DEF OnceInv, RouteInv
      <4>4. \A k \in DOMAIN saved' :
              k.type = "create_item" => (k \in created' <=> saved'[k].confidence = "high")
        BY <2>2, <3>1, <3>3 DEF OnceInv
      <4>5. QED
        BY <4>2, <4>3, <4>4 DEF OnceInv, Distinct
    <3>4. QED
      BY <1>4, <2>2, <3>2, <3>3, Routing
  <2>3. QED
    BY <1>4, <2>1, <2>2, Routing
<1>5. CASE NothingQueued \/ LLMFails \/ CommitCycle \/ WorkerDies \/ \E p \in Proposals : UnknownTarget(p)
  BY <1>2, <1>5 DEF NothingQueued, LLMFails, KeepQueued, CommitCycle, WorkerDies, UnknownTarget, CycleOver
<1>6. CASE LLMAnswers
  BY <1>1, <1>6 DEF LLMAnswers
<1>7. ASSUME NEW m \in Messages, StoreMessage(m) PROVE OnceInv'
  BY <1>1, <1>7 DEF StoreMessage, cycle
<1>8. CASE ListReviews
  BY <1>1, <1>8 DEF ListReviews, cycle
<1>9. ASSUME NEW r \in DOMAIN reviews, Approve(r) \/ ApproveUnsupported(r) \/ Reject(r) PROVE OnceInv'
  BY <1>1, <1>9 DEF Approve, ApproveUnsupported, Reject, cycle
<1>10. ASSUME NEW i \in DOMAIN items, SetStatus(i) PROVE OnceInv'
  BY <1>1, <1>10 DEF SetStatus, cycle
<1>11. CASE UNCHANGED vars
  BY <1>1, <1>11 DEF vars, cycle
<1>12. QED
  BY <1>3, <1>4, <1>5, <1>6, <1>7, <1>8, <1>9, <1>10, <1>11 DEF Next

LEMMA ReviewStep ==
  ~MayRepeat /\ TypeOK /\ QueueInv /\ CycleInv /\ RouteInv /\ StoreInv /\ OnceInv /\ OneReview /\ [Next]_vars
    => OneReview'
<1> SUFFICES ASSUME ~MayRepeat, TypeOK, QueueInv, CycleInv, RouteInv, StoreInv, OnceInv, OneReview,
                    [Next]_vars
             PROVE  OneReview'
  OBVIOUS
<1> USE DEF stages, store, owner
<1>1. ASSUME UNCHANGED <<actions, reviews>> PROVE OneReview'
  BY <1>1 DEF OneReview
<1>2. CASE CommitCycle
  <2>1. pc # "idle" /\ enqueued \in Seq(Keys)
    BY <1>2 DEF CommitCycle, TypeOK
  <2>2. /\ \A k \in DOMAIN saved : actions'[k] = saved[k]
        /\ \A k \in DOMAIN actions \ DOMAIN saved : actions'[k] = actions[k]
    BY <1>2, CommitType
  <2>3. ASSUME NEW i \in 1 .. Len(enqueued)
        PROVE  /\ enqueued[i] \in Range(enqueued) /\ enqueued[i] \in DOMAIN saved
               /\ \A r \in DOMAIN reviews : reviews[r].key # enqueued[i]
    <3>1. enqueued[i] \in Range(enqueued)
      BY <2>1, InRange
    <3>2. enqueued[i] \in DOMAIN saved
      BY <3>1 DEF RouteInv
    <3>3. QED
      BY <2>1, <3>1, <3>2, SavedIsNew
  <2>4. ASSUME NEW r \in DOMAIN reviews', NEW s \in DOMAIN reviews', reviews'[r].key = reviews'[s].key
        PROVE  r = s
    <3>1. CASE r \in DOMAIN reviews /\ s \in DOMAIN reviews
      BY <1>2, <2>4, <3>1, CommitReviews DEF OneReview
    <3>2. CASE r \notin DOMAIN reviews /\ s \notin DOMAIN reviews
      <4>1. PICK i \in 1 .. Len(enqueued) : r = Len(reviews) + i
        BY <1>2, <3>2, CommitReviews
      <4>2. PICK j \in 1 .. Len(enqueued) : s = Len(reviews) + j
        BY <1>2, <3>2, CommitReviews
      <4>3. enqueued[i] = enqueued[j]
        BY <1>2, <2>4, <4>1, <4>2, CommitReviews
      <4>4. QED
        BY <4>1, <4>2, <4>3 DEF OnceInv, Distinct
    <3>3. CASE r \in DOMAIN reviews /\ s \notin DOMAIN reviews
      <4>1. PICK j \in 1 .. Len(enqueued) : s = Len(reviews) + j
        BY <1>2, <3>3, CommitReviews
      <4>2. QED
        BY <1>2, <2>3, <2>4, <3>3, <4>1, CommitReviews
    <3>4. CASE r \notin DOMAIN reviews /\ s \in DOMAIN reviews
      <4>1. PICK i \in 1 .. Len(enqueued) : r = Len(reviews) + i
        BY <1>2, <3>4, CommitReviews
      <4>2. QED
        BY <1>2, <2>3, <2>4, <3>4, <4>1, CommitReviews
    <3>5. QED
      BY <3>1, <3>2, <3>3, <3>4
  <2>5. ASSUME NEW r \in DOMAIN reviews', reviews'[r].key.type = "create_item"
        PROVE  actions'[reviews'[r].key].confidence = "low"
    <3>1. CASE r \in DOMAIN reviews
      <4>1. reviews'[r] = reviews[r] /\ reviews[r].key \in DOMAIN actions
        BY <1>2, <3>1, CommitReviews DEF StoreInv, ReviewInv
      <4>2. reviews[r].key \notin DOMAIN saved
        BY <2>1, <4>1, SavedIsNew
      <4>3. QED
        BY <2>2, <2>5, <3>1, <4>1, <4>2 DEF OneReview
    <3>2. CASE r \notin DOMAIN reviews
      <4>1. PICK i \in 1 .. Len(enqueued) : r = Len(reviews) + i
        BY <1>2, <3>2, CommitReviews
      <4>2. reviews'[r].key = enqueued[i]
        BY <1>2, <4>1, CommitReviews
      <4>3. QED
        BY <2>2, <2>3, <2>5, <4>2 DEF OnceInv
    <3>3. QED
      BY <3>1, <3>2
  <2>6. QED
    BY <2>4, <2>5 DEF OneReview
<1>3. ASSUME NEW r \in DOMAIN reviews, NEW state \in {"approved", "rejected"}, Resolve(r, state),
             NEW mark \in {"applied", "rejected"}, MarkAction(reviews[r].key, mark)
      PROVE  OneReview'
  <2>1. DOMAIN reviews' = DOMAIN reviews /\ \A s \in DOMAIN reviews : reviews'[s].key = reviews[s].key
    BY <1>3, ResolveType
  <2>2. \A k \in DOMAIN actions : actions'[k].confidence = actions[k].confidence
    BY <1>3, MarkType
  <2>3. \A s \in DOMAIN reviews : reviews[s].key \in DOMAIN actions
    BY DEF StoreInv, ReviewInv
  <2>4. QED
    BY <2>1, <2>2, <2>3 DEF OneReview
<1>4. ASSUME NEW r \in DOMAIN reviews, Approve(r) \/ Reject(r) PROVE OneReview'
  BY <1>3, <1>4 DEF Approve, Reject
<1>5. ASSUME NEW i \in DOMAIN items, SetStatus(i) PROVE OneReview'
  BY <1>1, <1>5 DEF SetStatus
<1>6. ASSUME NEW m \in Messages, StoreMessage(m) PROVE OneReview'
  BY <1>1, <1>6 DEF StoreMessage
<1>7. CASE \E bad \in SUBSET Messages : StartCycle(bad)
  BY <1>1, <1>7 DEF StartCycle
<1>8. CASE NothingQueued \/ LLMFails \/ LLMAnswers \/ WorkerDies \/ ListReviews
  BY <1>1, <1>8 DEF NothingQueued, LLMFails, KeepQueued, LLMAnswers, WorkerDies, ListReviews
<1>9. ASSUME NEW p \in Proposals, RouteProposal(p) \/ UnknownTarget(p) PROVE OneReview'
  BY <1>1, <1>9 DEF RouteProposal, UnknownTarget
<1>10. ASSUME NEW r \in DOMAIN reviews, ApproveUnsupported(r) PROVE OneReview'
  BY <1>1, <1>10 DEF ApproveUnsupported
<1>11. CASE UNCHANGED vars
  BY <1>1, <1>11 DEF vars
<1>12. QED
  BY <1>2, <1>4, <1>5, <1>6, <1>7, <1>8, <1>9, <1>10, <1>11 DEF Next

LEMMA CreateKeys == /\ \A m \in Messages : CreateKey(m) \in NewItems /\ CreateKey(m).type = "create_item"
                    /\ \A k \in NewItems : \E m \in Messages : k = CreateKey(m)
                    /\ \A k \in Keys : k.type = "create_item" => k \in NewItems
                    /\ \A k \in Keys : k.type = "update_item_status" => k.target \in ItemIds
BY DEF CreateKey, Key, NewItems, Keys

Consent(k) == \/ k \in DOMAIN actions /\ actions[k].confidence = "high"
              \/ \E r \in DOMAIN reviews : reviews[r].key = k /\ reviews[r].state = "approved"

(* CreatedWithConsent, said of the items instead of the messages.          *)
ConsentInv == \A k \in NewItems : k \in DOMAIN items <=> Consent(k)

LEMMA ConsentForm == ConsentInv <=> CreatedWithConsent
<1>1. NewItems = {CreateKey(m) : m \in Messages}
  BY DEF NewItems
<1>2. QED
  BY <1>1 DEF ConsentInv, CreatedWithConsent, Consent

(* No item of this cycle is in the table yet.                              *)
LEMMA SavedIsNotMade ==
  ASSUME TypeOK, QueueInv, CycleInv, RouteInv, StoreInv, ConsentInv, pc # "idle", NEW k \in DOMAIN saved,
         k \in NewItems
  PROVE  k \notin DOMAIN items
BY SavedIsNew DEF ConsentInv, Consent

LEMMA ConsentStep ==
  TypeOK /\ QueueInv /\ CycleInv /\ RouteInv /\ StoreInv /\ OnceInv /\ ConsentInv /\ [Next]_vars => ConsentInv'
<1> SUFFICES ASSUME TypeOK, QueueInv, CycleInv, RouteInv, StoreInv, OnceInv, ConsentInv, [Next]_vars,
                    NEW k \in NewItems
             PROVE  k \in DOMAIN items' <=> Consent(k)'
  BY DEF ConsentInv
<1> USE DEF Consent
<1>1. k \in DOMAIN items <=> Consent(k)
  BY DEF ConsentInv
<1>2. k.type = "create_item"
  BY CreateKeys
<1>3. \A r \in DOMAIN reviews : reviews[r].key \in Keys
  <2>1. \A r \in DOMAIN reviews : reviews[r] \in ReviewRow
    BY DEF TypeOK
  <2>2. QED
    BY <2>1 DEF ReviewRow
<1> USE DEF stages, store, owner
<1>4. ASSUME UNCHANGED <<actions, reviews>>, DOMAIN items' = DOMAIN items PROVE k \in DOMAIN items' <=> Consent(k)'
  BY <1>1, <1>4
<1>5. CASE CommitCycle
  <2>1. /\ pc # "idle"
        /\ DOMAIN actions' = DOMAIN saved \union DOMAIN actions
        /\ \A x \in DOMAIN saved : actions'[x] = saved[x]
        /\ \A x \in DOMAIN actions \ DOMAIN saved : actions'[x] = actions[x]
        /\ DOMAIN items' = created \union DOMAIN items
    BY <1>5, CommitType DEF CommitCycle
  <2>2. (\E r \in DOMAIN reviews' : reviews'[r].key = k /\ reviews'[r].state = "approved")
          <=> \E r \in DOMAIN reviews : reviews[r].key = k /\ reviews[r].state = "approved"
    <3>1. ASSUME NEW r \in DOMAIN reviews', reviews'[r].state = "approved" PROVE r \in DOMAIN reviews
      <4>1. ASSUME r \notin DOMAIN reviews PROVE FALSE
        <5>1. PICK i \in 1 .. Len(enqueued) : r = Len(reviews) + i
          BY <1>5, <4>1, CommitReviews
        <5>2. reviews'[r].state = "pending"
          BY <1>5, <5>1, CommitReviews
        <5>3. QED
          BY <3>1, <5>2
      <4>2. QED
        BY <4>1
    <3>2. QED
      BY <1>5, <3>1, CommitReviews
  <2>3. CASE k \in DOMAIN saved
    <3>1. k \notin DOMAIN actions /\ ~ \E r \in DOMAIN reviews : reviews[r].key = k
      BY <2>1, <2>3, SavedIsNew
    <3>2. k \in created <=> saved[k].confidence = "high"
      BY <1>2, <2>3 DEF OnceInv
    <3>3. k \notin DOMAIN items
      BY <1>1, <3>1
    <3>4. QED
      BY <2>1, <2>2, <2>3, <3>1, <3>2, <3>3
  <2>4. CASE k \notin DOMAIN saved
    <3>1. k \notin created
      BY <2>4 DEF RouteInv
    <3>2. QED
      BY <1>1, <2>1, <2>2, <2>4, <3>1
  <2>5. QED
    BY <2>3, <2>4
<1>6. ASSUME NEW r \in DOMAIN reviews, Approve(r) PROVE k \in DOMAIN items' <=> Consent(k)'
  <2>1. /\ DOMAIN reviews' = DOMAIN reviews
        /\ \A s \in DOMAIN reviews : /\ reviews'[s].key = reviews[s].key
                                     /\ reviews'[s].state = IF s = r THEN "approved" ELSE reviews[s].state
    BY <1>6, ResolveType DEF Approve
  <2>2. DOMAIN actions' = DOMAIN actions
        /\ \A x \in DOMAIN actions : actions'[x].confidence = actions[x].confidence
    BY <1>6, MarkType DEF Approve
  <2>3. DOMAIN items' = DOMAIN Effect(reviews[r].key) \union DOMAIN items
    BY <1>6 DEF Approve, Upsert
  <2>4. reviews[r].key \in Keys /\ Supported(reviews[r].key)
    BY <1>3, <1>6 DEF Approve
  <2>5. CASE reviews[r].key.type = "create_item"
    <3>1. DOMAIN items' = {reviews[r].key} \union DOMAIN items
      BY <2>3, <2>4, <2>5, EffectType
    <3>2. CASE reviews[r].key = k
      BY <1>6, <2>1, <3>1, <3>2
    <3>3. CASE reviews[r].key # k
      BY <1>1, <1>6, <2>1, <2>2, <3>1, <3>3 DEF Approve
    <3>4. QED
      BY <3>2, <3>3
  <2>6. CASE reviews[r].key.type # "create_item"
    <3>1. reviews[r].key.target \in ItemIds /\ DOMAIN Effect(reviews[r].key) = {reviews[r].key.target}
      BY <2>4, <2>6, EffectType
    <3>2. reviews[r].key.target \in DOMAIN items
      BY <3>1, ItemAssumption DEF StoreInv, ReviewInv
    <3>3. DOMAIN items' = DOMAIN items
      BY <2>3, <3>1, <3>2
    <3>4. reviews[r].key # k
      BY <1>2, <2>6
    <3>5. QED
      BY <1>1, <1>6, <2>1, <2>2, <3>3, <3>4 DEF Approve
  <2>7. QED
    BY <2>5, <2>6
<1>7. ASSUME NEW r \in DOMAIN reviews, Reject(r) PROVE k \in DOMAIN items' <=> Consent(k)'
  <2>1. /\ DOMAIN reviews' = DOMAIN reviews
        /\ \A s \in DOMAIN reviews :
             /\ reviews'[s].key = reviews[s].key
             /\ reviews'[s].state = "approved" <=> reviews[s].state = "approved"
    BY <1>7, ResolveType DEF Reject
  <2>2. DOMAIN actions' = DOMAIN actions
        /\ \A x \in DOMAIN actions : actions'[x].confidence = actions[x].confidence
    BY <1>7, MarkType DEF Reject
  <2>3. items' = items
    BY <1>7 DEF Reject
  <2>4. QED
    BY <1>1, <2>1, <2>2, <2>3
<1>8. ASSUME NEW i \in DOMAIN items, SetStatus(i) PROVE k \in DOMAIN items' <=> Consent(k)'
  BY <1>4, <1>8 DEF SetStatus
<1>9. ASSUME NEW x \in Messages, StoreMessage(x) PROVE k \in DOMAIN items' <=> Consent(k)'
  BY <1>4, <1>9 DEF StoreMessage
<1>10. CASE \E bad \in SUBSET Messages : StartCycle(bad)
  BY <1>4, <1>10 DEF StartCycle
<1>11. CASE NothingQueued \/ LLMFails \/ LLMAnswers \/ WorkerDies \/ ListReviews
  BY <1>4, <1>11 DEF NothingQueued, LLMFails, KeepQueued, LLMAnswers, WorkerDies, ListReviews
<1>12. ASSUME NEW p \in Proposals, RouteProposal(p) \/ UnknownTarget(p)
       PROVE  k \in DOMAIN items' <=> Consent(k)'
  BY <1>4, <1>12 DEF RouteProposal, UnknownTarget
<1>13. ASSUME NEW r \in DOMAIN reviews, ApproveUnsupported(r) PROVE k \in DOMAIN items' <=> Consent(k)'
  BY <1>4, <1>13 DEF ApproveUnsupported
<1>14. CASE UNCHANGED vars
  BY <1>4, <1>14 DEF vars
<1>15. QED
  BY <1>5, <1>6, <1>7, <1>8, <1>9, <1>10, <1>11, <1>12, <1>13, <1>14 DEF Next

(* A create that waits for the owner has no item.                          *)
LEMMA PendingIsNotMade ==
  ASSUME OneReview, ConsentInv, NEW r \in DOMAIN reviews, reviews[r].state = "pending",
         reviews[r].key \in NewItems
  PROVE  reviews[r].key \notin DOMAIN items
<1>1. reviews[r].key.type = "create_item"
  BY CreateKeys
<1>2. actions[reviews[r].key].confidence # "high"
  BY <1>1 DEF OneReview
<1>3. ~ \E s \in DOMAIN reviews : reviews[s].key = reviews[r].key /\ reviews[s].state = "approved"
  BY DEF OneReview
<1>4. QED
  BY <1>2, <1>3 DEF ConsentInv, Consent

-----------------------------------------------------------------------------
(* The inductive invariant.                                                *)

IInv ==
  /\ TypeOK
  /\ QueueInv
  /\ CycleInv
  /\ RouteInv
  /\ StoreInv
  /\ ~MayRepeat => OnceInv /\ OneReview /\ ConsentInv

LEMMA InvInit == Init => IInv
<1> SUFFICES ASSUME Init PROVE IInv
  OBVIOUS
<1>1. TypeOK
  BY TypeInit
<1>2. Range(queue) = {} /\ Range(fresh) = {} /\ Range(enqueued) = {} /\ DOMAIN reviews = {}
  BY DEF Init, Range
<1>3. Distinct(queue) /\ Distinct(fresh) /\ Distinct(enqueued)
  BY DEF Init, Distinct
<1>4. DOMAIN verdict = {} /\ DOMAIN saved = {} /\ DOMAIN actions = {}
  BY EmptyTable DEF Init
<1>5. \A m \in Messages : filter[m] = "absent"
  BY DEF Init
<1>6. QueueInv
  BY <1>2, <1>3, <1>5, PipelineAssumption DEF Init, QueueInv
<1>7. CycleInv
  BY <1>2, <1>3, <1>4 DEF Init, CycleInv
<1>8. RouteInv /\ StoreInv
  BY <1>2, <1>4 DEF Init, RouteInv, StoreInv, NothingHidden, ReviewInv
<1>9. OnceInv /\ OneReview
  BY <1>2, <1>3, <1>4 DEF OnceInv, OneReview
<1>10. ConsentInv
  <2>1. \A k \in NewItems : k \notin DOMAIN items
    BY ItemAssumption DEF Init
  <2>2. QED
    BY <1>2, <1>4, <2>1 DEF ConsentInv, Consent
<1>11. QED
  BY <1>1, <1>6, <1>7, <1>8, <1>9, <1>10 DEF IInv

LEMMA InvStep == IInv /\ [Next]_vars => IInv'
BY TypeStep, QueueStep, RouteStep, StoreStep, OnceStep, ReviewStep, ConsentStep DEF IInv

LEMMA InvHolds == Spec => []IInv
BY InvInit, InvStep, PTL DEF Spec

-----------------------------------------------------------------------------
(* Theorems.                                                               *)

(* Every variable keeps its type, and a cycle that ends, in a commit or a  *)
(* rollback, leaves nothing of its own behind.                             *)
THEOREM TypeCorrect == Spec => []TypeOK
<1>1. IInv => TypeOK
  BY DEF IInv
<1>2. QED
  BY <1>1, InvHolds, PTL

(* However often the worker dies, the LLM fails or the scorer raises, a    *)
(* message worth extracting that the filter is done with is a candidate    *)
(* still queued or one extracted, and never both.                          *)
THEOREM CandidateKept == Spec => []NoCandidateLost
<1>1. IInv => NoCandidateLost
  <2> SUFFICES ASSUME IInv, NEW m \in Worth
               PROVE  /\ filter[m] = "processed" <=> (m \in Range(queue) \/ m \in extracted)
                      /\ ~ (m \in Range(queue) /\ m \in extracted)
    BY DEF NoCandidateLost
  <2>1. QED
    BY DEF IInv, QueueInv
<1>2. QED
  BY <1>1, InvHolds, PTL

(* No stored action waits for an answer that the owner can no longer give, *)
(* and no stored action's message is extracted a second time.              *)
THEOREM ActionVisible == Spec => []NothingHidden
<1>1. IInv => NothingHidden
  BY DEF IInv, StoreInv
<1>2. QED
  BY <1>1, InvHolds, PTL

(* If no answer proposes one action twice, the items the worker and the    *)
(* bot made are those proposed with high confidence and those approved.    *)
THEOREM CreateConsent == ASSUME ~MayRepeat PROVE Spec => []CreatedWithConsent
<1>1. IInv => CreatedWithConsent
  BY ConsentForm DEF IInv
<1>2. QED
  BY <1>1, InvHolds, PTL

(* If no answer proposes one action twice, only the owner changes the      *)
(* status of an item: by its button, or by approving a pending proposal to *)
(* change it.                                                              *)
THEOREM ChangeConsent == ASSUME ~MayRepeat PROVE Spec => ChangedWithConsent
<1> DEFINE ByConsent(i) ==
      items'[i] # items[i] =>
        \/ presses' = presses + 1
        \/ \E r \in DOMAIN reviews : /\ reviews[r].key.type = "update_item_status"
                                     /\ reviews[r].key.target = i
                                     /\ reviews[r].state = "pending"
                                     /\ reviews'[r].state = "approved"
<1>1. ASSUME IInv, [Next]_vars PROVE \A i \in DOMAIN items : ByConsent(i)
  <2> USE DEF stages, store, owner
  <2>1. ASSUME items' = items \/ presses' = presses + 1 PROVE \A i \in DOMAIN items : ByConsent(i)
    BY <2>1
  <2>2. TypeOK /\ QueueInv /\ CycleInv /\ RouteInv /\ StoreInv /\ OneReview /\ ConsentInv
    BY <1>1 DEF IInv
  <2>3. CASE CommitCycle
    <3>1. \A i \in DOMAIN items \ created : items'[i] = items[i]
      BY <2>2, <2>3, CommitType
    <3>2. ASSUME NEW i \in created PROVE i \notin DOMAIN items
      <4>1. i \in DOMAIN saved /\ pc # "idle" /\ i \in NewItems
        BY <2>2, <2>3 DEF RouteInv, CommitCycle, TypeOK
      <4>2. QED
        BY <2>2, <4>1, SavedIsNotMade
    <3>3. QED
      BY <3>1, <3>2
  <2>4. ASSUME NEW r \in DOMAIN reviews, Approve(r) PROVE \A i \in DOMAIN items : ByConsent(i)
    <3> reviews[r] \in ReviewRow
      BY <2>2, <2>4 DEF TypeOK
    <3>1. reviews[r].key \in Keys /\ Supported(reviews[r].key) /\ reviews[r].state = "pending"
      BY <2>4 DEF Approve, ReviewRow
    <3>2. reviews'[r].state = "approved"
      BY <2>2, <2>4, <3>1, ResolveType DEF Approve
    <3>3. items' = Upsert(Effect(reviews[r].key), items)
      BY <2>4 DEF Approve
    <3>4. CASE reviews[r].key.type = "create_item"
      <4>1. reviews[r].key \in NewItems /\ DOMAIN Effect(reviews[r].key) = {reviews[r].key}
        BY <3>1, <3>4, EffectType
      <4>2. reviews[r].key \notin DOMAIN items
        BY <2>2, <3>1, <4>1, PendingIsNotMade
      <4>3. QED
        BY <3>3, <4>1, <4>2 DEF Upsert
    <3>5. CASE reviews[r].key.type # "create_item"
      <4>1. DOMAIN Effect(reviews[r].key) = {reviews[r].key.target}
        BY <3>1, <3>5, EffectType
      <4>2. reviews[r].key.type = "update_item_status"
        BY <3>1, <3>5 DEF Supported
      <4>3. \A i \in DOMAIN items \ {reviews[r].key.target} : items'[i] = items[i]
        BY <3>3, <4>1 DEF Upsert
      <4>4. QED
        BY <3>1, <3>2, <4>2, <4>3
    <3>6. QED
      BY <3>4, <3>5
  <2>5. ASSUME NEW i \in DOMAIN items, SetStatus(i) PROVE \A j \in DOMAIN items : ByConsent(j)
    BY <2>1, <2>5 DEF SetStatus
  <2>6. ASSUME NEW m \in Messages, StoreMessage(m) PROVE \A i \in DOMAIN items : ByConsent(i)
    BY <2>1, <2>6 DEF StoreMessage
  <2>7. CASE \E bad \in SUBSET Messages : StartCycle(bad)
    BY <2>1, <2>7 DEF StartCycle
  <2>8. CASE NothingQueued \/ LLMFails \/ LLMAnswers \/ WorkerDies \/ ListReviews
    BY <2>1, <2>8 DEF NothingQueued, LLMFails, KeepQueued, LLMAnswers, WorkerDies, ListReviews
  <2>9. ASSUME NEW p \in Proposals, RouteProposal(p) \/ UnknownTarget(p) PROVE \A i \in DOMAIN items : ByConsent(i)
    BY <2>1, <2>9 DEF RouteProposal, UnknownTarget
  <2>10. ASSUME NEW r \in DOMAIN reviews, ApproveUnsupported(r) \/ Reject(r) PROVE \A i \in DOMAIN items : ByConsent(i)
    BY <2>1, <2>10 DEF ApproveUnsupported, Reject
  <2>11. CASE UNCHANGED vars
    BY <2>1, <2>11 DEF vars
  <2>12. QED
    BY <1>1, <2>3, <2>4, <2>5, <2>6, <2>7, <2>8, <2>9, <2>10, <2>11 DEF Next
<1>2. QED
  BY <1>1, InvHolds, PTL DEF Spec, ChangedWithConsent

-----------------------------------------------------------------------------
(* The boundaries of what goes wrong: what holds of any answers, and what  *)
(* a single premise restores.                                              *)

LEMMA ReviewAt ==
  ASSUME TypeOK, NEW r \in DOMAIN reviews
  PROVE  reviews[r].key \in Keys /\ reviews[r].state \in {"pending", "approved", "rejected"}
<1>1. reviews[r] \in ReviewRow
  BY DEF TypeOK
<1>2. QED
  BY <1>1 DEF ReviewRow

(* The steps that leave the tables of items and reviews alone.             *)
LEMMA QuietSteps ==
  ASSUME [Next]_vars,
         ~ CommitCycle,
         ~ \E r \in DOMAIN reviews : Approve(r) \/ Reject(r),
         ~ \E i \in DOMAIN items : SetStatus(i)
  PROVE  UNCHANGED store
<1> USE DEF stages, store, owner
<1>1. ASSUME NEW m \in Messages, StoreMessage(m) PROVE UNCHANGED store
  BY <1>1 DEF StoreMessage
<1>2. CASE \E bad \in SUBSET Messages : StartCycle(bad)
  BY <1>2 DEF StartCycle
<1>3. CASE NothingQueued \/ LLMFails \/ LLMAnswers \/ WorkerDies \/ ListReviews
  BY <1>3 DEF NothingQueued, LLMFails, KeepQueued, LLMAnswers, WorkerDies, ListReviews
<1>4. ASSUME NEW p \in Proposals, RouteProposal(p) \/ UnknownTarget(p) PROVE UNCHANGED store
  BY <1>4 DEF RouteProposal, UnknownTarget
<1>5. ASSUME NEW r \in DOMAIN reviews, ApproveUnsupported(r) PROVE UNCHANGED store
  BY <1>5 DEF ApproveUnsupported
<1>6. CASE UNCHANGED vars
  BY <1>6 DEF vars
<1>7. QED
  BY <1>1, <1>2, <1>3, <1>4, <1>5, <1>6 DEF Next

(* An item the worker or the owner made comes from an extracted message.   *)
MadeInv == \A k \in NewItems : k \in DOMAIN items => k.source \in extracted

LEMMA MadeStep == IInv /\ MadeInv /\ [Next]_vars => MadeInv'
<1> SUFFICES ASSUME IInv, MadeInv, [Next]_vars PROVE MadeInv'
  OBVIOUS
<1> USE DEF stages, store, owner
<1>1. TypeOK /\ RouteInv /\ StoreInv
  BY DEF IInv
<1>2. extracted \subseteq extracted'
  <2>1. CASE CommitCycle
    BY <2>1 DEF CommitCycle
  <2>2. CASE UNCHANGED extracted
    BY <2>2
  <2>3. QED
    BY <2>1, <2>2 DEF Next, vars, StoreMessage, StartCycle, NothingQueued, LLMFails, KeepQueued, LLMAnswers,
       RouteProposal, UnknownTarget, WorkerDies, ListReviews, Approve, ApproveUnsupported, Reject, SetStatus
<1>3. CASE CommitCycle
  <2>1. DOMAIN items' = created \union DOMAIN items /\ extracted' = extracted \union Range(batch)
    BY <1>1, <1>3, CommitType DEF CommitCycle
  <2>2. \A k \in created : k.source \in Range(batch)
    BY <1>1 DEF RouteInv
  <2>3. QED
    BY <2>1, <2>2 DEF MadeInv
<1>4. ASSUME NEW r \in DOMAIN reviews, Approve(r) PROVE MadeInv'
  <2>1. reviews[r].key \in Keys /\ Supported(reviews[r].key)
    BY <1>1, <1>4, ReviewAt DEF Approve
  <2>2. reviews[r].key.source \in extracted
    BY <1>1 DEF StoreInv, ReviewInv, NothingHidden
  <2>3. reviews[r].key.type # "create_item" => reviews[r].key.target \in DOMAIN items
    BY <1>1, <2>1, EffectType, ItemAssumption DEF StoreInv, ReviewInv
  <2>4. DOMAIN items' = DOMAIN Effect(reviews[r].key) \union DOMAIN items
    BY <1>4 DEF Approve, Upsert
  <2>5. \A k \in DOMAIN items' : k \in DOMAIN items \/ k = reviews[r].key
    BY <2>1, <2>3, <2>4, EffectType
  <2>6. QED
    BY <1>2, <2>2, <2>5 DEF MadeInv
<1>5. CASE \E r \in DOMAIN reviews : Reject(r)
  BY <1>5 DEF Reject, MadeInv
<1>6. CASE \E i \in DOMAIN items : SetStatus(i)
  BY <1>6 DEF SetStatus, MadeInv
<1>7. QED
  BY <1>2, <1>3, <1>4, <1>5, <1>6, QuietSteps DEF MadeInv

LEMMA MadeHolds == Spec => [](IInv /\ MadeInv)
<1>1. Init => MadeInv
  <2>1. Init => \A k \in NewItems : k \notin DOMAIN items
    BY ItemAssumption DEF Init
  <2>2. QED
    BY <2>1 DEF MadeInv
<1>2. QED
  BY <1>1, InvHolds, MadeStep, PTL DEF Spec

(* Whatever an answer repeats: the worker leaves every item that is there  *)
(* as it is, none is removed, and only the owner changes a status, by her  *)
(* button or by approving a review about this item.                        *)
THEOREM OwnersItems == Spec => ItemsAreTheOwners
<1> DEFINE Owned(i) ==
      /\ i \in DOMAIN items'
      /\ items'[i] # items[i] =>
           \/ presses' = presses + 1
           \/ \E r \in DOMAIN reviews : /\ i \in {reviews[r].key, reviews[r].key.target}
                                        /\ reviews[r].state = "pending"
                                        /\ reviews'[r].state = "approved"
<1>1. ASSUME IInv, MadeInv, [Next]_vars PROVE \A i \in DOMAIN items : Owned(i)
  <2>1. TypeOK /\ QueueInv /\ CycleInv /\ RouteInv /\ StoreInv
    BY <1>1 DEF IInv
  <2>2. CASE UNCHANGED store
    BY <2>2 DEF store
  <2>3. CASE CommitCycle
    <3>1. /\ DOMAIN items' = created \union DOMAIN items
          /\ \A i \in DOMAIN items \ created : items'[i] = items[i]
      BY <2>1, <2>3, CommitType
    <3>2. ASSUME NEW i \in created PROVE i \notin DOMAIN items
      <4>1. i.source \in Range(batch) /\ i \in NewItems
        BY <2>1 DEF RouteInv, TypeOK
      <4>2. i.source \notin extracted
        BY <2>1, <2>3, <4>1, BatchFacts, QueuedFacts DEF CommitCycle
      <4>3. QED
        BY <1>1, <4>1, <4>2 DEF MadeInv
    <3>3. QED
      BY <3>1, <3>2
  <2>4. ASSUME NEW r \in DOMAIN reviews, Approve(r) PROVE \A i \in DOMAIN items : Owned(i)
    <3>1. reviews[r].key \in Keys /\ Supported(reviews[r].key) /\ reviews[r].state = "pending"
      BY <2>1, <2>4, ReviewAt DEF Approve
    <3>2. reviews'[r].state = "approved"
      BY <2>1, <2>4, <3>1, ResolveType DEF Approve
    <3>3. DOMAIN Effect(reviews[r].key) \subseteq {reviews[r].key, reviews[r].key.target}
      BY <3>1, EffectType
    <3>4. items' = Upsert(Effect(reviews[r].key), items)
      BY <2>4 DEF Approve
    <3>5. /\ DOMAIN items \subseteq DOMAIN items'
          /\ \A i \in DOMAIN items \ DOMAIN Effect(reviews[r].key) : items'[i] = items[i]
      BY <3>4 DEF Upsert
    <3>6. QED
      BY <3>1, <3>2, <3>3, <3>5
  <2>5. ASSUME NEW i \in DOMAIN items, SetStatus(i) PROVE \A j \in DOMAIN items : Owned(j)
    BY <2>5 DEF SetStatus
  <2>6. CASE \E r \in DOMAIN reviews : Reject(r)
    BY <2>6 DEF Reject
  <2>7. QED
    BY <1>1, <2>2, <2>3, <2>4, <2>5, <2>6, QuietSteps
<1>2. QED
  BY <1>1, MadeHolds, PTL DEF Spec, ItemsAreTheOwners

(* A proposal to create an item that the owner rejects while it waits has  *)
(* no effect then or later, if no answer proposes one action twice.        *)
(* (Rejecting an approved one is another matter: RejectedHasNoEffect.)     *)
THEOREM RejectedStaysOut == ASSUME ~MayRepeat PROVE Spec => []RejectedWhileAsked
<1>1. IInv => RejectedWhileAsked
  <2> SUFFICES ASSUME IInv, NEW r \in DOMAIN reviews, reviews[r].key.type = "create_item",
                      reviews[r].state = "rejected"
               PROVE  reviews[r].key \notin DOMAIN items
    BY DEF RejectedWhileAsked
  <2>1. TypeOK /\ OneReview /\ ConsentInv
    BY DEF IInv
  <2> reviews[r].key \in NewItems
    BY <2>1, ReviewAt, CreateKeys
  <2>2. actions[reviews[r].key].confidence # "high"
    BY <2>1 DEF OneReview
  <2>3. ~ \E s \in DOMAIN reviews : reviews[s].key = reviews[r].key /\ reviews[s].state = "approved"
    BY <2>1 DEF OneReview
  <2>4. QED
    BY <2>1, <2>2, <2>3 DEF ConsentInv, Consent
<1>2. QED
  BY <1>1, InvHolds, PTL

(* A message that is sent to the LLM has no stored answer: whatever dies   *)
(* or fails, no answer is paid for, routed and applied a second time.      *)
THEOREM NeverAskedAgain == Spec => []AskedOnce
<1>1. IInv => AskedOnce
  <2> SUFFICES ASSUME IInv, NEW m \in Range(batch) PROVE m \notin extracted
    BY DEF AskedOnce
  <2>1. TypeOK /\ QueueInv /\ CycleInv
    BY DEF IInv
  <2>2. CASE pc = "idle"
    BY <2>1, <2>2 DEF TypeOK, Range
  <2>3. CASE pc # "idle"
    BY <2>1, <2>3, BatchFacts, QueuedFacts
  <2>4. QED
    BY <2>2, <2>3
<1>2. QED
  BY <1>1, InvHolds, PTL

-----------------------------------------------------------------------------
(* The queue and the list of reviews.                                      *)

(* How a step treats the queue: the first n of it are taken.               *)
Takes(n) ==
  /\ \A i \in 1 .. n : queue[i] \in extracted'
  /\ Len(queue) - n <= Len(queue')
  /\ \A i \in 1 .. Len(queue) - n : queue'[i] = queue[n + i]
  /\ n = 0 /\ queue # <<>> => extracted' = extracted

LEMMA TakesNone ==
  ASSUME TypeOK, extracted' = extracted, queue' = queue \/ queue' = Queued
  PROVE  \E n \in 0 .. Len(queue) : Takes(n)
<1>1. queue \in Seq(Messages) /\ fresh \in Seq(Messages)
  BY DEF TypeOK
<1>2. /\ Len(Queued) = Len(queue) + Len(fresh) /\ Len(queue) \in Nat /\ Len(fresh) \in Nat
      /\ \A i \in 1 .. Len(queue) : Queued[i] = queue[i]
  BY <1>1, ConcatProperties DEF Queued
<1>3. Takes(0)
  BY <1>2 DEF Takes
<1>4. QED
  BY <1>2, <1>3

LEMMA TakesBatch ==
  ASSUME TypeOK, CycleInv, CommitCycle
  PROVE  \E n \in 0 .. Len(queue) : Takes(n)
<1>1. queue \in Seq(Messages) /\ fresh \in Seq(Messages) /\ pc # "idle" /\ batch \in Seq(Messages)
  BY DEF TypeOK, CommitCycle
<1>2. /\ Queued \in Seq(Messages)
      /\ Len(Queued) = Len(queue) + Len(fresh) /\ Len(queue) \in Nat /\ Len(fresh) \in Nat
      /\ \A i \in 1 .. Len(queue) : Queued[i] = queue[i]
  BY <1>1, ConcatProperties DEF Queued
<1>3. /\ Len(batch) \in 0 .. Len(Queued)
      /\ \A i \in 1 .. Len(batch) : batch[i] = Queued[i]
  BY <1>1, BatchFacts
<1>4. /\ Len(RestOf(Queued, Len(batch))) = Len(Queued) - Len(batch)
      /\ \A i \in 1 .. Len(Queued) - Len(batch) : RestOf(Queued, Len(batch))[i] = Queued[Len(batch) + i]
  BY <1>2, <1>3, RestOfSeq
<1>5. queue' = RestOf(Queued, Len(batch)) /\ extracted' = extracted \union Range(batch)
  BY DEF CommitCycle
<1>6. \A i \in 1 .. Len(batch) : batch[i] \in extracted'
  BY <1>1, <1>5, InRange
<1>7. PICK n \in 0 .. Len(queue) : n = IF Len(batch) < Len(queue) THEN Len(batch) ELSE Len(queue)
  BY <1>2, <1>3
<1>8. \A i \in 1 .. n : queue[i] \in extracted'
  <2> SUFFICES ASSUME NEW i \in 1 .. n PROVE queue[i] \in extracted'
    OBVIOUS
  <2>1. i \in 1 .. Len(queue) /\ i \in 1 .. Len(batch)
    BY <1>2, <1>3, <1>7
  <2>2. queue[i] = batch[i]
    BY <1>2, <1>3, <2>1
  <2>3. QED
    BY <1>6, <2>1, <2>2
<1>9. Len(queue) - n <= Len(queue')
  BY <1>2, <1>3, <1>4, <1>5, <1>7
<1>10. \A i \in 1 .. Len(queue) - n : queue'[i] = queue[n + i]
  <2> SUFFICES ASSUME NEW i \in 1 .. Len(queue) - n PROVE queue'[i] = queue[n + i]
    OBVIOUS
  <2>1. n = Len(batch) /\ n + i \in 1 .. Len(queue) /\ i \in 1 .. Len(Queued) - Len(batch)
    BY <1>2, <1>3, <1>7
  <2>2. QED
    BY <1>2, <1>4, <1>5, <2>1
<1>11. n = 0 /\ queue # <<>> => extracted' = extracted
  <2>1. queue # <<>> => Len(queue) > 0
    BY <1>1, <1>2, EmptySeq
  <2>2. n = 0 /\ queue # <<>> => Len(batch) = 0
    BY <1>2, <1>3, <1>7, <2>1
  <2>3. ASSUME Len(batch) = 0, NEW m \in Range(batch) PROVE FALSE
    <3>1. PICK i \in 1 .. Len(batch) : batch[i] = m
      BY <1>1, <2>3, InRange
    <3>2. QED
      BY <2>3, <3>1
  <2>4. QED
    BY <1>5, <2>2, <2>3
<1>12. QED
  BY <1>8, <1>9, <1>10, <1>11 DEF Takes

(* The queue is first in, first out, whatever dies or fails: every answer  *)
(* that is kept is about the messages that have waited longest, so none    *)
(* waits for ever while others are extracted.                              *)
THEOREM QueueInTurn == Spec => InTurn
<1> USE DEF stages, store, owner
<1>1. ASSUME IInv, [Next]_vars PROVE \E n \in 0 .. Len(queue) : Takes(n)
  <2>1. TypeOK /\ CycleInv
    BY <1>1 DEF IInv
  <2>2. ASSUME UNCHANGED <<queue, extracted>> PROVE \E n \in 0 .. Len(queue) : Takes(n)
    BY <2>1, <2>2, TakesNone
  <2>3. CASE CommitCycle
    BY <2>1, <2>3, TakesBatch
  <2>4. CASE NothingQueued \/ LLMFails
    BY <2>1, <2>4, TakesNone DEF NothingQueued, LLMFails, KeepQueued
  <2>5. CASE LLMAnswers \/ WorkerDies \/ ListReviews \/ \E bad \in SUBSET Messages : StartCycle(bad)
    BY <2>2, <2>5 DEF LLMAnswers, WorkerDies, ListReviews, StartCycle
  <2>6. ASSUME NEW m \in Messages, StoreMessage(m) PROVE \E n \in 0 .. Len(queue) : Takes(n)
    BY <2>2, <2>6 DEF StoreMessage
  <2>7. ASSUME NEW p \in Proposals, RouteProposal(p) \/ UnknownTarget(p)
        PROVE  \E n \in 0 .. Len(queue) : Takes(n)
    BY <2>2, <2>7 DEF RouteProposal, UnknownTarget
  <2>8. ASSUME NEW r \in DOMAIN reviews, Approve(r) \/ ApproveUnsupported(r) \/ Reject(r)
        PROVE  \E n \in 0 .. Len(queue) : Takes(n)
    BY <2>2, <2>8 DEF Approve, ApproveUnsupported, Reject
  <2>9. ASSUME NEW i \in DOMAIN items, SetStatus(i) PROVE \E n \in 0 .. Len(queue) : Takes(n)
    BY <2>2, <2>9 DEF SetStatus
  <2>10. CASE UNCHANGED vars
    BY <2>2, <2>10 DEF vars
  <2>11. QED
    BY <1>1, <2>3, <2>4, <2>5, <2>6, <2>7, <2>8, <2>9, <2>10 DEF Next
<1>2. QED
  BY <1>1, InvHolds, PTL DEF Spec, InTurn, Takes

(* What has been answered was shown before: every answer is a button.      *)
AnsweredInv == \A r \in DOMAIN reviews : reviews[r].state # "pending" => r \in shown

OrderInv == AnsweredInv /\ ShownInOrder

\* Reviews are numbered, and finitely many wait.
LEMMA PendingFinite == ASSUME TypeOK PROVE Pending \subseteq Nat /\ IsFiniteSet(Pending)
<1>1. PICK n \in Nat : DOMAIN reviews = 1 .. n
  BY DEF TypeOK
<1>2. IsFiniteSet(1 .. n)
  BY FS_Interval
<1>3. Pending \subseteq 1 .. n
  BY <1>1 DEF Pending
<1>4. IsFiniteSet(Pending)
  BY <1>2, <1>3, FS_Subset
<1>5. QED
  BY <1>3, <1>4

\* A review that waits is listed whenever a younger one is.
LEMMA OlderListed ==
  ASSUME TypeOK, NEW r \in Listed, NEW s \in Pending, s < r
  PROVE  s \in Listed
<1> DEFINE Before(x) == {t \in Pending : t < x}
<1>1. Pending \subseteq Nat /\ IsFiniteSet(Pending) /\ ShowLimit \in Nat
  BY PendingFinite, PipelineAssumption
<1>2. r \in Pending /\ Cardinality(Before(r)) < ShowLimit
  BY DEF Listed
<1>3. Before(r) \subseteq Pending /\ Before(s) \subseteq Before(r)
  <2>1. r \in Nat /\ s \in Nat /\ \A t \in Pending : t \in Nat
    BY <1>1, <1>2
  <2>2. \A t \in Pending : t < s => t < r
    BY <2>1
  <2>3. QED
    BY <2>2
<1>4. IsFiniteSet(Before(r)) /\ IsFiniteSet(Before(s))
  BY <1>1, <1>3, FS_Subset
<1>5. /\ Cardinality(Before(s)) <= Cardinality(Before(r))
      /\ Cardinality(Before(s)) \in Nat /\ Cardinality(Before(r)) \in Nat
  BY <1>3, <1>4, FS_Subset, FS_CardinalityType
<1>6. Cardinality(Before(s)) < ShowLimit
  BY <1>1, <1>2, <1>5
<1>7. QED
  BY <1>6 DEF Listed

LEMMA OrderStep == TypeOK /\ OrderInv /\ [Next]_vars => OrderInv'
<1> SUFFICES ASSUME TypeOK, OrderInv, [Next]_vars PROVE OrderInv'
  OBVIOUS
<1>0. shown \subseteq DOMAIN reviews
  BY DEF TypeOK
<1>1. CASE ListReviews
  <2>1. reviews' = reviews /\ shown' = shown \union Listed
    BY <1>1 DEF ListReviews, store
  <2>2. ASSUME NEW r \in shown', NEW s \in DOMAIN reviews, s < r PROVE s \in shown'
    <3>1. CASE s \notin Pending
      BY <2>1, <3>1 DEF OrderInv, AnsweredInv, Pending
    <3>2. CASE r \in shown
      BY <2>1, <2>2, <3>2 DEF OrderInv, ShownInOrder
    <3>3. CASE r \in Listed /\ s \in Pending
      BY <2>1, <2>2, <3>3, OlderListed
    <3>4. QED
      BY <2>1, <2>2, <3>1, <3>2, <3>3
  <2>3. QED
    BY <2>1, <2>2 DEF OrderInv, AnsweredInv, ShownInOrder
<1>2. CASE CommitCycle
  <2>1. shown' = shown
    BY <1>2 DEF CommitCycle, owner
  <2>2. /\ \A r \in DOMAIN reviews : r \in DOMAIN reviews' /\ reviews'[r] = reviews[r]
        /\ \A r \in DOMAIN reviews' \ DOMAIN reviews :
             \E i \in 1 .. Len(enqueued) : r = Len(reviews) + i
        /\ \A i \in 1 .. Len(enqueued) : reviews'[Len(reviews) + i].state = "pending"
    BY <1>2, CommitReviews
  <2>3. DOMAIN reviews = 1 .. Len(reviews) /\ Len(reviews) \in Nat /\ Len(enqueued) \in Nat
    BY DEF TypeOK
  <2>4. AnsweredInv'
    BY <2>1, <2>2 DEF OrderInv, AnsweredInv
  <2>5. ASSUME NEW r \in shown, NEW s \in DOMAIN reviews', s < r PROVE s \in shown
    <3>1. r \in 1 .. Len(reviews)
      BY <1>0, <2>3
    <3>2. s \in DOMAIN reviews
      <4>1. ASSUME NEW i \in 1 .. Len(enqueued), s = Len(reviews) + i PROVE FALSE
        BY <2>3, <2>5, <3>1, <4>1
      <4>2. QED
        BY <2>2, <4>1
    <3>3. QED
      BY <2>5, <3>2 DEF OrderInv, ShownInOrder
  <2>6. QED
    BY <2>1, <2>4, <2>5 DEF OrderInv, ShownInOrder
<1>3. ASSUME NEW r \in DOMAIN reviews, NEW state \in {"approved", "rejected"}, r \in shown,
             Resolve(r, state), shown' = shown
      PROVE  OrderInv'
  <2>1. /\ DOMAIN reviews' = DOMAIN reviews
        /\ \A s \in DOMAIN reviews \ {r} : reviews'[s].state = reviews[s].state
    BY <1>3, ResolveType
  <2>2. QED
    BY <1>3, <2>1 DEF OrderInv, AnsweredInv, ShownInOrder
<1>4. ASSUME NEW r \in DOMAIN reviews, Approve(r) PROVE OrderInv'
  BY <1>3, <1>4 DEF Approve, owner
<1>5. ASSUME NEW r \in DOMAIN reviews, Reject(r) PROVE OrderInv'
  BY <1>3, <1>5 DEF Reject, owner
<1>6. ASSUME UNCHANGED <<reviews, shown>> PROVE OrderInv'
  BY <1>6 DEF OrderInv, AnsweredInv, ShownInOrder
<1> USE DEF stages, store, owner
<1>7. ASSUME NEW m \in Messages, StoreMessage(m) PROVE OrderInv'
  BY <1>6, <1>7 DEF StoreMessage
<1>8. CASE \E bad \in SUBSET Messages : StartCycle(bad)
  BY <1>6, <1>8 DEF StartCycle
<1>9. CASE NothingQueued \/ LLMFails \/ LLMAnswers \/ WorkerDies
  BY <1>6, <1>9 DEF NothingQueued, LLMFails, KeepQueued, LLMAnswers, WorkerDies
<1>10. ASSUME NEW p \in Proposals, RouteProposal(p) \/ UnknownTarget(p) PROVE OrderInv'
  BY <1>6, <1>10 DEF RouteProposal, UnknownTarget
<1>11. ASSUME NEW r \in DOMAIN reviews, ApproveUnsupported(r) PROVE OrderInv'
  BY <1>6, <1>11 DEF ApproveUnsupported
<1>12. ASSUME NEW i \in DOMAIN items, SetStatus(i) PROVE OrderInv'
  BY <1>6, <1>12 DEF SetStatus
<1>13. CASE UNCHANGED vars
  BY <1>6, <1>13 DEF vars
<1>14. QED
  BY <1>1, <1>2, <1>4, <1>5, <1>7, <1>8, <1>9, <1>10, <1>11, <1>12, <1>13 DEF Next

(* No review overtakes an older one on its way to the owner, for any limit *)
(* of the list and in whatever order she answers: list_pending_reviews     *)
(* orders by age and leaves out only what was answered, which was shown.   *)
THEOREM ReviewsInTurn == Spec => []ShownInOrder
<1>1. Init => OrderInv
  BY DEF Init, OrderInv, AnsweredInv, ShownInOrder
<1>2. OrderInv => ShownInOrder
  BY DEF OrderInv
<1>3. QED
  BY <1>1, <1>2, OrderStep, TypeCorrect, PTL DEF Spec
=============================================================================
