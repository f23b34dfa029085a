-------------------------- MODULE PipelinePromise --------------------------
(***************************************************************************)
(* What the pipeline promises to the owner, without batches, transactions, *)
(* queues, confidence or failures: a message goes forward through its      *)
(* stages and is extracted at most once; what an extraction proposes is    *)
(* done or put to her, never both; a question is put once and answered     *)
(* once; and an item changes only by an approval or by her own button.     *)
(* ActionPipeline implements this specification.                           *)
(***************************************************************************)
CONSTANTS Messages,  \* the messages Telegram will ever deliver
          Worth,     \* those worth extracting
          Keys,      \* what may be proposed: [source, target, status, ...]
          Creates,   \* the proposals to create an item, also its id
          None,      \* no target
          OldItems   \* the items at the start

VARIABLES
  stage,   \* stage[m]: "unseen", "received", "passed", "candidate", "extracted"
  asked,   \* the owner's answer, "pending" at first, to each question put to her
  items    \* the status of each item

promiseVars == <<stage, asked, items>>

With(table, keys, value) ==
  [k \in DOMAIN table \union keys |-> IF k \in keys THEN value ELSE table[k]]

At(s) == {m \in Messages : stage[m] = s}

Init ==
  /\ stage = [m \in Messages |-> "unseen"]
  /\ asked = [k \in {} |-> "pending"]
  /\ items = [i \in OldItems |-> "open"]

Receive(m) ==
  /\ stage[m] = "unseen"
  /\ stage' = [stage EXCEPT ![m] = "received"]
  /\ UNCHANGED <<asked, items>>

(* The worker judges some messages, and extracts some of the candidates:   *)
(* it makes items that were not there and puts questions not put before,   *)
(* about items that are there.                                             *)
Work(judged, done) ==
  /\ judged \subseteq At("received")
  /\ done \subseteq At("candidate") \union (judged \intersect Worth)
  /\ stage' = [m \in Messages |->
                 IF m \in done THEN "extracted"
                 ELSE IF m \in judged THEN IF m \in Worth THEN "candidate" ELSE "passed"
                 ELSE stage[m]]
  /\ \E made \in SUBSET {k \in Creates : k.source \in done} :
       /\ made \intersect DOMAIN items = {}
       /\ items' = With(items, made, "open")
  /\ \E put \in SUBSET {k \in Keys : k.source \in done} :
       /\ put \intersect DOMAIN asked = {}
       /\ put \intersect Creates \intersect DOMAIN items' = {}
       /\ \A k \in put : k.target \in DOMAIN items' \union {None}
       /\ asked' = With(asked, put, "pending")

Approve(k) ==
  /\ asked[k] = "pending"
  /\ asked' = [asked EXCEPT ![k] = "approved"]
  /\ \/ k \in Creates \ DOMAIN items /\ items' = With(items, {k}, "open")
     \/ k.target \in DOMAIN items /\ items' = [items EXCEPT ![k.target] = k.status]
  /\ UNCHANGED stage

Reject(k) ==
  /\ asked[k] = "pending"
  /\ asked' = [asked EXCEPT ![k] = "rejected"]
  /\ UNCHANGED <<stage, items>>

Press(i) ==
  /\ items' = [items EXCEPT ![i] = "completed"]
  /\ UNCHANGED <<stage, asked>>

Next ==
  \/ \E m \in Messages : Receive(m)
  \/ \E k \in DOMAIN asked : Approve(k) \/ Reject(k)
  \/ \E i \in DOMAIN items : Press(i)
  \/ \E judged, done \in SUBSET Messages : Work(judged, done)

Spec == Init /\ [][Next]_promiseVars
=============================================================================
