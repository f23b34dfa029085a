------------------------ MODULE ModelLoading_proofs ------------------------
(***************************************************************************)
(* Proofs about ModelLoading: type correctness, the state in which the     *)
(* worker begins its work, and what it leaves alone on the shared server,  *)
(* for any numbers of instances, failures and other users.                 *)
(***************************************************************************)
EXTENDS ModelLoading, FiniteSetTheorems, TLAPS

(* A load may be late only because its request failed.                     *)
LateInv == late <= faults

(* What is still to unload does not fit, unless its id has been given to   *)
(* an instance of someone else since.                                      *)
MismatchedInv ==
  \A i \in (mismatched \intersect DOMAIN loaded) \ recycled :
    loaded[i].model = "configured" /\ loaded[i].context # Wanted

(* The instance of a refused load is one of the worker's model, with the   *)
(* same exception.                                                         *)
MineInv == mine \in DOMAIN loaded \ recycled => loaded[mine].model = "configured"

(* As long as nobody else has acted, the list that was read says what the  *)
(* server has.                                                             *)
ListInv ==
  ~ disturbed =>
    /\ pc = "unloading" =>
         /\ mismatched = {i \in Configured : ~ Matches(i)}
         /\ matching <=> \E i \in Configured : Matches(i)
    /\ pc = "loading" => Configured = {}

IInv == TypeOK /\ LateInv /\ MismatchedInv /\ MineInv /\ ListInv /\ ReadyMeansLoaded

-----------------------------------------------------------------------------
(* What the two operations on the server do to its instances.              *)
LEMMA LoadsFacts ==
  ASSUME NEW i, NEW model \in Models, NEW context \in Contexts, Loads(i, model, context)
  PROVE  /\ i \in Ids /\ i \notin DOMAIN loaded
         /\ DOMAIN loaded' = DOMAIN loaded \union {i}
         /\ loaded'[i] = [model |-> model, context |-> context]
         /\ \A j \in DOMAIN loaded : loaded'[j] = loaded[j]
<1>1. i \in Ids /\ i \notin DOMAIN loaded /\ loaded' = With(i, model, context)
  BY DEF Loads
<1>2. /\ DOMAIN With(i, model, context) = DOMAIN loaded \union {i}
      /\ With(i, model, context)[i] = [model |-> model, context |-> context]
      /\ \A j \in DOMAIN loaded : With(i, model, context)[j] = loaded[j]
  BY <1>1 DEF With
<1>3. QED
  BY <1>1, <1>2, Zenon

LEMMA WithoutFacts ==
  ASSUME NEW i
  PROVE  /\ DOMAIN Without(i) = DOMAIN loaded \ {i}
         /\ \A j \in DOMAIN loaded \ {i} : Without(i)[j] = loaded[j]
BY DEF Without

(* A step that adds an instance, or takes one away, keeps the server's     *)
(* part of the type invariant.                                             *)
ServerType ==
  /\ DOMAIN loaded \subseteq Ids
  /\ \A i \in DOMAIN loaded : loaded[i] \in Instances

LEMMA LoadsType ==
  ASSUME NEW i, NEW model \in Models, NEW context \in Contexts, TypeOK, Loads(i, model, context)
  PROVE  ServerType'
<1>1. /\ i \in Ids
      /\ DOMAIN loaded' = DOMAIN loaded \union {i}
      /\ loaded'[i] = [model |-> model, context |-> context]
      /\ \A j \in DOMAIN loaded : loaded'[j] = loaded[j]
  BY LoadsFacts, Zenon
<1>2. ASSUME NEW j \in DOMAIN loaded' PROVE loaded'[j] \in Instances
  <2>1. CASE j \in DOMAIN loaded
    BY <1>1, <2>1 DEF TypeOK
  <2>2. CASE j = i
    BY <1>1, <2>2 DEF Instances
  <2>3. QED
    BY <1>1, <2>1, <2>2
<1>3. QED
  BY <1>1, <1>2 DEF ServerType, TypeOK

LEMMA UnloadType ==
  ASSUME NEW i, TypeOK, loaded' = Without(i)
  PROVE  ServerType'
BY WithoutFacts DEF ServerType, TypeOK

LEMMA RestartType ==
  ASSUME Restart
  PROVE  pc' = "listing" /\ mismatched' = {} /\ mine' = 0 /\ matching' = FALSE
         /\ disturbed' = disturbed /\ recycled' = recycled
BY DEF Restart, NoInstance, history

-----------------------------------------------------------------------------
LEMMA TypeInit == Init => TypeOK /\ LateInv
<1> SUFFICES ASSUME Init PROVE TypeOK /\ LateInv
  OBVIOUS
<1>1. DOMAIN loaded = {} /\ matching \in BOOLEAN /\ disturbed \in BOOLEAN /\ recycled = {}
  BY DEF Init
<1>2. late = 0 /\ faults = 0 /\ others = 0 /\ mine = 0 /\ mismatched = {} /\ pc = "listing"
  BY DEF Init, NoInstance
<1>3. QED
  BY <1>1, <1>2, LoadingAssumption DEF TypeOK, LateInv, NoInstance

LEMMA TypeStep == TypeOK /\ LateInv /\ [Next]_vars => TypeOK' /\ LateInv'
<1> SUFFICES ASSUME TypeOK, LateInv, [Next]_vars PROVE TypeOK' /\ LateInv'
  OBVIOUS
<1> USE LoadingAssumption
<1> USE DEF LateInv, history
<1>0. /\ ServerType /\ late \in Nat /\ faults \in Nat /\ others \in Nat
      /\ NoInstance \notin Ids
  BY DEF TypeOK, ServerType, NoInstance, Ids
<1>1. CASE List
  <2>1. Configured \subseteq Ids
    BY DEF TypeOK, Configured
  <2>2. QED
    BY <1>1, <2>1 DEF List, TypeOK, server
<1>2. CASE Reuse \/ NeedsLoad
  BY <1>2 DEF Reuse, NeedsLoad, TypeOK, server
<1>3. ASSUME NEW i \in Ids, Load(i) PROVE TypeOK' /\ LateInv'
  <2>1. ServerType'
    BY <1>3, LoadsType DEF Load, Models
  <2>2. QED
    BY <1>0, <1>3, <2>1 DEF Load, TypeOK, ServerType
<1>4. ASSUME NEW i \in Ids, NEW context \in Contexts, LoadRefused(i, context)
      PROVE  TypeOK' /\ LateInv'
  <2>1. ServerType'
    BY <1>4, LoadsType DEF LoadRefused, Models
  <2>2. faults' = faults + 1 /\ faults' \in 0 .. MaxFaults
    BY <1>0, <1>4 DEF LoadRefused, Fault
  <2>3. \/ pc' = "undoing" /\ mine' = i /\ UNCHANGED <<matching, mismatched, disturbed>>
        \/ Restart
    BY <1>4 DEF LoadRefused
  <2>4. recycled' \subseteq Ids /\ UNCHANGED <<late, others>> /\ pc = "loading"
    BY <1>4, RestartType DEF LoadRefused, TypeOK
  <2>5. mismatched = {}
    BY <2>4 DEF TypeOK
  <2>6. /\ pc' \in {"listing", "undoing"} /\ mismatched' = {}
        /\ matching' \in BOOLEAN /\ disturbed' \in BOOLEAN
        /\ mine' \in Ids \union {NoInstance} /\ (mine' # NoInstance <=> pc' = "undoing")
    BY <1>0, <2>3, <2>5, RestartType DEF TypeOK, NoInstance
  <2>7. QED
    BY <1>0, <2>1, <2>2, <2>4, <2>6 DEF TypeOK, ServerType
<1>5. ASSUME NEW i \in Ids, UnloadMismatched(i) PROVE TypeOK' /\ LateInv'
  <2>1. ServerType'
    BY <1>5, UnloadType DEF UnloadMismatched
  <2>2. QED
    BY <1>0, <1>5, <2>1 DEF UnloadMismatched, TypeOK, ServerType
<1>6. ASSUME NEW i \in Ids, UnloadGone(i) PROVE TypeOK' /\ LateInv'
  BY <1>0, <1>6, RestartType DEF UnloadGone, TypeOK, server, NoInstance
<1>7. CASE Undo
  <2>1. ServerType'
    BY <1>7, UnloadType DEF Undo
  <2>2. QED
    BY <1>0, <1>7, <2>1, RestartType DEF Undo, TypeOK, ServerType, NoInstance
<1>8. CASE RequestFails
  <2>1. \/ UNCHANGED loaded
        \/ \E i : loaded' = Without(i)
        \/ \E i \in Ids, context \in Contexts : Loads(i, "configured", context)
    BY <1>8 DEF RequestFails, server
  <2>2. ServerType'
    BY <1>0, <2>1, LoadsType, UnloadType DEF ServerType, Models
  <2>3. late' \in Nat /\ late' <= late + 1
    BY <1>0, <1>8 DEF RequestFails, server
  <2>4. faults' = faults + 1 /\ faults' \in 0 .. MaxFaults /\ others' = others
    BY <1>0, <1>8 DEF RequestFails, Fault
  <2>5. Restart
    BY <1>8 DEF RequestFails
  <2>6. QED
    BY <1>0, <2>2, <2>3, <2>4, <2>5, RestartType DEF TypeOK, ServerType, NoInstance
<1>9. CASE Die
  BY <1>0, <1>9, RestartType DEF Die, Fault, TypeOK, server, NoInstance
<1>10. ASSUME NEW i \in Ids, NEW context \in Contexts, LateLoad(i, context)
       PROVE  TypeOK' /\ LateInv'
  <2>1. ServerType'
    BY <1>10, LoadsType DEF LateLoad, Models
  <2>2. QED
    BY <1>0, <1>10, <2>1 DEF LateLoad, TypeOK, ServerType, startup
<1>11. ASSUME NEW i \in Ids, NEW instance \in Instances, OtherLoads(i, instance)
       PROVE  TypeOK' /\ LateInv'
  <2>1. instance.model \in Models /\ instance.context \in Contexts
    BY DEF Instances
  <2>2. ServerType'
    BY <1>11, <2>1, LoadsType DEF OtherLoads
  <2>3. QED
    BY <1>0, <1>11, <2>2 DEF OtherLoads, TypeOK, ServerType, startup
<1>12. ASSUME NEW i \in DOMAIN loaded, OtherUnloads(i) PROVE TypeOK' /\ LateInv'
  <2>1. ServerType'
    BY <1>12, UnloadType DEF OtherUnloads
  <2>2. QED
    BY <1>0, <1>12, <2>1 DEF OtherUnloads, TypeOK, ServerType, startup
<1>13. CASE UNCHANGED vars
  BY <1>13 DEF vars, server, startup, TypeOK
<1>14. QED
  BY <1>1, <1>2, <1>3, <1>4, <1>5, <1>6, <1>7, <1>8, <1>9, <1>10, <1>11, <1>12, <1>13
  DEF Next

(* Every variable keeps its type, and only a startup under way has         *)
(* instances to unload.                                                    *)
THEOREM TypeCorrect == Spec => []TypeOK
<1>1. QED
  BY TypeInit, TypeStep, PTL DEF Spec
-----------------------------------------------------------------------------
(* An instance of someone else that takes an id of the list makes the id   *)
(* a recycled one; the worker itself loads only when the list is worked    *)
(* off.                                                                    *)
LEMMA MismatchedStep == TypeOK /\ MismatchedInv /\ [Next]_vars => MismatchedInv'
<1> SUFFICES ASSUME TypeOK, MismatchedInv, [Next]_vars PROVE MismatchedInv'
  OBVIOUS
<1> USE LoadingAssumption
<1> USE DEF history
<1>1. ASSUME NEW i, NEW model \in Models, NEW context \in Contexts, Loads(i, model, context),
             mismatched' = mismatched, recycled' = recycled \union {i}
      PROVE  MismatchedInv'
  <2>1. /\ DOMAIN loaded' = DOMAIN loaded \union {i}
        /\ \A j \in DOMAIN loaded : loaded'[j] = loaded[j]
    BY <1>1, LoadsFacts, Zenon
  <2>2. QED
    BY <1>1, <2>1 DEF MismatchedInv
<1>2. ASSUME NEW i, loaded' = Without(i), mismatched' \subseteq mismatched, recycled' = recycled
      PROVE  MismatchedInv'
  BY <1>2, WithoutFacts DEF MismatchedInv
<1>3. ASSUME loaded' = loaded, mismatched' \subseteq mismatched, recycled' = recycled
      PROVE  MismatchedInv'
  BY <1>3 DEF MismatchedInv
<1>4. ASSUME mismatched' = {} PROVE MismatchedInv'
  BY <1>4 DEF MismatchedInv
<1>5. ASSUME pc = "loading" PROVE mismatched = {}
  BY <1>5 DEF TypeOK
<1>6. CASE List
  BY <1>6 DEF List, MismatchedInv, Configured, Matches, server
<1>7. CASE Reuse \/ NeedsLoad \/ Die \/ Undo \/ RequestFails \/ UNCHANGED vars
  BY <1>3, <1>4, <1>7, RestartType
  DEF Reuse, NeedsLoad, Die, Undo, RequestFails, vars, server, startup
<1>8. ASSUME NEW i \in Ids, NEW context \in Contexts, Load(i) \/ LoadRefused(i, context)
      PROVE  MismatchedInv'
  BY <1>4, <1>5, <1>8, RestartType DEF Load, LoadRefused
<1>9. ASSUME NEW i \in Ids, UnloadMismatched(i) \/ UnloadGone(i) PROVE MismatchedInv'
  BY <1>2, <1>4, <1>9, RestartType DEF UnloadMismatched, UnloadGone
<1>10. ASSUME NEW i \in Ids, NEW context \in Contexts, LateLoad(i, context) PROVE MismatchedInv'
  BY <1>1, <1>10 DEF LateLoad, startup, Models
<1>11. ASSUME NEW i \in Ids, NEW instance \in Instances, OtherLoads(i, instance)
       PROVE  MismatchedInv'
  BY <1>1, <1>11 DEF OtherLoads, startup, Instances
<1>12. ASSUME NEW i \in DOMAIN loaded, OtherUnloads(i) PROVE MismatchedInv'
  BY <1>2, <1>12 DEF OtherUnloads, startup
<1>13. QED
  BY <1>6, <1>7, <1>8, <1>9, <1>10, <1>11, <1>12 DEF Next

LEMMA MineStep == TypeOK /\ TypeOK' /\ MineInv /\ [Next]_vars => MineInv'
<1> SUFFICES ASSUME TypeOK, TypeOK', MineInv, [Next]_vars PROVE MineInv'
  OBVIOUS
<1> USE LoadingAssumption
<1> USE DEF history
<1>1. ASSUME NEW i, NEW model \in Models, NEW context \in Contexts, Loads(i, model, context),
             mine' = mine, recycled' = recycled \union {i}
      PROVE  MineInv'
  <2>1. /\ DOMAIN loaded' = DOMAIN loaded \union {i}
        /\ \A j \in DOMAIN loaded : loaded'[j] = loaded[j]
    BY <1>1, LoadsFacts, Zenon
  <2>2. QED
    BY <1>1, <2>1 DEF MineInv
<1>2. ASSUME NEW i, loaded' = Without(i), mine' = mine, recycled' = recycled PROVE MineInv'
  BY <1>2, WithoutFacts DEF MineInv
<1>3. ASSUME mine' = 0 PROVE MineInv'
  <2>1. 0 \notin DOMAIN loaded'
    BY DEF TypeOK, Ids
  <2>2. QED
    BY <1>3, <2>1 DEF MineInv
<1>4. ASSUME mine = 0, mine' = mine PROVE MineInv'
  BY <1>3, <1>4
<1>5. CASE List
  BY <1>4, <1>5 DEF List, TypeOK, NoInstance
<1>6. CASE Reuse \/ NeedsLoad \/ UNCHANGED vars
  BY <1>6 DEF Reuse, NeedsLoad, vars, server, startup, MineInv
<1>7. ASSUME NEW i \in Ids, Load(i) PROVE MineInv'
  BY <1>4, <1>7 DEF Load, TypeOK, NoInstance
<1>8. ASSUME NEW i \in Ids, NEW context \in Contexts, LoadRefused(i, context) PROVE MineInv'
  <2>1. Loads(i, "configured", context)
    BY <1>8 DEF LoadRefused
  <2>2. loaded'[i] = [model |-> "configured", context |-> context]
    BY <2>1, LoadsFacts, Zenon DEF Models
  <2>3. CASE mine' = i
    BY <2>2, <2>3 DEF MineInv
  <2>4. CASE Restart
    BY <1>3, <2>4, RestartType
  <2>5. QED
    BY <1>8, <2>3, <2>4 DEF LoadRefused
<1>9. ASSUME NEW i \in Ids, UnloadMismatched(i) PROVE MineInv'
  BY <1>2, <1>9 DEF UnloadMismatched
<1>10. CASE Undo \/ RequestFails \/ Die \/ \E i \in Ids : UnloadGone(i)
  BY <1>3, <1>10, RestartType DEF Undo, RequestFails, Die, UnloadGone
<1>11. ASSUME NEW i \in Ids, NEW context \in Contexts, LateLoad(i, context) PROVE MineInv'
  BY <1>1, <1>11 DEF LateLoad, startup, Models
<1>12. ASSUME NEW i \in Ids, NEW instance \in Instances, OtherLoads(i, instance) PROVE MineInv'
  BY <1>1, <1>12 DEF OtherLoads, startup, Instances
<1>13. ASSUME NEW i \in DOMAIN loaded, OtherUnloads(i) PROVE MineInv'
  BY <1>2, <1>13 DEF OtherUnloads, startup
<1>14. QED
  BY <1>5, <1>6, <1>7, <1>8, <1>9, <1>10, <1>11, <1>12, <1>13 DEF Next

(* The list stays true while the worker acts alone: it takes a mismatched  *)
(* instance off both, and loads only when there is none.                   *)
LEMMA ListStep ==
  TypeOK /\ ListInv /\ ReadyMeansLoaded /\ [Next]_vars => ListInv' /\ ReadyMeansLoaded'
<1> SUFFICES ASSUME TypeOK, ListInv, ReadyMeansLoaded, [Next]_vars
             PROVE  ListInv' /\ ReadyMeansLoaded'
  OBVIOUS
<1> USE DEF history
<1>1. ASSUME pc' \in {"listing", "undoing"} \/ disturbed' PROVE ListInv' /\ ReadyMeansLoaded'
  BY <1>1 DEF ListInv, ReadyMeansLoaded
<1>2. CASE List
  BY <1>2 DEF List, ListInv, ReadyMeansLoaded, Configured, Matches, server
<1>3. ASSUME NEW i \in Ids, UnloadMismatched(i) PROVE ListInv' /\ ReadyMeansLoaded'
  <2> SUFFICES ASSUME ~ disturbed PROVE ListInv'
    BY <1>3 DEF UnloadMismatched, ListInv, ReadyMeansLoaded
  <2>1. /\ mismatched = {j \in Configured : ~ Matches(j)}
        /\ matching <=> \E j \in Configured : Matches(j)
    BY <1>3 DEF ListInv, UnloadMismatched
  <2>2. Configured' = Configured \ {i}
    BY <1>3, WithoutFacts DEF UnloadMismatched, Configured
  <2>3. \A j \in Configured' : Matches(j)' <=> Matches(j)
    BY <1>3, WithoutFacts DEF UnloadMismatched, Configured, Matches
  <2>4. mismatched' = {j \in Configured' : ~ Matches(j)'}
    BY <1>3, <2>1, <2>2, <2>3 DEF UnloadMismatched
  <2>5. matching' <=> \E j \in Configured' : Matches(j)'
    BY <1>3, <2>1, <2>2, <2>3 DEF UnloadMismatched
  <2>6. QED
    BY <1>3, <2>4, <2>5 DEF ListInv, UnloadMismatched
<1>4. CASE Reuse
  <2>1. ASSUME ~ disturbed PROVE {loaded[i].context : i \in Configured} = {Wanted}
    BY <1>4, <2>1 DEF Reuse, ListInv, Matches
  <2>2. QED
    BY <1>4, <2>1 DEF Reuse, ListInv, ReadyMeansLoaded, Configured, server
<1>5. CASE NeedsLoad
  <2>1. ASSUME ~ disturbed PROVE Configured = {}
    BY <1>5, <2>1 DEF NeedsLoad, ListInv
  <2>2. QED
    BY <1>5, <2>1 DEF NeedsLoad, ListInv, ReadyMeansLoaded, Configured, server
<1>6. ASSUME NEW i \in Ids, Load(i) PROVE ListInv' /\ ReadyMeansLoaded'
  <2> SUFFICES ASSUME ~ disturbed PROVE {loaded[j].context : j \in Configured}' = {Wanted}
    BY <1>6 DEF Load, ListInv, ReadyMeansLoaded
  <2>1. Configured = {}
    BY <1>6 DEF Load, ListInv
  <2>2. /\ DOMAIN loaded' = DOMAIN loaded \union {i}
        /\ loaded'[i] = [model |-> "configured", context |-> Wanted]
        /\ \A j \in DOMAIN loaded : loaded'[j] = loaded[j]
    BY <1>6, LoadsFacts, LoadingAssumption DEF Load, Models
  <2>3. Configured' = {i}
    BY <2>1, <2>2 DEF Configured
  <2>4. QED
    BY <2>2, <2>3
<1>7. CASE Undo \/ Die \/ RequestFails
  BY <1>1, <1>7, RestartType DEF Undo, Die, RequestFails
<1>8. ASSUME NEW i \in Ids, UnloadGone(i) PROVE ListInv' /\ ReadyMeansLoaded'
  BY <1>1, <1>8, RestartType DEF UnloadGone
<1>9. ASSUME NEW i \in Ids, NEW context \in Contexts, LoadRefused(i, context)
      PROVE  ListInv' /\ ReadyMeansLoaded'
  BY <1>1, <1>9, RestartType DEF LoadRefused
<1>10. CASE \/ \E i \in Ids, context \in Contexts : LateLoad(i, context)
            \/ \E i \in Ids, instance \in Instances : OtherLoads(i, instance)
            \/ \E i \in DOMAIN loaded : OtherUnloads(i)
  BY <1>1, <1>10 DEF LateLoad, OtherLoads, OtherUnloads
<1>11. CASE UNCHANGED vars
  BY <1>11 DEF vars, server, startup, ListInv, ReadyMeansLoaded, Configured, Matches
<1>12. QED
  BY <1>2, <1>3, <1>4, <1>5, <1>6, <1>7, <1>8, <1>9, <1>10, <1>11 DEF Next

LEMMA IInvInit == Init => IInv
<1>1. Init => MismatchedInv /\ MineInv /\ ListInv /\ ReadyMeansLoaded
  BY DEF Init, MismatchedInv, MineInv, ListInv, ReadyMeansLoaded
<1>2. QED
  BY <1>1, TypeInit DEF IInv

LEMMA IInvStep == IInv /\ [Next]_vars => IInv'
BY TypeStep, MismatchedStep, MineStep, ListStep DEF IInv

LEMMA IInvAlways == Spec => []IInv
BY IInvInit, IInvStep, PTL DEF Spec

(* A worker that starts its work while nobody else acts has its model      *)
(* loaded with the context length it asks for, and with no other.          *)
THEOREM LoadedWhenReady == Spec => []ReadyMeansLoaded
<1>1. IInv => ReadyMeansLoaded
  BY DEF IInv
<1>2. QED
  BY <1>1, IInvAlways, PTL

(* The worker unloads no instance of another model, and of its own only    *)
(* those it cannot use, whatever others do meanwhile, as long as the ids   *)
(* it has learnt are not given to others' instances.                       *)
THEOREM OthersLeftAlone == Spec => OthersUntouched
<1> DEFINE A == \A i \in DOMAIN loaded \ recycled : i \notin DOMAIN loaded' =>
                  \/ others' = others + 1
                  \/ /\ loaded[i].model = "configured"
                     /\ loaded[i].context # Wanted \/ i = mine
<1>1. IInv /\ [Next]_vars => [A]_vars
  <2> SUFFICES ASSUME IInv, Next, NEW i \in DOMAIN loaded \ recycled, i \notin DOMAIN loaded',
                      others' # others + 1
               PROVE  /\ loaded[i].model = "configured"
                      /\ loaded[i].context # Wanted \/ i = mine
    OBVIOUS
  <2>0. TypeOK /\ MismatchedInv /\ MineInv
    BY DEF IInv
  <2>1. ASSUME NEW k, NEW model \in Models, NEW context \in Contexts, Loads(k, model, context)
        PROVE  FALSE
    BY <2>1, LoadsFacts, Zenon
  <2>2. ASSUME NEW j, loaded' = Without(j) PROVE i = j
    BY <2>2, WithoutFacts
  <2>3. ASSUME i \in mismatched
        PROVE  loaded[i].model = "configured" /\ loaded[i].context # Wanted
    BY <2>0, <2>3 DEF MismatchedInv
  <2>4. i = mine => loaded[i].model = "configured"
    BY <2>0 DEF MineInv
  <2>5. ASSUME NEW k \in Ids, NEW context \in Contexts,
               Load(k) \/ LoadRefused(k, context) \/ LateLoad(k, context)
        PROVE  FALSE
    BY <2>1, <2>5, LoadingAssumption DEF Load, LoadRefused, LateLoad, Models
  <2>6. ASSUME NEW k \in Ids, NEW instance \in Instances, OtherLoads(k, instance) PROVE FALSE
    BY <2>1, <2>6 DEF OtherLoads, Instances
  <2>7. CASE RequestFails
    <3>1. \/ \E j \in mismatched : loaded' = Without(j)
          \/ loaded' = Without(mine)
      BY <2>1, <2>7 DEF RequestFails, server, Models
    <3>2. QED
      BY <2>2, <2>3, <2>4, <3>1
  <2>8. CASE Undo \/ \E j \in Ids : UnloadMismatched(j)
    BY <2>2, <2>3, <2>4, <2>8 DEF Undo, UnloadMismatched
  <2>9. QED
    BY <2>5, <2>6, <2>7, <2>8, LoadingAssumption
    DEF Next, List, Reuse, NeedsLoad, Die, UnloadGone, OtherUnloads, server
<1>2. QED
  BY <1>1, IInvAlways, PTL DEF Spec, OthersUntouched

-----------------------------------------------------------------------------
(* How many instances of its model the worker may have loaded.             *)

(* Where a load is decided on, or may still be, all instances of the model *)
(* that the worker does not take away are others'.                         *)
AloneInv ==
  /\ OneInstance
  /\ pc = "loading" => Cardinality(Configured) <= others
  /\ pc = "unloading" /\ ~ matching => Cardinality(Configured \ mismatched) <= others

LEMMA OneMore ==
  ASSUME NEW S, IsFiniteSet(S), NEW x, NEW T, T \subseteq S \union {x}
  PROVE  IsFiniteSet(T) /\ Cardinality(T) \in Nat /\ Cardinality(S) \in Nat
         /\ Cardinality(T) <= Cardinality(S) + 1
<1>1. IsFiniteSet(S \union {x}) /\ Cardinality(S \union {x}) <= Cardinality(S) + 1
      /\ Cardinality(S) \in Nat /\ Cardinality(S \union {x}) \in Nat
  BY FS_AddElement, FS_CardinalityType
<1>2. IsFiniteSet(T) /\ Cardinality(T) <= Cardinality(S \union {x}) /\ Cardinality(T) \in Nat
  BY <1>1, FS_Subset, FS_CardinalityType
<1>3. QED
  BY <1>1, <1>2

LEMMA Fewer ==
  ASSUME NEW S, IsFiniteSet(S), NEW T, T \subseteq S
  PROVE  IsFiniteSet(T) /\ Cardinality(T) \in Nat /\ Cardinality(S) \in Nat
         /\ Cardinality(T) <= Cardinality(S)
BY FS_Subset, FS_CardinalityType

LEMMA ConfiguredFinite ==
  ASSUME TypeOK
  PROVE  /\ IsFiniteSet(Configured) /\ Cardinality(Configured) \in Nat
         /\ IsFiniteSet(Configured \ mismatched) /\ Cardinality(Configured \ mismatched) \in Nat
<1>1. IsFiniteSet(Ids)
  BY FS_Interval, LoadingAssumption DEF Ids
<1>2. Configured \subseteq Ids /\ Configured \ mismatched \subseteq Ids
  BY DEF TypeOK, Configured
<1>3. QED
  BY <1>1, <1>2, FS_Subset, FS_CardinalityType

(* The server's two operations, seen from the model's own instances.       *)
LEMMA LoadAddsOne ==
  ASSUME TypeOK, NEW i, NEW model \in Models, NEW context \in Contexts,
         Loads(i, model, context)
  PROVE  /\ Cardinality(Configured') \in Nat
         /\ Cardinality(Configured') <= Cardinality(Configured) + 1
         /\ Cardinality(Configured' \ mismatched) \in Nat
         /\ Cardinality(Configured' \ mismatched) <= Cardinality(Configured \ mismatched) + 1
<1>1. /\ DOMAIN loaded' = DOMAIN loaded \union {i}
      /\ \A j \in DOMAIN loaded : loaded'[j] = loaded[j]
  BY LoadsFacts, Zenon
<1>2. Configured' \subseteq Configured \union {i}
  BY <1>1 DEF Configured
<1>3. Configured' \ mismatched \subseteq (Configured \ mismatched) \union {i}
  BY <1>2
<1>4. QED
  BY <1>2, <1>3, ConfiguredFinite, OneMore

LEMMA UnloadAddsNone ==
  ASSUME TypeOK, NEW i, loaded' = Without(i)
  PROVE  /\ Configured' = Configured \ {i}
         /\ Cardinality(Configured') \in Nat
         /\ Cardinality(Configured') <= Cardinality(Configured)
         /\ Cardinality(Configured' \ mismatched) \in Nat
         /\ Cardinality(Configured' \ mismatched) <= Cardinality(Configured \ mismatched)
<1>1. Configured' = Configured \ {i}
  BY WithoutFacts DEF Configured
<1>2. Configured' \subseteq Configured /\ Configured' \ mismatched \subseteq Configured \ mismatched
  BY <1>1
<1>3. QED
  BY <1>1, <1>2, ConfiguredFinite, Fewer

LEMMA AloneStep == TypeOK /\ AloneInv /\ late = 0 /\ [Next]_vars => AloneInv'
<1> SUFFICES ASSUME TypeOK, AloneInv, late = 0, [Next]_vars PROVE AloneInv'
  OBVIOUS
<1>0. /\ others \in Nat /\ Cardinality(Configured) \in Nat
      /\ Cardinality(Configured) <= 1 + others
      /\ Cardinality(Configured \ mismatched) \in Nat
  BY ConfiguredFinite DEF TypeOK, AloneInv, OneInstance
<1>1. ASSUME Cardinality(Configured') \in Nat, Cardinality(Configured') <= Cardinality(Configured),
             others' = others, pc' \in {"listing", "undoing", "ready"}
      PROVE  AloneInv'
  BY <1>0, <1>1 DEF AloneInv, OneInstance
<1>2. ASSUME loaded' = loaded PROVE Configured' = Configured
  BY <1>2 DEF Configured
<1>3. CASE List
  <2>1. /\ Configured' = Configured /\ others' = others /\ pc' = "unloading"
        /\ matching' = \E i \in Configured : Matches(i)
        /\ mismatched' = {i \in Configured : ~ Matches(i)}
    BY <1>2, <1>3 DEF List, server
  <2>2. ~ matching' => Configured' \ mismatched' = {}
    BY <2>1
  <2>3. Cardinality({}) = 0
    BY FS_EmptySet
  <2>4. QED
    BY <1>0, <2>1, <2>2, <2>3 DEF AloneInv, OneInstance
<1>4. ASSUME NEW i \in Ids, UnloadMismatched(i) PROVE AloneInv'
  <2>1. /\ loaded' = Without(i) /\ i \in mismatched /\ mismatched' = mismatched \ {i}
        /\ UNCHANGED <<pc, matching, others>> /\ pc = "unloading"
    BY <1>4 DEF UnloadMismatched
  <2>2. Configured' = Configured \ {i} /\ Cardinality(Configured') \in Nat
        /\ Cardinality(Configured') <= Cardinality(Configured)
    BY <2>1, UnloadAddsNone
  <2>3. Configured' \ mismatched' = Configured \ mismatched
    BY <2>1, <2>2
  <2>4. QED
    BY <1>0, <2>1, <2>2, <2>3 DEF AloneInv, OneInstance
<1>5. CASE Reuse
  BY <1>0, <1>1, <1>2, <1>5 DEF Reuse, server
<1>6. CASE NeedsLoad
  <2>1. /\ Configured' = Configured /\ others' = others /\ pc' = "loading"
        /\ pc = "unloading" /\ mismatched = {} /\ ~ matching
    BY <1>2, <1>6 DEF NeedsLoad, server
  <2>2. Configured \ mismatched = Configured
    BY <2>1
  <2>3. QED
    BY <1>0, <2>1, <2>2 DEF AloneInv, OneInstance
<1>7. ASSUME NEW i, NEW context \in Contexts, Loads(i, "configured", context), pc = "loading",
             pc' \in {"listing", "undoing", "ready"}, others' = others
      PROVE  AloneInv'
  <2>1. Cardinality(Configured') \in Nat /\ Cardinality(Configured') <= Cardinality(Configured) + 1
    BY <1>7, LoadAddsOne DEF Models
  <2>2. Cardinality(Configured) <= others
    BY <1>7 DEF AloneInv
  <2>3. QED
    BY <1>0, <1>7, <2>1, <2>2 DEF AloneInv, OneInstance
<1>8. ASSUME NEW i \in Ids, Load(i) PROVE AloneInv'
  BY <1>7, <1>8, LoadingAssumption DEF Load
<1>9. ASSUME NEW i \in Ids, NEW context \in Contexts, LoadRefused(i, context) PROVE AloneInv'
  BY <1>7, <1>9, RestartType DEF LoadRefused
<1>10. ASSUME NEW i, loaded' = Without(i), others' = others, pc' = "listing" PROVE AloneInv'
  <2>1. Cardinality(Configured') \in Nat /\ Cardinality(Configured') <= Cardinality(Configured)
    BY <1>10, UnloadAddsNone
  <2>2. QED
    BY <1>1, <1>10, <2>1
<1>11. CASE RequestFails
  <2>1. pc' = "listing" /\ others' = others
    BY <1>11, RestartType DEF RequestFails
  <2>2. CASE loaded' = loaded
    BY <1>0, <1>1, <1>2, <2>1, <2>2
  <2>3. CASE \E i : loaded' = Without(i)
    BY <1>10, <2>1, <2>3
  <2>4. CASE /\ pc = "loading"
             /\ \E i \in Ids, context \in Contexts : Loads(i, "configured", context)
    BY <1>7, <2>1, <2>4
  <2>5. QED
    BY <1>11, <2>2, <2>3, <2>4 DEF RequestFails, server
<1>12. CASE Die \/ \E i \in Ids : UnloadGone(i)
  <2>1. loaded' = loaded /\ others' = others /\ pc' = "listing"
    BY <1>12, RestartType DEF Die, UnloadGone, server
  <2>2. Configured' = Configured
    BY <1>2, <2>1
  <2>3. QED
    BY <1>0, <1>1, <2>1, <2>2
<1>13. ASSUME UNCHANGED startup, others' = others + 1,
              Cardinality(Configured') \in Nat, Cardinality(Configured' \ mismatched) \in Nat,
              Cardinality(Configured') <= Cardinality(Configured) + 1,
              Cardinality(Configured' \ mismatched) <= Cardinality(Configured \ mismatched) + 1
       PROVE  AloneInv'
  BY <1>0, <1>13 DEF AloneInv, OneInstance, startup
<1>14. ASSUME NEW i \in Ids, NEW instance \in Instances, OtherLoads(i, instance) PROVE AloneInv'
  <2>1. instance.model \in Models /\ instance.context \in Contexts
    BY DEF Instances
  <2>2. QED
    BY <1>13, <1>14, <2>1, LoadAddsOne DEF OtherLoads
<1>15. ASSUME NEW i \in DOMAIN loaded, OtherUnloads(i) PROVE AloneInv'
  <2>1. /\ loaded' = Without(i) /\ UNCHANGED startup /\ others' = others + 1
    BY <1>15 DEF OtherUnloads
  <2>2. /\ Cardinality(Configured') \in Nat /\ Cardinality(Configured' \ mismatched) \in Nat
        /\ Cardinality(Configured') <= Cardinality(Configured)
        /\ Cardinality(Configured' \ mismatched) <= Cardinality(Configured \ mismatched)
    BY <2>1, UnloadAddsNone
  <2>3. /\ Cardinality(Configured') <= Cardinality(Configured) + 1
        /\ Cardinality(Configured' \ mismatched) <= Cardinality(Configured \ mismatched) + 1
    BY <1>0, <2>2
  <2>4. QED
    BY <1>13, <2>1, <2>2, <2>3
<1>16. ASSUME NEW i \in Ids, NEW context \in Contexts, LateLoad(i, context) PROVE AloneInv'
  BY <1>16 DEF LateLoad
<1>17. CASE UNCHANGED vars
  <2>1. Configured' = Configured /\ UNCHANGED <<pc, matching, mismatched, others>>
    BY <1>2, <1>17 DEF vars, server, startup
  <2>2. QED
    BY <2>1 DEF AloneInv, OneInstance
<1>18. CASE Undo
  BY <1>10, <1>18, RestartType DEF Undo
<1>19. QED
  BY <1>3, <1>4, <1>5, <1>6, <1>8, <1>9, <1>11, <1>12, <1>14, <1>15, <1>16, <1>17, <1>18 DEF Next

(* However often ensure_model_loaded fails, is killed and begins again, it *)
(* does not load its model a second time, unless a load it has given up    *)
(* comes late.                                                             *)
THEOREM NoSecondInstance == Spec => OneInstanceUnlessLate
<1>1. Init => AloneInv
  <2> SUFFICES ASSUME Init PROVE AloneInv
    OBVIOUS
  <2>1. Configured = {} /\ others = 0 /\ pc = "listing"
    BY DEF Init, Configured
  <2>2. Cardinality({}) = 0
    BY FS_EmptySet
  <2>3. QED
    BY <2>1, <2>2 DEF AloneInv, OneInstance
<1>2. AloneInv => OneInstance
  BY DEF AloneInv
<1>3. QED
  BY <1>1, <1>2, AloneStep, TypeCorrect, PTL DEF Spec, OneInstanceUnlessLate
=============================================================================
