---------------------------- MODULE ModelLoading ----------------------------
(***************************************************************************)
(* What app-worker does on startup to have LM_STUDIO_MODEL loaded with     *)
(* LM_STUDIO_CONTEXT_LENGTH: it lists the models of the LM Studio server,  *)
(* unloads the instances of its model that have another context length,    *)
(* and loads the model if no instance fits.  An exception anywhere ends    *)
(* the process, and docker starts it again.                                *)
(*                                                                         *)
(* The server is shared: its owner loads and unloads what she likes, an    *)
(* answer may be lost after the server did what it was asked, and a load   *)
(* whose request has timed out may end later.  The id of an instance that  *)
(* is gone may be given to the next one: the tests' server answers with    *)
(* the key of the model as instance_id.                                    *)
(***************************************************************************)
EXTENDS Integers, FiniteSets

CONSTANTS Contexts,   \* context lengths a model can be loaded with
          Wanted,     \* LM_STUDIO_CONTEXT_LENGTH
          MaxIds,     \* bound: ids of instances, so instances at a time
          MaxFaults,  \* bound: failing requests, wrong loads, deaths
          MaxOthers   \* bound: loads and unloads by others

Ids == 1 .. MaxIds
Models == {"configured", "other"}
Instances == [model : Models, context : Contexts]

ASSUME LoadingAssumption ==
  /\ Wanted \in Contexts
  /\ MaxIds \in Nat /\ MaxFaults \in Nat /\ MaxOthers \in Nat

VARIABLES
  loaded,     \* the server: instance id -> model and context length
  late,       \* the server: loads in progress whose request is given up
  pc,         \* "listing", "unloading", "loading", "undoing" or "ready"
  matching,   \* the list showed an instance that fits
  mismatched, \* ids still to unload
  mine,       \* the instance of a refused load, to be unloaded
  disturbed,  \* history variable: someone else acted since the list was read
  recycled,   \* history variable: ids that came to others' or late loads since
              \* the worker learnt them
  faults, others

server == <<loaded, late>>
startup == <<pc, matching, mismatched, mine>>
history == <<disturbed, recycled>>
vars == <<server, startup, history, faults, others>>

NoInstance == 0

Init ==
  /\ loaded = [i \in {} |-> Wanted]
  /\ late = 0
  /\ pc = "listing"
  /\ matching = FALSE /\ mismatched = {} /\ mine = NoInstance
  /\ disturbed = FALSE /\ recycled = {}
  /\ faults = 0 /\ others = 0

-----------------------------------------------------------------------------
\* _instance_matches_context
Matches(i) == loaded[i].context = Wanted

Configured == {i \in DOMAIN loaded : loaded[i].model = "configured"}

Without(i) == [j \in DOMAIN loaded \ {i} |-> loaded[j]]

With(i, model, context) ==
  [j \in DOMAIN loaded \union {i} |->
     IF j = i THEN [model |-> model, context |-> context] ELSE loaded[j]]

\* The server gives the new instance an id no other instance has now.
Loads(i, model, context) ==
  /\ i \in Ids \ DOMAIN loaded
  /\ loaded' = With(i, model, context)

\* Mutant: the instance of a refused load is remembered.
RestartKeeping ==
  /\ pc' = "listing"
  /\ matching' = FALSE /\ mismatched' = {}
  /\ UNCHANGED <<mine, history>>

\* The process ends with an exception, or is killed, and begins anew.
Restart ==
  /\ pc' = "listing"
  /\ matching' = FALSE /\ mismatched' = {} /\ mine' = NoInstance
  /\ UNCHANGED history

Fault == faults < MaxFaults /\ faults' = faults + 1

-----------------------------------------------------------------------------
(* ensure_model_loaded *)

\* Mutant: any instance of the model will do.
ListAny ==
  /\ pc = "listing"
  /\ matching' = (Configured # {})
  /\ mismatched' = {i \in Configured : ~ Matches(i)}
  /\ pc' = "unloading"
  /\ disturbed' = FALSE /\ recycled' = {}
  /\ UNCHANGED <<server, mine, faults, others>>

\* Mutant: makes room by unloading the other models too.
ListEverything ==
  /\ pc = "listing"
  /\ matching' = \E i \in Configured : Matches(i)
  /\ mismatched' = {i \in DOMAIN loaded : ~ Matches(i)}
  /\ pc' = "unloading"
  /\ disturbed' = FALSE /\ recycled' = {}
  /\ UNCHANGED <<server, mine, faults, others>>

List ==
  /\ pc = "listing"
  /\ matching' = \E i \in Configured : Matches(i)
  /\ mismatched' = {i \in Configured : ~ Matches(i)}
  /\ pc' = "unloading"
  /\ disturbed' = FALSE /\ recycled' = {}
  /\ UNCHANGED <<server, mine, faults, others>>

UnloadMismatched(i) ==
  /\ pc = "unloading"
  /\ i \in mismatched \intersect DOMAIN loaded
  /\ loaded' = Without(i)
  /\ mismatched' = mismatched \ {i}
  /\ UNCHANGED <<late, pc, matching, mine, history, faults, others>>

\* Someone else has unloaded it: the server answers with an error.
UnloadGone(i) ==
  /\ pc = "unloading"
  /\ i \in mismatched \ DOMAIN loaded
  /\ Restart
  /\ UNCHANGED <<server, faults, others>>

Reuse ==
  /\ pc = "unloading" /\ mismatched = {} /\ matching
  /\ pc' = "ready"
  /\ UNCHANGED <<server, matching, mismatched, mine, history, faults, others>>

\* Mutant: waits until nothing else is loaded.
NeedsLoadAlone ==
  /\ pc = "unloading" /\ mismatched = {} /\ ~ matching
  /\ DOMAIN loaded = {}
  /\ pc' = "loading"
  /\ UNCHANGED <<server, matching, mismatched, mine, history, faults, others>>

NeedsLoad ==
  /\ pc = "unloading" /\ mismatched = {} /\ ~ matching
  /\ pc' = "loading"
  /\ UNCHANGED <<server, matching, mismatched, mine, history, faults, others>>

\* load_model, and the server confirms the load and the context length.
Load(i) ==
  /\ pc = "loading"
  /\ Loads(i, "configured", Wanted)
  /\ pc' = "ready"
  /\ UNCHANGED <<late, matching, mismatched, mine, history, faults, others>>

(* The server loads with another context length and says so, or does not   *)
(* confirm the load: _validate_model_load_response raises.  An answer that *)
(* does not name the instance leaves it loaded.                            *)
LoadRefused(i, context) ==
  /\ pc = "loading"
  /\ Fault
  /\ Loads(i, "configured", context)
  /\ \/ /\ pc' = "undoing" /\ mine' = i
        /\ recycled' = recycled \ {i}
        /\ UNCHANGED <<matching, mismatched, disturbed>>
     \/ Restart
  /\ UNCHANGED <<late, others>>

\* The instance of the refused load is unloaded, then the exception goes on.
Undo ==
  /\ pc = "undoing"
  /\ loaded' = Without(mine)
  /\ Restart
  /\ UNCHANGED <<late, faults, others>>

(* A request fails; the server may have done what it asked, or, for a      *)
(* load, may do it later.  A list without the model ends the same way.     *)
RequestFails ==
  /\ pc # "ready"
  /\ Fault
  /\ Restart
  /\ \/ UNCHANGED server
     \/ /\ \/ pc = "unloading" /\ \E i \in mismatched : loaded' = Without(i)
           \/ pc = "undoing" /\ loaded' = Without(mine)
           \/ /\ pc = "loading"
              /\ \E i \in Ids, context \in Contexts : Loads(i, "configured", context)
        /\ UNCHANGED late
     \/ pc = "loading" /\ late' = late + 1 /\ UNCHANGED loaded
  /\ UNCHANGED others

\* The process is stopped, or dies in its later work.
Die ==
  /\ Fault
  /\ Restart
  /\ UNCHANGED <<server, others>>

-----------------------------------------------------------------------------
(* Everyone else *)

LateLoad(i, context) ==
  /\ late > 0
  /\ late' = late - 1
  /\ Loads(i, "configured", context)
  /\ disturbed' = TRUE /\ recycled' = recycled \union {i}
  /\ UNCHANGED <<startup, faults, others>>

OtherLoads(i, instance) ==
  /\ others < MaxOthers
  /\ others' = others + 1
  /\ Loads(i, instance.model, instance.context)
  /\ disturbed' = TRUE /\ recycled' = recycled \union {i}
  /\ UNCHANGED <<late, startup, faults>>

OtherUnloads(i) ==
  /\ others < MaxOthers
  /\ others' = others + 1
  /\ loaded' = Without(i)
  /\ disturbed' = TRUE
  /\ UNCHANGED <<late, startup, recycled, faults>>

Next ==
  \/ List \/ Reuse \/ NeedsLoad \/ Undo \/ RequestFails \/ Die
  \/ \E i \in Ids : UnloadMismatched(i) \/ UnloadGone(i) \/ Load(i)
  \/ \E i \in Ids, context \in Contexts : LoadRefused(i, context) \/ LateLoad(i, context)
  \/ \E i \in Ids, instance \in Instances : OtherLoads(i, instance)
  \/ \E i \in DOMAIN loaded : OtherUnloads(i)

Spec == Init /\ [][Next]_vars

(* The code runs to its end, docker restarts the process, and requests     *)
(* are answered (failures are bounded).  The owner of the server and late  *)
(* loads need not act.                                                     *)
FairSpec ==
  /\ Spec
  /\ WF_vars(List) /\ WF_vars(Reuse) /\ WF_vars(NeedsLoad)
  /\ WF_vars(\E i \in Ids : Load(i)) /\ WF_vars(Undo)
  /\ \A i \in Ids : WF_vars(UnloadMismatched(i)) /\ WF_vars(UnloadGone(i))

-----------------------------------------------------------------------------
(* Properties *)

\* Every variable has its type, and only a startup under way has things to do.
TypeOK ==
  /\ DOMAIN loaded \subseteq Ids
  /\ \A i \in DOMAIN loaded : loaded[i] \in Instances
  /\ late \in 0 .. MaxFaults
  /\ pc \in {"listing", "unloading", "loading", "undoing", "ready"}
  /\ matching \in BOOLEAN /\ disturbed \in BOOLEAN
  /\ mismatched \subseteq Ids /\ recycled \subseteq Ids
  /\ mismatched # {} => pc = "unloading"
  /\ mine \in Ids \union {NoInstance} /\ (mine # NoInstance <=> pc = "undoing")
  /\ faults \in 0 .. MaxFaults /\ others \in 0 .. MaxOthers

(* When the worker begins its work, and no one else touched the server     *)
(* since it read the list, its model is loaded with the context length it  *)
(* asks for, and with no other.                                            *)
ReadyMeansLoaded ==
  pc = "ready" /\ ~ disturbed =>
    {loaded[i].context : i \in Configured} = {Wanted}

(* Restarts do not pile up copies of the model: whatever answers are lost, *)
(* loads refused and processes killed, the worker has one instance of it   *)
(* at most, apart from those that others loaded or that a load given up as *)
(* failed brings later.                                                    *)
OneInstance == Cardinality(Configured) <= 1 + others
OneInstanceUnlessLate == [](late = 0) => []OneInstance

(* The worker unloads no other model, and no instance it could reuse but   *)
(* one whose load it took for failed, unless the id it has learnt was      *)
(* given to another instance since then: it unloads by id, from a list     *)
(* that may be old.                                                        *)
OthersUntouched ==
  [][\A i \in DOMAIN loaded \ recycled : i \notin DOMAIN loaded' =>
       \/ others' = others + 1
       \/ /\ loaded[i].model = "configured"
          /\ loaded[i].context # Wanted \/ i = mine]_vars

(* Not so: what the list did not show is not unloaded either.  An instance *)
(* that fits, or one of another model, under an id of the list goes.       *)
FittingKept ==
  [][\A i \in DOMAIN loaded : i \notin DOMAIN loaded' =>
       \/ others' = others + 1
       \/ /\ loaded[i].model = "configured"
          /\ loaded[i].context # Wanted \/ i = mine]_vars

\* The worker gets to work, whatever happened before.
ReadyInTheEnd == <>[](pc = "ready")

=============================================================================
