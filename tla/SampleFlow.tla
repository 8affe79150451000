------------------------------ MODULE SampleFlow ------------------------------
(***************************************************************************)
(* The life of a sample as a user of fully_async_policy sees it, without   *)
(* any coroutine, lock or synchronisation: read in order, generated,       *)
(* queued, fetched into a batch, trained on once.  A full queue may push a *)
(* sample out, and the batch that is incomplete when the end marker is     *)
(* fetched is discarded.  Module FullyAsync implements this one.           *)
(***************************************************************************)
EXTENDS Naturals, FiniteSets

CONSTANTS Total,     \* samples to generate
          Required,  \* samples of a training step
          MaxQueue   \* capacity of the queue

VARIABLES stage,     \* where each sample is in its life
          marker     \* the end marker is in the queue

flowVars == <<stage, marker>>

Stages == {"data", "rollout", "queued", "batched", "trained",
           "dropped", "discarded"}
Samples == 1 .. Total
In(st) == {s \in Samples : stage[s] = st}
Occupied == Cardinality(In("queued")) + (IF marker THEN 1 ELSE 0)

Move(S, st) == [s \in Samples |-> IF s \in S THEN st ELSE stage[s]]

-----------------------------------------------------------------------------

FlowInit == stage = [s \in Samples |-> "data"] /\ marker = FALSE

(* Prompts are taken in the order of the data.                             *)
TakePrompt == \E s \in In("data") :
  /\ \A t \in In("data") : s <= t
  /\ stage' = Move({s}, "rollout")
  /\ UNCHANGED marker

(* One sample leaves a full queue to make room.                            *)
Pushed(E) == /\ E \subseteq In("queued")
             /\ Cardinality(E) <= 1
             /\ E # {} => Occupied >= MaxQueue
             /\ Occupied - Cardinality(E) < MaxQueue

Deliver == \E s \in In("rollout"), E \in SUBSET In("queued") :
  /\ Pushed(E)
  /\ stage' = [t \in Samples |-> CASE t = s -> "queued"
                                   [] t \in E -> "dropped"
                                   [] OTHER -> stage[t]]
  /\ UNCHANGED marker

DeliverMarker == \E E \in SUBSET In("queued") :
  /\ Pushed(E)
  /\ stage' = Move(E, "dropped")
  /\ marker' = TRUE

Fetch == \E s \in In("queued") :
  /\ Cardinality(In("batched")) < Required
  /\ stage' = Move({s}, "batched")
  /\ UNCHANGED marker

FlowTrain == /\ Cardinality(In("batched")) = Required
             /\ stage' = Move(In("batched"), "trained")
             /\ UNCHANGED marker

FetchMarker == /\ marker
               /\ Cardinality(In("batched")) < Required
               /\ stage' = Move(In("batched"), "discarded")
               /\ marker' = FALSE

FlowNext == \/ TakePrompt \/ Deliver \/ DeliverMarker
            \/ Fetch \/ FlowTrain \/ FetchMarker

FlowSpec == FlowInit /\ [][FlowNext]_flowVars
=============================================================================
