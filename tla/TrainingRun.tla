---------------------------- MODULE TrainingRun ----------------------------
(***************************************************************************)
(* What checkpoints promise a training run: it trains on the batches in    *)
(* their order, a checkpoint takes effect at once and as a whole, and a    *)
(* run that is killed continues from the last one.  Files, ranks, the      *)
(* rotation and the tracker are in modules CheckpointManager and           *)
(* RayTrainer, which implement this one.                                   *)
(***************************************************************************)
EXTENDS Naturals, Sequences

VARIABLES trained,  \* the batches the weights were trained on
          kept,     \* the same of the last checkpoint
          skips     \* the run reads a batch ahead and loses it when it restarts

run == <<trained, kept, skips>>

Last(s) == IF s = << >> THEN 0 ELSE s[Len(s)]

RunInit == trained = << >> /\ kept = << >> /\ skips \in BOOLEAN

(* The batch behind the last one; only a prefetching run skips the one it  *)
(* had read ahead at its checkpoint.                                       *)
Train == /\ \E ahead \in IF skips THEN {1, 2} ELSE {1} :
              trained' = Append(trained, Last(trained) + ahead)
         /\ UNCHANGED <<kept, skips>>

Checkpoint == /\ kept' = trained
              /\ UNCHANGED <<trained, skips>>

Restart == /\ trained' = kept
           /\ UNCHANGED <<kept, skips>>

RunNext == Train \/ Checkpoint \/ Restart

RunSpec == RunInit /\ [][RunNext]_run
=============================================================================
