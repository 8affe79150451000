----------------------------- MODULE RayTrainer -----------------------------
(***************************************************************************)
(* The driver of a training run that saves and resumes: fit(),             *)
(* _save_checkpoint and _load_checkpoint of RayPPOTrainer                  *)
(* (trainer/ppo/ray_trainer.py) and of OneStepOffRayTrainer                *)
(* (recipe/one_step_off_policy/ray_trainer.py), which generates the next   *)
(* batch while it trains on the current one.  The job may be killed at any *)
(* point and is then started again with resume_mode auto.                  *)
(*                                                                         *)
(* A batch is the number of times the dataloader was read before it, plus  *)
(* one; weights are the batches they were trained on.                      *)
(***************************************************************************)
EXTENDS CheckpointManager

CONSTANTS Trainers,    \* kinds of run: subset of {"sync", "one_step_off"}
          Keeps,       \* limits on checkpoints that are tried, 0 for none
          EpochLens,   \* numbers of batches of an epoch that are tried
          TotalSteps,  \* total_training_steps
          SaveFreq,    \* save_freq
          Expires,     \* the instance may be close to expiration
          Warmup,      \* critic_warmup
          MaxCrashes   \* bound: how often the job is killed

ASSUME TrainerAssumption ==
  /\ Roles = {"actor", "critic"}
  /\ Ranks # {} /\ IsFiniteSet(Ranks)
  /\ Trainers \subseteq {"sync", "one_step_off"} /\ Keeps \subseteq Nat
  /\ EpochLens \subseteq Nat \ {0} /\ TotalSteps \in Nat \ {0}
  /\ SaveFreq \in Nat /\ Warmup \in Nat /\ MaxCrashes \in Nat
  /\ Expires \in BOOLEAN
  /\ MaxStep \in Nat /\ MaxStep >= TotalSteps + MaxCrashes

VARIABLES
  data,     \* files: global_step_N/data.pt, the state of the dataloader
  tracker,  \* file: latest_checkpointed_iteration.txt
  trainer,  \* which of the two drivers the job runs
  epochLen, \* batches of an epoch
  pc,       \* where the driver is
  role,     \* whose checkpoint is being saved
  step,     \* global_steps
  weights,  \* of each role
  used,     \* how often the dataloader was read
  epoch,    \* the epoch of the loop
  batch,    \* the batch in training
  next,     \* batch_data_future
  crashes

files == <<data, tracker>>
job == <<trainer, epochLen>>
loop == <<step, weights, used, epoch, batch, next>>
vars == <<managerVars, files, job, pc, role, loop, crashes>>

-----------------------------------------------------------------------------

NoBatch == [id |-> 0, by |-> 0]

Init ==
  /\ ManagerInit
  /\ keep \in [Roles -> Keeps]
  /\ data = [s \in 1 .. MaxStep |-> [state |-> "none", of |-> 0]]
  /\ tracker = [state |-> "none", step |-> 0]
  /\ trainer \in Trainers /\ epochLen \in EpochLens
  /\ pc = "down" /\ role = "actor" /\ crashes = 0
  /\ step = 0 /\ weights = [r \in Roles |-> << >>]
  /\ used = 0 /\ epoch = 0 /\ batch = NoBatch /\ next = NoBatch

IsLast == step >= TotalSteps

-----------------------------------------------------------------------------

(* The tracker file can be read, and what it names can be loaded.          *)
Resumable ==
  \/ tracker.state = "none"
  \/ /\ tracker.state = "whole"
     /\ \A r \in Roles : Loadable(r, tracker.step)
     /\ data[tracker.step].state # "torn"

Enter == IF trainer = "sync" THEN "loop" ELSE "first"

(* Mutant: the dataloader starts from the beginning.                       *)
StartFresh ==
  /\ pc = "down" /\ Resumable
  /\ step' = tracker.step + 1
  /\ weights' = [r \in Roles |-> IF tracker.state = "none" THEN << >>
                                 ELSE Content(r, tracker.step)]
  /\ used' = 0 /\ epoch' = 0 /\ batch' = NoBatch /\ next' = NoBatch
  /\ pc' = Enter
  /\ UNCHANGED <<managerVars, files, job, role, crashes>>

(* _load_checkpoint: from scratch without a tracker file, else from the    *)
(* step it names.                                                          *)
Start ==
  /\ pc = "down" /\ Resumable
  /\ step' = tracker.step + 1
  /\ IF tracker.state = "none" THEN weights' = [r \in Roles |-> << >>] /\ used' = 0
     ELSE /\ weights' = [r \in Roles |-> Content(r, tracker.step)]
          /\ used' = data[tracker.step].of
  /\ epoch' = 0 /\ batch' = NoBatch /\ next' = NoBatch
  /\ pc' = Enter
  /\ UNCHANGED <<managerVars, files, job, role, crashes>>

(* Every start raises: int('') of an empty tracker, or a missing file.     *)
Stuck == pc = "down" /\ ~Resumable /\ UNCHANGED vars

-----------------------------------------------------------------------------

(* total_epochs: what TotalSteps needs.                                    *)
Epochs == (TotalSteps + epochLen - 1) \div epochLen

(* How much of its epoch the dataloader has delivered; all of it, when it  *)
(* was saved behind the last batch.                                        *)
Delivered == IF used = 0 THEN 0 ELSE ((used - 1) % epochLen) + 1
More == Delivered < epochLen \/ epoch + 1 < Epochs

(* The next batch of the loop over epochs and dataloader, to be generated  *)
(* by the weights of now.                                                  *)
Read == [id |-> used + 1, by |-> Len(weights["actor"])]
Consume == /\ used' = used + 1
           /\ epoch' = IF Delivered < epochLen THEN epoch ELSE epoch + 1

(* RayPPOTrainer: a batch is read and generated.                           *)
Generate ==
  /\ pc = "loop" /\ trainer = "sync"
  /\ IF More THEN Consume /\ batch' = Read /\ pc' = "train"
     ELSE pc' = "finished" /\ UNCHANGED <<used, epoch, batch>>
  /\ UNCHANGED <<managerVars, files, job, role, step, weights, next, crashes>>

(* Mutant: the rollout workers keep the weights of the start.              *)
PrefetchUnsynced ==
  IF More THEN Consume /\ next' = [Read EXCEPT !.by = IF next = NoBatch THEN @ ELSE next.by]
  ELSE next' = NoBatch /\ UNCHANGED <<used, epoch>>

(* OneStepOffRayTrainer: _async_gen_next_batch, which first sends the      *)
(* weights to the rollout workers.                                         *)
Prefetch == IF More THEN Consume /\ next' = Read
            ELSE next' = NoBatch /\ UNCHANGED <<used, epoch>>

First ==
  /\ pc = "first"
  /\ Prefetch
  /\ pc' = "loop"
  /\ UNCHANGED <<managerVars, files, job, role, step, weights, batch, crashes>>

(* It waits for the batch in flight and sends the next one off.            *)
Take ==
  /\ pc = "loop" /\ trainer = "one_step_off"
  /\ IF next = NoBatch
     THEN pc' = "finished" /\ UNCHANGED <<used, epoch, batch, next>>
     ELSE /\ batch' = next
          /\ pc' = "train"
          /\ IF IsLast THEN UNCHANGED <<used, epoch, next>> ELSE Prefetch
  /\ UNCHANGED <<managerVars, files, job, role, step, weights, crashes>>

(* Mutant: the last step is saved only when it falls on save_freq.         *)
DueByFreq == SaveFreq > 0 /\ step % SaveFreq = 0

(* The save condition; only RayPPOTrainer looks at the expiration.         *)
Due == SaveFreq > 0 /\ (IsLast \/ step % SaveFreq = 0)
MaySave == SaveFreq > 0 /\ Expires /\ trainer = "sync"

(* update_critic and update_actor, and the decision to save.               *)
Train ==
  /\ pc = "train"
  /\ weights' = [r \in Roles |-> IF r = "actor" /\ step < Warmup THEN weights[r]
                                 ELSE Append(weights[r], batch.id)]
  /\ role' = "actor"
  /\ \/ (Due \/ MaySave) /\ pc' = "rotate"
     \/ ~Due /\ pc' = "advance"
  /\ UNCHANGED <<managerVars, files, job, step, used, epoch, batch, next, crashes>>

-----------------------------------------------------------------------------

(* _save_checkpoint: actor, critic, dataloader, tracker, in this order.    *)
SaveRotate ==
  /\ pc = "rotate"
  /\ Rotate(role)
  /\ pc' = "shards"
  /\ UNCHANGED <<files, job, role, loop, crashes>>

SaveShard(k) ==
  /\ pc = "shards"
  /\ WriteShard(role, step, k, weights[role])
  /\ UNCHANGED <<files, job, pc, role, loop, crashes>>

SaveRole ==
  /\ pc = "shards"
  /\ Saved(role, step)
  /\ IF role = "actor" THEN role' = "critic" /\ pc' = "rotate"
     ELSE pc' = "data" /\ UNCHANGED role
  /\ UNCHANGED <<files, job, loop, crashes>>

SaveData ==
  /\ pc = "data"
  /\ data' = [data EXCEPT ![step] = [state |-> "whole", of |-> used]]
  /\ pc' = "open"
  /\ UNCHANGED <<managerVars, tracker, job, role, loop, crashes>>

(* open(.., "w") empties the file; the number gets there when it is        *)
(* closed.                                                                 *)
OpenTracker ==
  /\ pc = "open"
  /\ tracker' = [state |-> "empty", step |-> step]
  /\ pc' = "number"
  /\ UNCHANGED <<managerVars, data, job, role, loop, crashes>>

WriteTracker ==
  /\ pc = "number"
  /\ tracker' = [state |-> "whole", step |-> step]
  /\ pc' = "advance"
  /\ UNCHANGED <<managerVars, data, job, role, loop, crashes>>

Advance ==
  /\ pc = "advance"
  /\ step' = step + 1
  /\ pc' = IF IsLast THEN "finished" ELSE "loop"
  /\ UNCHANGED <<managerVars, files, job, role, weights, used, epoch, batch, next,
                 crashes>>

-----------------------------------------------------------------------------

(* The job is killed: what it had not written is gone, and what it was     *)
(* writing may be there by half.                                           *)
Crash ==
  /\ pc \notin {"down", "finished"} /\ crashes < MaxCrashes
  /\ crashes' = crashes + 1
  /\ pc' = "down"
  /\ IF pc = "shards" THEN ManagerCrash(role, step, left) ELSE ManagerCrash(role, 1, {})
  /\ \/ UNCHANGED data
     \/ pc = "data" /\ data' = [data EXCEPT ![step] = [state |-> "torn", of |-> 0]]
  /\ step' = 0 /\ weights' = [r \in Roles |-> << >>]
  /\ used' = 0 /\ epoch' = 0 /\ batch' = NoBatch /\ next' = NoBatch
  /\ UNCHANGED <<tracker, job, role>>

Finished == pc = "finished" /\ UNCHANGED vars

Step == \/ Start \/ Generate \/ First \/ Take \/ Train
        \/ SaveRotate \/ (\E k \in Ranks : SaveShard(k)) \/ SaveRole
        \/ SaveData \/ OpenTracker \/ WriteTracker \/ Advance

Next == Step \/ Crash \/ Stuck \/ Finished

SafetySpec == Init /\ [][Next]_vars

(* The job goes on, and is started again.                                  *)
Spec == SafetySpec /\ WF_vars(Step)

-----------------------------------------------------------------------------

PCs == {"down", "first", "loop", "train", "rotate", "shards", "data", "open",
        "number", "advance", "finished"}
Files == [state : {"none", "torn", "whole"}, of : Seq(Nat)]
Batches == [id : Nat, by : Nat]

TypeOK ==
  /\ shard \in [Roles -> [1 .. MaxStep -> [Ranks -> Files]]]
  /\ saved \in [Roles -> Seq(1 .. MaxStep)]
  /\ left \subseteq Ranks /\ keep \in [Roles -> Nat]
  /\ data \in [1 .. MaxStep -> [state : {"none", "torn", "whole"}, of : Nat]]
  /\ tracker \in [state : {"none", "empty", "whole"}, step : 0 .. MaxStep]
  /\ trainer \in {"sync", "one_step_off"} /\ epochLen \in EpochLens
  /\ pc \in PCs /\ role \in Roles
  /\ step \in 0 .. MaxStep + 1 /\ weights \in [Roles -> Seq(Nat)]
  /\ used \in Nat /\ epoch \in 0 .. Epochs
  /\ batch \in Batches /\ next \in Batches
  /\ crashes \in 0 .. MaxCrashes

(* How often a role was updated in s steps.                                *)
Updates(r, s) == IF r = "actor" /\ Warmup > 0
                 THEN IF s < Warmup THEN 0 ELSE s - Warmup + 1
                 ELSE s

(* docs/examples/config.rst:597-600: the program resumes from the latest   *)
(* checkpoint.  Wherever the job was killed, a checkpoint the tracker      *)
(* names is complete: every rank of every role has its shards, all from    *)
(* the same update, and the state of the dataloader is there.              *)
TrackerNamesWhole ==
  tracker.state = "whole" =>
    /\ \A r \in Roles : /\ Loadable(r, tracker.step) /\ SameState(r, tracker.step)
                        /\ Len(Content(r, tracker.step)) = Updates(r, tracker.step)
    /\ data[tracker.step].state = "whole"

(* recipe/one_step_off_policy/README.md:31-32: generation and training     *)
(* parameters stay one step apart, also across the restarts; those of the  *)
(* synchronous trainer are the same.                                       *)
OneStepOff ==
  pc = "train" => Len(weights["actor"]) - batch.by \in
                    (IF trainer = "sync" THEN {0} ELSE {0, 1})

(* Files, ranks and tracker together implement atomic checkpoints: batches *)
(* are trained on in their order, and the synchronous trainer skips none,  *)
(* however often the job is killed and whatever a kill leaves.  A          *)
(* checkpoint takes effect when the tracker is opened.                     *)
Kept == IF tracker.state = "none" THEN << >> ELSE Content("critic", tracker.step)
Atomic == INSTANCE TrainingRun
  WITH trained <- IF pc = "down" THEN Kept ELSE weights["critic"], kept <- Kept,
       skips <- trainer = "one_step_off"
ImplementsRun == Atomic!RunSpec

(* ray_trainer.py:1451-1457: a run that ends has saved its last step.      *)
(* Only a prefetching run that was resumed in its only epoch may run out   *)
(* of batches before: the one it had read ahead is never trained on.       *)
SavedAtEnd ==
  \/ SaveFreq = 0
  \/ trainer = "one_step_off" /\ Epochs = 1 /\ crashes > 0
  \/ tracker = [state |-> "whole", step |-> step - 1]

(* However often it is killed, the run finishes with its last step saved,  *)
(* unless it was killed between the opening of the tracker and its number. *)
Finishes == \/ <>(pc = "finished" /\ SavedAtEnd)
            \/ <>(pc = "down" /\ tracker.state = "empty")
=============================================================================
