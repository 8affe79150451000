------------------------------- MODULE Trainer -------------------------------
(***************************************************************************)
(* The Trainer actor and the ParameterSynchronizer it calls.  The Trainer  *)
(* is sequential: it takes samples from the MessageQueue one by one,       *)
(* trains on a full batch, and after Trigger batches has the new weights   *)
(* synchronised.  sync_weights runs while the Trainer waits for it, but    *)
(* the rollouter calls it fires last (update_param_version, resume) go on  *)
(* after it returns.                                                       *)
(***************************************************************************)
EXTENDS Rollouter

CONSTANTS
  Required,   \* required_samples = ppo_mini_batch_size * require_batches
  Trigger,    \* trigger_parameter_sync_step
  ValBefore   \* val_before_train with a validation reward function

ASSUME TrainerAssumption ==
  /\ Required \in Nat \ {0} /\ Trigger \in Nat \ {0}
  /\ ValBefore \in BOOLEAN
  /\ MaxRequired >= Required * Trigger   \* since staleness_threshold >= 0

VARIABLES
  tpc,        \* where Trainer.fit is
  batch,      \* samples collected for the next step
  local,      \* local_trigger_step
  tversion,   \* current_param_version of the Trainer
  trained,    \* samples of the completed training steps
  discarded,  \* samples of a batch that stayed incomplete
  valData,    \* val_data: "none", with "metrics" or "plain"
  spc,        \* where sync_weights is
  syncVersion, syncValidate   \* its arguments

trainVars == <<tpc, batch, local, tversion, trained, discarded, valData>>
syncVars == <<spc, syncVersion, syncValidate>>
rollVars == <<schedVars, inputVars, procVars, taskVars, outVars, flagVars,
              freshVars, stampVars, dropped>>

-----------------------------------------------------------------------------

(* get_validate_sync()                                                     *)
PopValidate == /\ valData' = IF valQ = << >> THEN "none" ELSE Head(valQ)
               /\ valQ' = IF valQ = << >> THEN << >> ELSE Tail(valQ)

TrainStart ==
  /\ tpc = "start"
  /\ PopValidate
  /\ tpc' = "collect"
  /\ UNCHANGED <<batch, local, tversion, trained, discarded, syncVars,
                 rollVars, mq>>

(* One turn of _get_samples_from_queue.                                    *)
CollectSample ==
  /\ tpc = "collect" /\ Channel!Take /\ Head(mq) # End
  /\ batch' = batch \cup {Head(mq)}
  /\ tpc' = IF Cardinality(batch') = Required THEN "train" ELSE "collect"
  /\ UNCHANGED <<local, tversion, trained, discarded, valData, syncVars,
                 rollVars, valQ>>

(* The end marker ends the collection and with it the training loop; the   *)
(* samples collected so far are not used.  Unless the last validation      *)
(* result has metrics, fit synchronises and validates once more.           *)
CollectEnd ==
  /\ tpc = "collect" /\ Channel!Take /\ Head(mq) = End
  /\ discarded' = batch /\ batch' = {}
  /\ IF valData = "metrics"
       THEN tpc' = "done" /\ UNCHANGED <<local, tversion>>
       ELSE tpc' = "finalWait" /\ local' = 1 /\ tversion' = tversion + 1
  /\ UNCHANGED <<trained, valData, syncVars, rollVars, valQ>>

(* Mutant: local_trigger_step is not set back.                             *)
TrainStepNoReset ==
  /\ tpc = "train"
  /\ trained' = trained \cup batch /\ batch' = {}
  /\ local' = local + 1
  /\ IF local < Trigger THEN tpc' = "getVal" /\ UNCHANGED tversion
                        ELSE tpc' = "wait" /\ tversion' = tversion + 1
  /\ UNCHANGED <<discarded, valData, syncVars, rollVars, mq, valQ>>

(* _process_batch_common and _trigger_parameter_sync_after_step            *)
TrainStep ==
  /\ tpc = "train"
  /\ trained' = trained \cup batch /\ batch' = {}
  /\ IF local < Trigger
       THEN local' = local + 1 /\ tpc' = "getVal" /\ UNCHANGED tversion
       ELSE local' = 1 /\ tpc' = "wait" /\ tversion' = tversion + 1
  /\ UNCHANGED <<discarded, valData, syncVars, rollVars, mq, valQ>>

TrainGetVal ==
  /\ tpc = "getVal"
  /\ PopValidate
  /\ tpc' = "collect"
  /\ UNCHANGED <<batch, local, tversion, trained, discarded, syncVars,
                 rollVars, mq>>

(* Mutant: nobody waits for the last synchronisation.                      *)
NoSyncPending == tpc # "start"

(* What wait_last_valid() waits for.                                       *)
LastSyncDone == pc["update"] = "returned" /\ pc["resume"] = "returned"

(* wait_last_valid(), then sync_weights(): it starts by calling pause().   *)
SyncStart ==
  /\ tpc \in {"wait", "finalWait"} /\ LastSyncDone
  /\ spc' = "pausing"
  /\ syncVersion' = tversion /\ syncValidate' = (tpc = "finalWait")
  /\ tpc' = IF tpc = "wait" THEN "sync" ELSE "finalSync"
  /\ Goto("pause", "called")
  /\ UNCHANGED <<batch, local, tversion, trained, discarded, valData, cpu,
                 lockQ, inputVars, procVars, taskVars, outVars, flagVars,
                 freshVars, stampVars, queueVars>>

(* pause() has returned: the weights are sent.                             *)
SyncTransfer ==
  /\ spc = "pausing" /\ pc["pause"] = "returned"
  /\ spc' = "transfer"
  /\ UNCHANGED <<trainVars, syncVersion, syncValidate, rollVars, mq, valQ>>

(* The transfer is over; fire update_param_version and resume, and return. *)
SyncFire ==
  /\ spc = "transfer"
  /\ spc' = "idle"
  /\ pc' = [pc EXCEPT !["update"] = "called", !["resume"] = "called"]
  /\ tpc' = IF tpc = "sync" THEN "getVal" ELSE "finalVal"
  /\ UNCHANGED <<batch, local, tversion, trained, discarded, valData,
                 syncVersion, syncValidate, cpu, lockQ, inputVars, procVars,
                 taskVars, outVars, flagVars, freshVars, stampVars, queueVars>>

(* The final validation result; fit ends.                                  *)
TrainFinal ==
  /\ tpc = "finalVal" /\ LastSyncDone
  /\ PopValidate
  /\ tpc' = "done"
  /\ UNCHANGED <<batch, local, tversion, trained, discarded, syncVars,
                 rollVars, mq>>

Train == \/ TrainStart \/ CollectSample \/ CollectEnd \/ TrainStep
         \/ TrainGetVal \/ TrainFinal

Synchronizer == SyncStart \/ SyncTransfer \/ SyncFire

TrainerInit ==
  /\ tpc = "start" /\ batch = {} /\ local = 1 /\ tversion = 0
  /\ trained = {} /\ discarded = {} /\ valData = "none"
  /\ spc = "idle" /\ syncVersion = 0 /\ syncValidate = ValBefore
=============================================================================
