-------------------------------- MODULE Slqp --------------------------------
(***************************************************************************)
(* The quality loss of workers/actor/slqp.py: which tokens of a response   *)
(* make its trajectory, which steps of the trajectory are measured, and    *)
(* what a response weighs in the loss of a micro-batch.  The collector of  *)
(* the calibration data has code of its own for the steps                  *)
(* (collect_slqp_200.py).  Distances, projection and Huber loss are left   *)
(* out: they are functions of the steps.                                   *)
(***************************************************************************)
EXTENDS Integers, Sequences, FiniteSetsExt

(* Mutant: the token before, whether it is included or not.                *)
PreviousToken(mask, t) == t - 1

(* trajectory_features: the included position before t by a running        *)
(* maximum; 0 stands for the end of the prompt.                            *)
Previous(mask, t) == Max({0} \cup {u \in 1 .. t - 1 : mask[u] = 1})

(* The steps that enter the loss: masked_mean_std skips the others.        *)
TrainedSteps(mask) == {<<Previous(mask, t), t>> : t \in {u \in DOMAIN mask : mask[u] = 1}}

(* The collector drops the excluded tokens first and takes neighbours of   *)
(* what is left.                                                           *)
CollectedSteps(mask) ==
  LET kept == SelectSeq([i \in DOMAIN mask |-> i], LAMBDA i : mask[i] = 1)
  IN  {<<IF j = 1 THEN 0 ELSE kept[j - 1], kept[j]>> : j \in DOMAIN kept}

(* quality_and_loss, _slqp_valid_token_count: a response counts by its     *)
(* tokens, or not at all.                                                  *)
Weight(tokens, min) == IF tokens >= min THEN tokens ELSE 0

(* A fraction: what a response of this weight contributes to the gradient  *)
(* of one worker, in a micro-batch of some tokens; clamp_min(1) and the    *)
(* maximum with 1 for batches without any.                                 *)
Share(weight, micro, total, world) ==
  [up |-> weight * world * micro, down |-> Max({micro, 1}) * Max({total, 1})]
=============================================================================
