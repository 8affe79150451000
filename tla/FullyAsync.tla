------------------------------ MODULE FullyAsync ------------------------------
(***************************************************************************)
(* The running system of recipe/fully_async_policy: Rollouter, Trainer,    *)
(* ParameterSynchronizer and MessageQueue, from the moment main() starts   *)
(* the two fit() calls.                                                    *)
(***************************************************************************)
EXTENDS Trainer, Functions

vars == <<schedVars, inputVars, procVars, taskVars, outVars, flagVars,
          freshVars, stampVars, queueVars, trainVars, syncVars>>

Init == RollInit(ValBefore) /\ TrainerInit

RollouterStep == \/ Feed \/ Processor \/ \E s \in Samples : Task(s)
                 \/ Consumer \/ Main \/ Monitor
                 \/ Pause \/ Update(syncVersion, syncValidate) \/ Resume

(* Both fit() calls have returned.                                         *)
Finished == /\ tpc = "done"
            /\ pc["main"] = "finished" /\ pc["monitor"] = "finished"

Terminated == Finished /\ UNCHANGED vars

Next == \/ RollouterStep /\ UNCHANGED <<trainVars, syncVars>>
        \/ Train
        \/ Synchronizer
        \/ Terminated

(* The ready queue of an event loop is FIFO, so a coroutine that is ready  *)
(* runs; the servers finish what they are asked to generate; the other     *)
(* actors have a thread of their own.  Strong fairness, because a          *)
(* coroutine is not enabled while another one is running.  Coroutines that *)
(* are never ready at the same time share a condition: the feeder ends     *)
(* before main goes on, and pause, update and resume are called in turn.   *)
Roll(A) == A /\ UNCHANGED <<trainVars, syncVars>>

Fairness ==
  /\ SF_vars(Roll(Processor))
  /\ SF_vars(Roll(\E s \in Samples : Task(s)))
  /\ SF_vars(Roll(Consumer))
  /\ SF_vars(Roll(Feed \/ Main))
  /\ SF_vars(Roll(Monitor))
  /\ SF_vars(Roll(Pause \/ Update(syncVersion, syncValidate) \/ Resume))
  /\ WF_vars(Train)
  /\ WF_vars(Synchronizer)

SafetySpec == Init /\ [][Next]_vars
Spec == SafetySpec /\ Fairness

-----------------------------------------------------------------------------

Items == Samples \cup {End}

SchedTypes ==
  /\ cpu \in Coroutines \cup {Idle}
  /\ lockQ \in Seq(Coroutines)
  /\ pc \in [Coroutines -> Labels]

InputTypes ==
  /\ fed \in 0 .. Done /\ taken \in 0 .. Done
  /\ hand \in Samples \cup {None} /\ doneBound \in BOOLEAN

TaskTypes ==
  /\ active \subseteq Samples
  /\ task \in [Samples -> {"none", "created", "running", "interrupted", "finished"}]

OutTypes ==
  /\ cancelQ \in Seq(Samples) /\ resultQ \in Seq(Samples)
  /\ chand \in Samples \cup {None}
  /\ mq \in Seq(Items) /\ dropped \subseteq Items
  /\ valQ \in Seq({"metrics", "plain"})

FlagTypes ==
  /\ paused \in BOOLEAN /\ trigger \in BOOLEAN /\ running \in BOOLEAN
  /\ version \in Nat /\ staleness \in Nat /\ count \in Nat
  /\ serverPaused \in BOOLEAN
  /\ startV \in [Samples -> Int] /\ endV \in [Samples -> Int]

TrainTypes ==
  /\ tpc \in {"start", "collect", "train", "wait", "sync", "getVal",
              "finalWait", "finalSync", "finalVal", "done"}
  /\ batch \subseteq Samples /\ trained \subseteq Samples
  /\ discarded \subseteq Samples
  /\ local \in 1 .. Trigger /\ tversion \in Nat
  /\ valData \in {"none", "metrics", "plain"}
  /\ spc \in {"idle", "pausing", "transfer"}
  /\ syncVersion \in Nat /\ syncValidate \in BOOLEAN

(* Every variable holds values of its type; in particular local_trigger_step *)
(* stays within trigger_parameter_sync_step (fully_async_trainer.py:339-344). *)
TypeOK == SchedTypes /\ InputTypes /\ TaskTypes /\ OutTypes /\ FlagTypes /\ TrainTypes

InFlight == {s \in Samples : task[s] \in {"created", "running", "interrupted"}}

(* The number of places sample s is in.                                    *)
One(b) == IF b THEN 1 ELSE 0
Times(q, s) == Cardinality({i \in DOMAIN q : q[i] = s})
Homes(s) == One(hand = s) + One(s \in InFlight) + Times(cancelQ, s)
            + Times(resultQ, s) + One(chand = s) + Times(mq, s)
            + One(s \in dropped) + One(s \in batch) + One(s \in trained)
            + One(s \in discarded)

(* No sample is duplicated or forgotten: every prompt the processor took   *)
(* is in exactly one place, through every pause, cancellation and resume.  *)
OneHome == \A s \in Samples : Homes(s) = IF s <= taken THEN 1 ELSE 0

(* active_tasks names every generation that is still going on, so that     *)
(* what pause() gathers is all there is.                                   *)
ActiveCovers == InFlight \subseteq active

(* At most MaxConcurrent samples are generated at a time (rollouter:383).  *)
ConcurrencyBound == Cardinality(active) <= MaxConcurrent

(* pause() keeps its promise to the synchroniser up to the moment it       *)
(* returns: nothing is submitted behind its back while it collects the     *)
(* running tasks.                                                          *)
PauseIsolates ==
  [][pc["pause"] \in {"cancel", "gather", "resetCache"}
       => active' \subseteq active]_vars

(* The Rollouter adds no task while weights are sent (README.md:203-204).  *)
(* It does; no run checks this, README, Disagreements without a run.       *)
NoNewTasks == [][spc = "transfer" => active' \subseteq active]_vars

(* With partial rollout no generation completes while weights are sent:    *)
(* the servers are paused and whatever they worked on has been handed back.*)
QuietTransfer ==
  [][spc = "transfer" => Range(resultQ') \subseteq Range(resultQ)]_vars

(* The whole system lets a sample live the life of module SampleFlow: it   *)
(* is trained on at most once, and only in a full batch.                   *)
Stage(s) == CASE s > taken -> "data"
              [] s \in Range(mq) -> "queued"
              [] s \in batch -> "batched"
              [] s \in trained -> "trained"
              [] s \in dropped -> "dropped"
              [] s \in discarded -> "discarded"
              [] OTHER -> "rollout"
Flow == INSTANCE SampleFlow WITH stage <- [s \in Samples |-> Stage(s)],
                                 marker <- End \in Range(mq)
ImplementsFlow == Flow!FlowSpec

(* The versions agree: the Rollouter is at most one synchronisation behind *)
(* the Trainer, a sample's stamps are ordered and never from the future.   *)
VersionOrder ==
  /\ version <= syncVersion /\ syncVersion <= tversion
  /\ tversion <= syncVersion + 1 /\ syncVersion <= version + 1
  /\ \A s \in Samples : startV[s] <= version /\ endV[s] <= version
  /\ \A s \in trained \cup batch : 0 <= startV[s] /\ startV[s] <= endV[s]

(* Synchronous training: with staleness_threshold 0 a step of the Trainer  *)
(* uses only samples generated by the version it is at.                    *)
OnPolicy == \A s \in batch : startV[s] = tversion /\ endV[s] = tversion

(* Samples whose generation has begun and which the Trainer has not fetched *)
(* yet: if between two updates at most (1+s)*Required*Trigger samples are   *)
(* generated, the excess of the previous round included, there are never    *)
(* more than that many of them (README.md:132-137).                         *)
Fetched == batch \cup trained \cup discarded
InFlightBound ==
  Cardinality({s \in Samples \ Fetched : task[s] # "none"}) <= MaxRequired

(* The end marker comes last: once it is in the MessageQueue every prompt  *)
(* has been generated and put before it.                                   *)
EndIsLast ==
  End \in Range(mq) \/ pc["main"] = "ended" =>
    \A s \in Samples : s \in Range(mq) \cup Fetched \cup dropped

(* The processor never dies of the unbound done_tasks.  It may; no run     *)
(* checks this, README, Disagreements without a run.                       *)
ProcessorSurvives == pc["proc"] # "failed"

(* When training is over the Rollouter has the weights of the last step.   *)
(* Not always; no run checks this, README, Disagreements without a run.    *)
FinalSync == tpc = "done" => local = 1

(* Both fit() calls return.                                                *)
Terminates == <>Finished

(* Both fit() calls return, and by then every prompt has been trained on,  *)
(* but for those of the incomplete last batch.                             *)
AllUsed == <>(Finished /\ trained \cup discarded = Samples)
=============================================================================
