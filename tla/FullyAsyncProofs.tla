--------------------------- MODULE FullyAsyncProofs ---------------------------
(***************************************************************************)
(* Proofs about module FullyAsync, for every number of samples, every      *)
(* capacity and every setting of the training run: types, locks and        *)
(* versions; then where the samples are, every one that was taken in       *)
(* exactly one place, so that the system implements SampleFlow; and at the *)
(* end, with a staleness of 0, that what is trained on was generated by    *)
(* the version it trains.                                                  *)
(***************************************************************************)
EXTENDS FullyAsync, FiniteSetTheorems, SequenceTheorems, TLAPS

-----------------------------------------------------------------------------
(* The scheduler's variables.                                              *)

(* Taking the lock keeps the lock queue and the program counters typed.    *)
LEMMA AcquireTypes ==
  ASSUME SchedTypes, NEW c \in Coroutines, NEW q \in Seq(Coroutines),
         NEW l \in Labels, Acquire(c, q, l) \/ AcquireAndWait(c, q, l)
  PROVE  SchedTypes'
<1>1. lockQ' \in Seq(Coroutines)
  BY DEF Acquire, AcquireAndWait
<1>2. pc' \in [Coroutines -> Labels]
  BY DEF SchedTypes, Acquire, AcquireAndWait, Goto
<1>3. cpu' \in Coroutines \cup {Idle}
  BY DEF Acquire, AcquireAndWait
<1>. QED  BY <1>1, <1>2, <1>3 DEF SchedTypes

(* So does leaving it.                                                     *)
LEMMA LeaveTypes ==
  ASSUME SchedTypes, NEW c \in Coroutines, NEW l \in Labels,
         lockQ # << >>, Leave(c, l)
  PROVE  SchedTypes'
BY DEF SchedTypes, Leave, Goto, Idle

(* And so does yielding without touching the lock.                         *)
LEMMA YieldTypes ==
  ASSUME SchedTypes, NEW c \in Coroutines, NEW l \in Labels,
         Goto(c, l), cpu' = Idle, UNCHANGED lockQ
  PROVE  SchedTypes'
BY DEF SchedTypes, Goto

LEMMA TailTypes ==
  ASSUME SchedTypes, lockQ # << >>
  PROVE  Tail(lockQ) \in Seq(Coroutines)
BY DEF SchedTypes

LEMMA AwaitSlotTypes ==
  ASSUME SchedTypes, NEW q \in Seq(Coroutines), NEW rem, AwaitSlot(q, rem)
  PROVE  SchedTypes'
BY AcquireTypes DEF AwaitSlot, Coroutines, Labels

LEMMA AfterReapTypes ==
  ASSUME SchedTypes, lockQ # << >>, NEW at \in Loops, NEW rem,
         AfterReap(at, Tail(lockQ), rem)
  PROVE  SchedTypes'
<1>. USE DEF Labels
<1>1. Tail(lockQ) \in Seq(Coroutines) /\ "proc" \in Coroutines
  BY TailTypes DEF Coroutines
<1>2. CASE at = "drain"
  BY <1>1, <1>2, AcquireTypes DEF AfterReap
<1>3. CASE at = "lastTasks"
  BY <1>1, <1>3, AcquireTypes, LeaveTypes DEF AfterReap
<1>4. CASE at = "slot"
  BY <1>1, <1>4, AwaitSlotTypes DEF AfterReap
<1>. QED  BY <1>2, <1>3, <1>4 DEF Loops

LEMMA SchedProcessor == ASSUME SchedTypes, Processor PROVE SchedTypes'
<1>. USE DEF Coroutines, Labels
<1>1. CASE ProcPause
  BY <1>1, AcquireTypes DEF ProcPause, SchedTypes
<1>2. CASE ProcTakeCancelled
  BY <1>2, AwaitSlotTypes DEF ProcTakeCancelled, SchedTypes
<1>3. CASE TakePending
  <2>1. CASE taken' = Done /\ active = {}
    BY <1>3, <2>1 DEF TakePending, SchedTypes, Goto, Idle
  <2>2. CASE taken' = Done /\ active # {}
    BY <1>3, <2>2, AcquireTypes DEF TakePending, SchedTypes
  <2>3. CASE taken' # Done
    BY <1>3, <2>3, AwaitSlotTypes DEF TakePending, SchedTypes
  <2>. QED  BY <2>1, <2>2, <2>3
<1>4. CASE ProcAwaitPending
  BY <1>4 DEF ProcAwaitPending, SchedTypes, Goto, Idle
<1>5. CASE ProcSetPaused
  BY <1>5, AcquireTypes, TailTypes DEF ProcSetPaused, InLock, Holds
<1>6. CASE ProcAwaitResume
  BY <1>6, TailTypes DEF ProcAwaitResume, InLock, Holds, SchedTypes, Goto, Idle
<1>7. CASE ProcSubmit
  BY <1>7, TailTypes DEF ProcSubmit, InLock, Holds, SchedTypes, Goto, Idle
<1>8. CASE ProcWake
  BY <1>8, AcquireTypes DEF ProcWake, SchedTypes
<1>9. ASSUME NEW at \in Loops, ProcReap(at) \/ ProcNothingToReap(at) PROVE SchedTypes'
  <2>1. lockQ # << >>
    BY <1>9 DEF ProcReap, ProcNothingToReap, InLock, Holds
  <2>2. CASE ProcReap(at)
    BY <1>9, <2>1, <2>2, AfterReapTypes DEF ProcReap
  <2>3. CASE ProcNothingToReap(at)
    BY <1>9, <2>1, <2>3, AfterReapTypes, LeaveTypes DEF ProcNothingToReap
  <2>. QED  BY <1>9, <2>2, <2>3
<1>. QED
  BY <1>1, <1>2, <1>3, <1>4, <1>5, <1>6, <1>7, <1>8, <1>9
     DEF Processor, ProcTake, ProcGot

LEMMA SchedPause == ASSUME SchedTypes, Pause PROVE SchedTypes'
<1>. USE DEF Coroutines, Labels
<1>1. CASE PauseCall
  BY <1>1, AcquireTypes DEF PauseCall, SchedTypes
<1>2. CASE PauseBegin
  BY <1>2, YieldTypes DEF PauseBegin
<1>3. CASE PauseCancel
  BY <1>3, YieldTypes DEF PauseCancel
<1>4. CASE PauseGather
  BY <1>4, YieldTypes DEF PauseGather
<1>5. CASE PauseEnd
  BY <1>5, LeaveTypes DEF PauseEnd, InLock, Holds
<1>. QED  BY <1>1, <1>2, <1>3, <1>4, <1>5 DEF Pause

LEMMA SchedUpdate ==
  ASSUME SchedTypes, Update(syncVersion, syncValidate)
  PROVE  SchedTypes'
<1>. USE DEF Coroutines, Labels
<1>1. CASE UpdateCall
  BY <1>1, AcquireTypes DEF UpdateCall, SchedTypes
<1>2. CASE UpdateBegin(syncVersion)
  BY <1>2 DEF UpdateBegin, SchedTypes, Goto, Idle
<1>3. CASE UpdateSize
  BY <1>3 DEF UpdateSize, SchedTypes, Goto
<1>4. CASE UpdateSet(syncVersion, syncValidate)
  BY <1>4 DEF UpdateSet, SchedTypes, Goto, Idle
<1>5. CASE UpdateEnd(syncVersion, syncValidate)
  BY <1>5, LeaveTypes DEF UpdateEnd, InLock, Holds
<1>. QED  BY <1>1, <1>2, <1>3, <1>4, <1>5 DEF Update

LEMMA SchedResume == ASSUME SchedTypes, Resume PROVE SchedTypes'
<1>. USE DEF Coroutines, Labels
<1>1. CASE ResumeCall
  BY <1>1, AcquireTypes DEF ResumeCall, SchedTypes
<1>2. CASE ResumeBegin
  <2>1. lockQ' \in Seq(Coroutines)
    BY <1>2, TailTypes DEF ResumeBegin, InLock, Holds, SchedTypes
  <2>2. Notified \in Labels
    BY DEF Notified, SchedTypes
  <2>. QED  BY <1>2, <2>1, <2>2 DEF ResumeBegin, SchedTypes, Idle
<1>3. CASE ResumeServers
  BY <1>3, LeaveTypes DEF ResumeServers, InLock, Holds
<1>. QED  BY <1>1, <1>2, <1>3 DEF Resume

LEMMA SchedMonitor == ASSUME SchedTypes, Monitor PROVE SchedTypes'
<1>. USE DEF Coroutines, Labels
<1>1. CASE MonitorTick
  BY <1>1, AcquireTypes DEF MonitorTick, SchedTypes
<1>2. CASE MonitorLift
  <2>1. lockQ' \in Seq(Coroutines)
    BY <1>2, TailTypes DEF MonitorLift, InLock, Holds, SchedTypes
  <2>2. Notified \in Labels
    BY DEF Notified, SchedTypes
  <2>. QED  BY <1>2, <2>1, <2>2 DEF MonitorLift, SchedTypes, Idle
<1>3. CASE MonitorCheck
  BY <1>3, LeaveTypes DEF MonitorCheck, InLock, Holds
<1>. QED  BY <1>1, <1>2, <1>3 DEF Monitor

LEMMA SchedMain == ASSUME SchedTypes, Main PROVE SchedTypes'
<1>. USE DEF Coroutines, Labels
<1>1. CASE MainFeedDone \/ MainProcDone \/ MainPutEnd
  BY <1>1 DEF MainFeedDone, MainProcDone, MainPutEnd, SchedTypes, Goto
<1>2. CASE MainCancelWorkers
  BY <1>2 DEF MainCancelWorkers, SchedTypes
<1>3. CASE MainStop
  BY <1>3, AcquireTypes DEF MainStop, SchedTypes
<1>4. CASE MainStopped
  BY <1>4, LeaveTypes DEF MainStopped, InLock, Holds
<1>. QED  BY <1>1, <1>2, <1>3, <1>4 DEF Main

(* Every step keeps the lock queue, the program counters and the processor *)
(* of the event loop typed.                                                *)
LEMMA SchedStep == ASSUME SchedTypes, [Next]_vars PROVE SchedTypes'
<1>1. CASE Feed
  BY <1>1 DEF Feed, SchedTypes, Goto, Coroutines, Labels
<1>2. ASSUME NEW s \in Samples, Task(s) PROVE SchedTypes'
  BY <1>2 DEF Task, TaskStart, TaskFinish, TaskCancelled, schedVars, SchedTypes
<1>3. CASE Consumer
  BY <1>3 DEF Consumer, ConsumerTake, ConsumerPut, SchedTypes, Goto, Idle,
              Coroutines, Labels
<1>4. CASE Train
  BY <1>4 DEF Train, TrainStart, CollectSample, CollectEnd, TrainStep,
              TrainGetVal, TrainFinal, rollVars, schedVars, SchedTypes
<1>5. CASE Synchronizer
  BY <1>5 DEF Synchronizer, SyncStart, SyncTransfer, SyncFire, Goto, rollVars,
              schedVars, SchedTypes, Coroutines, Labels
<1>6. CASE UNCHANGED vars
  BY <1>6 DEF vars, schedVars, SchedTypes
<1>. QED
  BY <1>1, <1>2, <1>3, <1>4, <1>5, <1>6, SchedProcessor, SchedMain,
     SchedMonitor, SchedPause, SchedUpdate, SchedResume
     DEF Next, RollouterStep, Terminated

-----------------------------------------------------------------------------
(* The other variables.                                                    *)

(* Whoever is about to submit or to put a sample has one.                  *)
HandsFull ==
  /\ pc["proc"] \in {"slot", "submit", "parkedSubmit", "notifiedSubmit"}
       => hand \in Samples
  /\ pc["consumer"] \in {"put", "orphan"} => chand \in Samples

LEMMA TakePendingEffect ==
  ASSUME InputTypes, TakePending
  PROVE  /\ taken' \in 1 .. Done /\ fed' = fed /\ doneBound' = doneBound
         /\ hand' \in Samples \cup {None}
         /\ taken' # Done => hand' \in Samples
BY RolloutAssumption DEF InputTypes, TakePending, Done, Samples, None

LEMMA InputProcessor ==
  ASSUME InputTypes, OutTypes, Processor PROVE InputTypes'
<1>1. CASE ProcTakeCancelled
  BY <1>1 DEF ProcTakeCancelled, InputTypes, OutTypes, inputVars
<1>2. CASE TakePending
  BY <1>2, TakePendingEffect, RolloutAssumption DEF InputTypes, Done
<1>3. CASE ProcSubmit
  BY <1>3 DEF ProcSubmit, InputTypes, inputVars
<1>4. ASSUME NEW at \in Loops, ProcReap(at) PROVE InputTypes'
  BY <1>4 DEF ProcReap, InputTypes, inputVars
<1>5. CASE UNCHANGED <<inputVars, procVars>>
  BY <1>5 DEF InputTypes, inputVars, procVars
<1>. QED
  BY <1>1, <1>2, <1>3, <1>4, <1>5
     DEF Processor, ProcPause, ProcTake, ProcAwaitPending, ProcGot,
         ProcSetPaused, ProcAwaitResume, ProcWake, ProcNothingToReap

(* Every step keeps the input side typed.                                  *)
LEMMA InputStep ==
  ASSUME InputTypes, OutTypes, [Next]_vars PROVE InputTypes'
<1>1. CASE Feed
  BY <1>1, RolloutAssumption DEF Feed, InputTypes, procVars, Done
<1>2. CASE UNCHANGED <<inputVars, procVars>>
  BY <1>2 DEF InputTypes, inputVars, procVars
<1>3. ASSUME NEW s \in Samples, Task(s) PROVE UNCHANGED <<inputVars, procVars>>
  BY <1>3 DEF Task, TaskStart, TaskFinish, TaskCancelled
<1>4. CASE Consumer \/ Main \/ Monitor
  BY <1>2, <1>4
     DEF Consumer, ConsumerTake, ConsumerPut, Main, MainFeedDone, MainProcDone,
         MainCancelWorkers, MainPutEnd, MainStop, MainStopped, Monitor,
         MonitorTick, MonitorLift, MonitorCheck
<1>5. CASE Pause \/ Update(syncVersion, syncValidate) \/ Resume
  BY <1>2, <1>5
     DEF Pause, PauseCall, PauseBegin, PauseCancel, PauseGather, PauseEnd,
         Update, UpdateCall, UpdateBegin, UpdateSize, UpdateSet, UpdateEnd,
         Resume, ResumeCall, ResumeBegin, ResumeServers
<1>6. CASE Train \/ Synchronizer
  BY <1>2, <1>6
     DEF Train, TrainStart, CollectSample, CollectEnd, TrainStep, TrainGetVal,
         TrainFinal, Synchronizer, SyncStart, SyncTransfer, SyncFire, rollVars
<1>. QED
  BY <1>1, <1>2, <1>3, <1>4, <1>5, <1>6, InputProcessor
     DEF Next, RollouterStep, Terminated, vars

(* Every step keeps the tasks typed.                                       *)
LEMMA TaskStep ==
  ASSUME TaskTypes, SchedTypes, HandsFull, [Next]_vars PROVE TaskTypes'
<1>. USE DEF TaskTypes
<1>1. CASE UNCHANGED taskVars
  BY <1>1 DEF taskVars
<1>2. CASE Processor
  <2>1. CASE ProcSubmit
    <3>1. hand \in Samples
      BY <2>1 DEF ProcSubmit, InLock, At, HandsFull
    <3>. QED  BY <2>1, <3>1 DEF ProcSubmit, taskVars
  <2>2. ASSUME NEW at \in Loops, ProcReap(at) PROVE TaskTypes'
    BY <2>2 DEF ProcReap
  <2>. QED
    BY <1>1, <1>2, <2>1, <2>2
       DEF Processor, ProcPause, ProcTakeCancelled, ProcTake, TakePending,
           ProcAwaitPending, ProcGot, ProcSetPaused, ProcAwaitResume,
           ProcWake, ProcNothingToReap
<1>3. ASSUME NEW s \in Samples, Task(s) PROVE TaskTypes'
  BY <1>3 DEF Task, TaskStart, TaskFinish, TaskCancelled
<1>4. CASE Consumer \/ Main \/ Monitor \/ Feed
  BY <1>1, <1>4
     DEF Consumer, ConsumerTake, ConsumerPut, Main, MainFeedDone, MainProcDone,
         MainCancelWorkers, MainPutEnd, MainStop, MainStopped, Monitor,
         MonitorTick, MonitorLift, MonitorCheck, Feed
<1>5. CASE Pause
  <2>1. CASE PauseCancel
    BY <2>1 DEF PauseCancel
  <2>2. CASE PauseGather
    BY <2>2 DEF PauseGather
  <2>. QED  BY <1>1, <1>5, <2>1, <2>2 DEF Pause, PauseCall, PauseBegin, PauseEnd
<1>6. CASE Update(syncVersion, syncValidate) \/ Resume
  BY <1>1, <1>6
     DEF Update, UpdateCall, UpdateBegin, UpdateSize, UpdateSet, UpdateEnd,
         Resume, ResumeCall, ResumeBegin, ResumeServers
<1>7. CASE Train \/ Synchronizer
  BY <1>1, <1>7
     DEF Train, TrainStart, CollectSample, CollectEnd, TrainStep, TrainGetVal,
         TrainFinal, Synchronizer, SyncStart, SyncTransfer, SyncFire, rollVars
<1>. QED
  BY <1>1, <1>2, <1>3, <1>4, <1>5, <1>6, <1>7
     DEF Next, RollouterStep, Terminated, vars

(* A put keeps the MessageQueue a sequence of samples and end markers.     *)
LEMMA PutTypes ==
  ASSUME OutTypes, NEW x \in Items, Channel!Put(x)
  PROVE  mq' \in Seq(Items) /\ Channel!Evicted(mq) \subseteq Items
<1>1. CASE Len(mq) >= MaxQueue
  <2>1. mq # << >>
    BY <1>1, RolloutAssumption DEF MaxQueue, OutTypes
  <2>2. Tail(mq) \in Seq(Items) /\ Head(mq) \in Items
    BY <2>1 DEF OutTypes
  <2>. QED
    BY <1>1, <2>2 DEF Channel!Put, Channel!Pushed, Channel!Evicted, Channel!Full
<1>2. CASE ~(Len(mq) >= MaxQueue)
  BY <1>2 DEF OutTypes, Channel!Put, Channel!Pushed, Channel!Evicted, Channel!Full
<1>. QED  BY <1>1, <1>2

(* Every step keeps the queues typed.                                      *)
LEMMA OutStep ==
  ASSUME OutTypes, SchedTypes, HandsFull, [Next]_vars PROVE OutTypes'
<1>1. CASE UNCHANGED <<outVars, queueVars>>
  BY <1>1 DEF OutTypes, outVars, queueVars
<1>2. CASE ProcTakeCancelled
  BY <1>2 DEF ProcTakeCancelled, OutTypes, queueVars
<1>3. ASSUME NEW s \in Samples, Task(s) PROVE OutTypes'
  <2>1. CASE TaskFinish(s)
    BY <2>1 DEF TaskFinish, OutTypes, queueVars
  <2>2. CASE TaskCancelled(s)
    BY <2>2 DEF TaskCancelled, OutTypes, queueVars
  <2>. QED  BY <1>1, <1>3, <2>1, <2>2 DEF Task, TaskStart
<1>4. CASE ConsumerTake
  BY <1>4 DEF ConsumerTake, OutTypes, queueVars
<1>5. CASE ConsumerPut
  <2>1. chand \in Items /\ Channel!Put(chand)
    BY <1>5 DEF ConsumerPut, HandsFull, Items
  <2>. QED  BY <1>5, <2>1, PutTypes DEF ConsumerPut, OutTypes
<1>6. CASE MainPutEnd
  <2>1. End \in Items /\ Channel!Put(End)
    BY <1>6 DEF MainPutEnd, Items
  <2>. QED  BY <1>6, <2>1, PutTypes DEF MainPutEnd, OutTypes, outVars
<1>7. CASE UpdateEnd(syncVersion, syncValidate)
  BY <1>7 DEF UpdateEnd, OutTypes, outVars
<1>8. CASE Train
  <2>1. CASE PopValidate /\ UNCHANGED <<mq, rollVars>>
    BY <2>1 DEF PopValidate, OutTypes, rollVars, outVars
  <2>2. CASE Channel!Take /\ UNCHANGED <<valQ, rollVars>>
    BY <2>2 DEF Channel!Take, OutTypes, rollVars, outVars
  <2>. QED
    BY <1>1, <1>8, <2>1, <2>2
       DEF Train, TrainStart, CollectSample, CollectEnd, TrainStep,
           TrainGetVal, TrainFinal, rollVars, queueVars
<1>9. CASE Synchronizer
  BY <1>1, <1>9 DEF Synchronizer, SyncStart, SyncTransfer, SyncFire, rollVars,
                    queueVars
<1>10. CASE Processor /\ ~ProcTakeCancelled
  BY <1>1, <1>10
     DEF Processor, ProcPause, ProcTake, TakePending, ProcAwaitPending,
         ProcGot, ProcSetPaused, ProcAwaitResume, ProcSubmit, ProcWake,
         ProcReap, ProcNothingToReap
<1>11. CASE Feed \/ Monitor \/ (Main /\ ~MainPutEnd)
  BY <1>1, <1>11
     DEF Feed, Main, MainFeedDone, MainProcDone, MainCancelWorkers, MainStop,
         MainStopped, Monitor, MonitorTick, MonitorLift, MonitorCheck
<1>12. CASE Pause \/ Resume
  BY <1>1, <1>12
     DEF Pause, PauseCall, PauseBegin, PauseCancel, PauseGather, PauseEnd,
         Resume, ResumeCall, ResumeBegin, ResumeServers
<1>13. CASE Update(syncVersion, syncValidate)
  BY <1>1, <1>7, <1>13
     DEF Update, UpdateCall, UpdateBegin, UpdateSize, UpdateSet
<1>. QED
  BY <1>1, <1>2, <1>3, <1>4, <1>5, <1>6, <1>8, <1>9, <1>10, <1>11, <1>12, <1>13
     DEF Next, RollouterStep, Consumer, Terminated, vars

(* Every step keeps the flags, versions and counters typed.                *)
LEMMA FlagStep ==
  ASSUME FlagTypes, TaskTypes, OutTypes, TrainTypes, [Next]_vars
  PROVE  FlagTypes'
<1>. USE DEF FlagTypes
<1>1. CASE UNCHANGED <<flagVars, freshVars, stampVars>>
  BY <1>1 DEF flagVars, freshVars, stampVars
<1>2. CASE Processor
  <2>1. CASE TakePending
    BY <2>1 DEF TakePending, flagVars, stampVars
  <2>2. CASE ProcSetPaused
    BY <2>2 DEF ProcSetPaused, freshVars, stampVars
  <2>. QED
    BY <1>1, <1>2, <2>1, <2>2
       DEF Processor, ProcPause, ProcTakeCancelled, ProcTake, ProcAwaitPending,
           ProcGot, ProcAwaitResume, ProcSubmit, ProcWake, ProcReap,
           ProcNothingToReap
<1>3. ASSUME NEW s \in Samples, Task(s) PROVE FlagTypes'
  BY <1>3 DEF Task, TaskStart, TaskFinish, TaskCancelled, flagVars, freshVars,
              stampVars
<1>4. CASE Feed \/ Consumer
  BY <1>1, <1>4 DEF Feed, Consumer, ConsumerTake, ConsumerPut
<1>5. CASE Main
  <2>1. CASE MainStopped
    BY <2>1 DEF MainStopped, freshVars, stampVars
  <2>. QED
    BY <1>1, <1>5, <2>1 DEF Main, MainFeedDone, MainProcDone,
                            MainCancelWorkers, MainPutEnd, MainStop
<1>6. CASE Monitor
  <2>1. CASE MonitorLift
    BY <2>1 DEF MonitorLift, freshVars, stampVars
  <2>. QED  BY <1>1, <1>6, <2>1 DEF Monitor, MonitorTick, MonitorCheck
<1>7. CASE Pause
  BY <1>7 DEF Pause, PauseCall, PauseBegin, PauseCancel, PauseGather, PauseEnd,
              flagVars, freshVars, stampVars
<1>8. CASE Update(syncVersion, syncValidate)
  <2>1. CASE UpdateBegin(syncVersion)
    <3>1. IsFiniteSet(Samples)
      BY FS_Interval, RolloutAssumption DEF Samples
    <3>2. Cardinality(active) \in Nat
      BY <3>1, FS_Subset, FS_CardinalityType DEF TaskTypes
    <3>3. Len(resultQ) \in Nat /\ Len(cancelQ) \in Nat
      BY DEF OutTypes
    <3>4. count' \in Nat
      BY <2>1, <3>2, <3>3 DEF UpdateBegin
    <3>5. version' \in Nat
      BY <2>1 DEF UpdateBegin, TrainTypes
    <3>. QED  BY <2>1, <3>4, <3>5 DEF UpdateBegin, flagVars, stampVars
  <2>2. CASE UpdateSize
    <3>1. count' \in Nat
      BY <2>2 DEF UpdateSize, OutTypes
    <3>. QED  BY <2>2, <3>1 DEF UpdateSize, flagVars, stampVars
  <2>3. CASE UpdateSet(syncVersion, syncValidate)
    BY <2>3 DEF UpdateSet, flagVars, stampVars
  <2>. QED  BY <1>1, <1>8, <2>1, <2>2, <2>3 DEF Update, UpdateCall, UpdateEnd
<1>9. CASE Resume
  BY <1>9 DEF Resume, ResumeCall, ResumeBegin, ResumeServers, flagVars,
              freshVars, stampVars
<1>10. CASE Train \/ Synchronizer
  BY <1>1, <1>10
     DEF Train, TrainStart, CollectSample, CollectEnd, TrainStep, TrainGetVal,
         TrainFinal, Synchronizer, SyncStart, SyncTransfer, SyncFire, rollVars
<1>. QED
  BY <1>1, <1>2, <1>3, <1>4, <1>5, <1>6, <1>7, <1>8, <1>9, <1>10
     DEF Next, RollouterStep, Terminated, vars

(* Every step keeps the Trainer and the synchroniser typed.                *)
LEMMA TrainStepTypes ==
  ASSUME TrainTypes, OutTypes, [Next]_vars PROVE TrainTypes'
<1>. USE DEF TrainTypes
<1>1. CASE UNCHANGED <<trainVars, syncVars>>
  BY <1>1 DEF trainVars, syncVars
<1>2. valQ # << >> => Head(valQ) \in {"metrics", "plain"}
  BY DEF OutTypes
<1>3. CASE TrainStart \/ TrainGetVal \/ TrainFinal
  BY <1>2, <1>3 DEF TrainStart, TrainGetVal, TrainFinal, PopValidate, syncVars
<1>4. CASE CollectSample
  <2>1. Head(mq) \in Samples
    BY <1>4 DEF CollectSample, Channel!Take, OutTypes, Items
  <2>. QED  BY <1>4, <2>1 DEF CollectSample, syncVars
<1>5. CASE CollectEnd
  BY <1>5, TrainerAssumption DEF CollectEnd, syncVars
<1>6. CASE TrainStep
  BY <1>6, TrainerAssumption DEF TrainStep, syncVars
<1>7. CASE Synchronizer
  BY <1>7 DEF Synchronizer, SyncStart, SyncTransfer, SyncFire, trainVars
<1>. QED
  BY <1>1, <1>3, <1>4, <1>5, <1>6, <1>7 DEF Next, Train, Terminated, vars

(* A step of one coroutine leaves the program counters of the others alone.*)
LEMMA OnlyMoves ==
  ASSUME SchedTypes, NEW c \in Coroutines, NEW l, NEW q,
         Acquire(c, q, l) \/ AcquireAndWait(c, q, l) \/ Leave(c, l) \/ Goto(c, l)
  PROVE  /\ pc'[c] = l
         /\ \A d \in Coroutines \ {c} : pc'[d] = pc[d]
BY DEF SchedTypes, Acquire, AcquireAndWait, Leave, Goto

Carrying == {"slot", "submit", "parkedSubmit", "notifiedSubmit"}

LEMMA AwaitSlotMoves ==
  ASSUME SchedTypes, NEW q, NEW rem, AwaitSlot(q, rem)
  PROVE  /\ pc'["proc"] \in {"slot", "submit"}
         /\ pc'["consumer"] = pc["consumer"]
BY OnlyMoves DEF AwaitSlot, Coroutines

LEMMA AfterReapMoves ==
  ASSUME SchedTypes, NEW at \in Loops, NEW q, NEW rem, AfterReap(at, q, rem)
  PROVE  /\ pc'["proc"] \in Carrying => at = "slot"
         /\ pc'["consumer"] = pc["consumer"]
<1>1. CASE at = "slot"
  BY <1>1, AwaitSlotMoves DEF AfterReap
<1>2. CASE at # "slot"
  BY <1>2, OnlyMoves DEF AfterReap, Coroutines, Loops, Carrying
<1>. QED  BY <1>1, <1>2

(* The processor may go anywhere without a sample but to where it needs one.*)
LEMMA HandsMove ==
  ASSUME SchedTypes, HandsFull, NEW l, Goto("proc", l), UNCHANGED chand,
         l \in Carrying => hand' \in Samples
  PROVE  HandsFull'
BY DEF HandsFull, Carrying, SchedTypes, Coroutines, Goto

LEMMA HandsProcessor ==
  ASSUME SchedTypes, InputTypes, OutTypes, HandsFull, Processor
  PROVE  HandsFull'
<1>. USE DEF Carrying, procVars, outVars, Acquire, AcquireAndWait, Leave
<1>1. CASE ProcPause
  BY <1>1, HandsMove DEF ProcPause
<1>2. CASE ProcTakeCancelled
  BY <1>2, AwaitSlotMoves DEF ProcTakeCancelled, OutTypes, HandsFull
<1>3. CASE TakePending
  <2>1. CASE taken' # Done
    BY <1>3, <2>1, AwaitSlotMoves, TakePendingEffect DEF TakePending, HandsFull
  <2>2. CASE taken' = Done
    BY <1>3, <2>2, HandsMove DEF TakePending
  <2>. QED  BY <2>1, <2>2
<1>4. CASE ProcAwaitPending
  BY <1>4, HandsMove DEF ProcAwaitPending
<1>5. CASE ProcSetPaused
  BY <1>5, HandsMove DEF ProcSetPaused
<1>6. CASE ProcAwaitResume
  BY <1>6, HandsMove DEF ProcAwaitResume
<1>7. CASE ProcSubmit
  <2>1. hand \in Samples
    BY <1>7 DEF ProcSubmit, InLock, At, HandsFull
  <2>2. CASE paused
    BY <1>7, <2>1, <2>2, HandsMove DEF ProcSubmit
  <2>3. CASE ~paused
    BY <1>7, <2>3, HandsMove DEF ProcSubmit
  <2>. QED  BY <2>2, <2>3
<1>8. CASE ProcWake
  <2>1. CASE pc["proc"] = "notified"
    BY <1>8, <2>1, HandsMove DEF ProcWake
  <2>2. CASE pc["proc"] = "notifiedSubmit"
    BY <1>8, <2>2, HandsMove DEF ProcWake, HandsFull
  <2>. QED  BY <1>8, <2>1, <2>2 DEF ProcWake
<1>9. ASSUME NEW at \in Loops, ProcReap(at) \/ ProcNothingToReap(at)
      PROVE  HandsFull'
  <2>1. hand' = hand /\ chand' = chand /\ pc["proc"] = at
    BY <1>9 DEF ProcReap, ProcNothingToReap, InLock, At
  <2>2. ASSUME NEW rem, AfterReap(at, Tail(lockQ), rem) PROVE HandsFull'
    BY <2>1, <2>2, AfterReapMoves DEF HandsFull
  <2>3. CASE Leave("proc", "failed")
    BY <2>1, <2>3, HandsMove
  <2>. QED  BY <1>9, <2>2, <2>3 DEF ProcReap, ProcNothingToReap
<1>. QED
  BY <1>1, <1>2, <1>3, <1>4, <1>5, <1>6, <1>7, <1>8, <1>9
     DEF Processor, ProcTake, ProcGot

LEMMA HandsStep ==
  ASSUME SchedTypes, InputTypes, OutTypes, HandsFull, [Next]_vars
  PROVE  HandsFull'
<1>1. ASSUME UNCHANGED <<hand, chand>>,
             pc'["proc"] \in {pc["proc"], Notified},
             pc'["consumer"] = pc["consumer"]
      PROVE  HandsFull'
  BY <1>1 DEF HandsFull, Notified
<1>2. CASE Feed
  BY <1>1, <1>2 DEF Feed, Goto, SchedTypes, Coroutines, procVars, outVars
<1>3. ASSUME NEW s \in Samples, Task(s) PROVE HandsFull'
  BY <1>1, <1>3 DEF Task, TaskStart, TaskFinish, TaskCancelled, schedVars,
                    procVars, outVars
<1>4. CASE ConsumerTake
  BY <1>4 DEF ConsumerTake, Goto, SchedTypes, Coroutines, OutTypes, procVars,
              HandsFull
<1>5. CASE ConsumerPut
  BY <1>5 DEF ConsumerPut, Goto, SchedTypes, Coroutines, procVars, HandsFull
<1>6. CASE Main
  <2>1. CASE MainCancelWorkers
    BY <2>1 DEF MainCancelWorkers, SchedTypes, Coroutines, procVars, outVars,
                HandsFull
  <2>. QED
    BY <1>1, <1>6, <2>1
       DEF Main, MainFeedDone, MainProcDone, MainPutEnd, MainStop, MainStopped,
           Acquire, Leave, Goto, SchedTypes, Coroutines, procVars, outVars
<1>7. CASE Monitor
  BY <1>1, <1>7
     DEF Monitor, MonitorTick, MonitorLift, MonitorCheck, Acquire, Leave, Goto,
         SchedTypes, Coroutines, procVars, outVars
<1>8. CASE Pause
  BY <1>1, <1>8
     DEF Pause, PauseCall, PauseBegin, PauseCancel, PauseGather, PauseEnd,
         Acquire, Leave, Goto, SchedTypes, Coroutines, procVars, outVars
<1>9. CASE Update(syncVersion, syncValidate)
  BY <1>1, <1>9
     DEF Update, UpdateCall, UpdateBegin, UpdateSize, UpdateSet, UpdateEnd,
         Acquire, Leave, Goto, SchedTypes, Coroutines, procVars, outVars
<1>10. CASE Resume
  BY <1>1, <1>10
     DEF Resume, ResumeCall, ResumeBegin, ResumeServers,
         Acquire, Leave, Goto, SchedTypes, Coroutines, procVars, outVars
<1>11. CASE Train
  BY <1>1, <1>11
     DEF Train, TrainStart, CollectSample, CollectEnd, TrainStep, TrainGetVal,
         TrainFinal, rollVars, schedVars, procVars, outVars
<1>12. CASE Synchronizer
  BY <1>1, <1>12
     DEF Synchronizer, SyncStart, SyncTransfer, SyncFire, rollVars, schedVars,
         procVars, outVars, Goto, SchedTypes, Coroutines
<1>13. CASE UNCHANGED vars
  BY <1>1, <1>13 DEF vars, schedVars, procVars, outVars
<1>. QED
  BY <1>2, <1>3, <1>4, <1>5, <1>6, <1>7, <1>8, <1>9, <1>10, <1>11, <1>12,
     <1>13, HandsProcessor
     DEF Next, RollouterStep, Consumer, Terminated

-----------------------------------------------------------------------------

LEMMA InitTypes == Init => TypeOK /\ HandsFull
<1>. SUFFICES ASSUME Init PROVE TypeOK /\ HandsFull
  OBVIOUS
<1>. USE RolloutAssumption, TrainerAssumption DEF Init, RollInit, TrainerInit
<1>1. SchedTypes
  <2>1. pc \in [Coroutines -> Labels]
    <3>1. /\ "put" \in Labels /\ "check" \in Labels /\ "get" \in Labels
          /\ "awaitFeed" \in Labels /\ "sleep" \in Labels
          /\ "returned" \in Labels
      BY DEF Labels
    <3>. QED  BY <3>1 DEF Coroutines
  <2>2. cpu \in Coroutines \cup {Idle} /\ lockQ \in Seq(Coroutines)
    OBVIOUS
  <2>. QED  BY <2>1, <2>2 DEF SchedTypes
<1>2. InputTypes
  <2>1. fed = 0 /\ taken = 0 /\ hand = None /\ doneBound = FALSE
    OBVIOUS
  <2>2. 0 \in 0 .. Done
    BY DEF Done
  <2>. HIDE DEF Init, RollInit, TrainerInit
  <2>. QED  BY <2>1, <2>2 DEF InputTypes
<1>2a. TaskTypes
  BY DEF TaskTypes
<1>3. OutTypes
  <2>1. valQ \in Seq({"metrics", "plain"})
    <3>1. CASE ValBefore = TRUE   BY <3>1
    <3>2. CASE ValBefore = FALSE  BY <3>2
    <3>. QED  BY <3>1, <3>2
  <2>. QED  BY <2>1 DEF OutTypes, None
<1>4. FlagTypes
  <2>1. startV \in [Samples -> Int] /\ endV \in [Samples -> Int]
    OBVIOUS
  <2>. QED  BY <2>1 DEF FlagTypes
<1>5. TrainTypes
  BY DEF TrainTypes
<1>6. HandsFull
  BY DEF HandsFull, Coroutines
<1>. QED  BY <1>1, <1>2, <1>2a, <1>3, <1>4, <1>5, <1>6 DEF TypeOK

(* The variables of the whole system keep their types, and a coroutine     *)
(* that is about to submit or to put a sample holds one: what the next     *)
(* theorems assume of every state.                                         *)
THEOREM SpecTypes == SafetySpec => [](TypeOK /\ HandsFull)
<1>1. TypeOK /\ HandsFull /\ [Next]_vars => (TypeOK /\ HandsFull)'
  BY SchedStep, InputStep, TaskStep, OutStep, FlagStep, TrainStepTypes, HandsStep
     DEF TypeOK
<1>. QED  BY <1>1, InitTypes, PTL DEF SafetySpec

(* The type invariant of the running system (fully_async_rollouter.py,     *)
(* fully_async_trainer.py), for every configuration of it.                 *)
THEOREM SpecTypeOK == SafetySpec => []TypeOK
BY SpecTypes, PTL

-----------------------------------------------------------------------------
(* What every state satisfies already.                                     *)
Base == TypeOK /\ HandsFull

-----------------------------------------------------------------------------
(* The tasks.                                                              *)

(* The steps that touch active_tasks or the state of a task.               *)
LEMMA TaskEffects ==
  ASSUME [Next]_vars
  PROVE  \/ UNCHANGED taskVars
         \/ ProcSubmit \/ (\E at \in Loops : ProcReap(at))
         \/ (\E s \in Samples : Task(s)) \/ PauseCancel \/ PauseGather
<1>1. CASE Processor
  BY <1>1
     DEF Processor, ProcPause, ProcTakeCancelled, ProcTake, TakePending,
         ProcAwaitPending, ProcGot, ProcSetPaused, ProcAwaitResume,
         ProcWake, ProcNothingToReap
<1>2. CASE Consumer \/ Main \/ Monitor \/ Feed
  BY <1>2
     DEF Consumer, ConsumerTake, ConsumerPut, Main, MainFeedDone, MainProcDone,
         MainCancelWorkers, MainPutEnd, MainStop, MainStopped, Monitor,
         MonitorTick, MonitorLift, MonitorCheck, Feed
<1>3. CASE Pause
  BY <1>3 DEF Pause, PauseCall, PauseBegin, PauseEnd
<1>4. CASE Update(syncVersion, syncValidate) \/ Resume
  BY <1>4
     DEF Update, UpdateCall, UpdateBegin, UpdateSize, UpdateSet, UpdateEnd,
         Resume, ResumeCall, ResumeBegin, ResumeServers
<1>5. CASE Train \/ Synchronizer
  BY <1>5
     DEF Train, TrainStart, CollectSample, CollectEnd, TrainStep, TrainGetVal,
         TrainFinal, Synchronizer, SyncStart, SyncTransfer, SyncFire, rollVars
<1>6. CASE UNCHANGED vars
  BY <1>6 DEF vars
<1>. QED
  BY <1>1, <1>2, <1>3, <1>4, <1>5, <1>6 DEF Next, RollouterStep, Terminated

(* The step of one task changes no other task and not active_tasks.        *)
LEMMA TaskEffect ==
  ASSUME TaskTypes, NEW s \in Samples, Task(s)
  PROVE  /\ active' = active /\ DOMAIN task' = Samples
         /\ s \in InFlight
         /\ \A t \in Samples \ {s} : task'[t] = task[t]
         /\ \/ task[s] = "created" /\ task'[s] = "running"
            \/ task'[s] = "finished"
BY DEF Task, TaskStart, TaskFinish, TaskCancelled, TaskTypes, InFlight

LEMMA ActiveCoversStep ==
  ASSUME Base, ActiveCovers, [Next]_vars PROVE ActiveCovers'
<1>. USE DEF ActiveCovers, InFlight
<1>. TaskTypes
  BY DEF Base, TypeOK
<1>1. CASE UNCHANGED taskVars
  BY <1>1 DEF taskVars
<1>2. CASE ProcSubmit
  <2>1. hand \in Samples
    BY <1>2 DEF ProcSubmit, InLock, At, Base, HandsFull
  <2>. QED  BY <1>2, <2>1 DEF ProcSubmit, taskVars, TaskTypes
<1>3. ASSUME NEW at \in Loops, ProcReap(at) PROVE ActiveCovers'
  BY <1>3 DEF ProcReap
<1>4. ASSUME NEW s \in Samples, Task(s) PROVE ActiveCovers'
  BY <1>4, TaskEffect
<1>5. CASE PauseCancel
  BY <1>5 DEF PauseCancel, TaskTypes
<1>6. CASE PauseGather
  BY <1>6 DEF PauseGather
<1>. QED  BY <1>1, <1>2, <1>3, <1>4, <1>5, <1>6, TaskEffects

(* active_tasks names every generation that is going on, so what pause()   *)
(* gathers (fully_async_rollouter.py:604-606) is all there is.             *)
THEOREM SpecActiveCovers == SafetySpec => []ActiveCovers
<1>1. Init => ActiveCovers
  BY DEF Init, RollInit, ActiveCovers, InFlight
<1>2. Base /\ ActiveCovers /\ [Next]_vars => ActiveCovers'
  BY ActiveCoversStep
<1>. QED  BY <1>1, <1>2, SpecTypes, PTL DEF SafetySpec, Base

-----------------------------------------------------------------------------
(* The concurrency limit.                                                  *)

(* A processor that is about to submit leaves room for one more task.      *)
SlotsLeft == pc["proc"] \in {"submit", "parkedSubmit", "notifiedSubmit"}
               => Cardinality(active) < MaxConcurrent

LEMMA SamplesFinite ==
  ASSUME NEW S \in SUBSET Samples
  PROVE  IsFiniteSet(S) /\ Cardinality(S) \in Nat
<1>1. IsFiniteSet(Samples)
  BY RolloutAssumption, FS_Interval DEF Samples
<1>. QED  BY <1>1, FS_Subset, FS_CardinalityType

LEMMA AwaitSlotLimit ==
  ASSUME SchedTypes, NEW q, NEW rem, Cardinality(rem) \in Nat, AwaitSlot(q, rem)
  PROVE  /\ pc'["proc"] \in {"slot", "submit"}
         /\ pc'["proc"] = "submit" => Cardinality(rem) < MaxConcurrent
<1>1. CASE Cardinality(rem) >= MaxConcurrent
  BY <1>1, OnlyMoves DEF AwaitSlot, Coroutines
<1>2. CASE ~(Cardinality(rem) >= MaxConcurrent)
  BY <1>2, RolloutAssumption, OnlyMoves DEF AwaitSlot, Coroutines
<1>. QED  BY <1>1, <1>2

Limits == SlotsLeft /\ ConcurrencyBound

(* The limits hold after the processor moved to a place that needs no slot *)
(* while active_tasks did not grow.                                        *)
LEMMA LimitsMove ==
  ASSUME TaskTypes, TaskTypes', Limits, active' \subseteq active,
         pc'["proc"] \in {"submit", "parkedSubmit", "notifiedSubmit"}
           => SlotsLeft' \/ pc["proc"] \in {"submit", "parkedSubmit", "notifiedSubmit"}
  PROVE  Limits'
<1>1. Cardinality(active') <= Cardinality(active)
  BY SamplesFinite, FS_Subset DEF TaskTypes
<1>2. Cardinality(active) \in Nat /\ Cardinality(active') \in Nat
  BY SamplesFinite DEF TaskTypes
<1>. QED
  BY <1>1, <1>2, RolloutAssumption DEF Limits, SlotsLeft, ConcurrencyBound

LEMMA LimitsProcessor ==
  ASSUME SchedTypes, TaskTypes, TaskTypes', Limits, Processor
  PROVE  Limits'
<1>. USE DEF taskVars
<1>1. Cardinality(active) \in Nat /\ Cardinality(active') \in Nat
  BY SamplesFinite DEF TaskTypes
<1>2. CASE ProcPause
  BY <1>2, OnlyMoves, LimitsMove DEF ProcPause, Coroutines
<1>3. CASE ProcTakeCancelled
  BY <1>1, <1>3, AwaitSlotLimit, LimitsMove DEF ProcTakeCancelled, SlotsLeft
<1>4. CASE TakePending
  <2>1. CASE taken' # Done
    BY <1>1, <1>4, <2>1, AwaitSlotLimit, LimitsMove DEF TakePending, SlotsLeft
  <2>2. CASE taken' = Done
    <3>1. pc'["proc"] \in {"lastTasks", "finished"}
      BY <1>4, <2>2, OnlyMoves DEF TakePending, Coroutines
    <3>. QED  BY <1>4, <3>1, LimitsMove DEF TakePending
  <2>. QED  BY <2>1, <2>2
<1>5. CASE ProcAwaitPending \/ ProcSetPaused \/ ProcAwaitResume
  <2>1. pc'["proc"] \in {"get", "drain", "awaitResume", "parked", "check"}
    BY <1>5, OnlyMoves
       DEF ProcAwaitPending, ProcSetPaused, ProcAwaitResume, Coroutines
  <2>. QED
    BY <1>5, <2>1, LimitsMove
       DEF ProcAwaitPending, ProcSetPaused, ProcAwaitResume
<1>6. CASE ProcSubmit
  <2>1. pc["proc"] = "submit" /\ Cardinality(active) < MaxConcurrent
    BY <1>6 DEF ProcSubmit, InLock, At, Limits, SlotsLeft
  <2>2. CASE paused
    BY <1>6, <2>1, <2>2, LimitsMove DEF ProcSubmit
  <2>3. CASE ~paused
    <3>1. active' = active \cup {hand} /\ pc'["proc"] = "check"
      BY <1>6, <2>3, OnlyMoves DEF ProcSubmit, Coroutines
    <3>2. Cardinality(active') <= Cardinality(active) + 1
      BY <3>1, <1>1, SamplesFinite, FS_AddElement DEF TaskTypes
    <3>. QED
      BY <1>1, <2>1, <3>1, <3>2, RolloutAssumption
         DEF Limits, SlotsLeft, ConcurrencyBound
  <2>. QED  BY <2>2, <2>3
<1>7. CASE ProcWake
  BY <1>7, OnlyMoves, LimitsMove DEF ProcWake, Coroutines
<1>8. ASSUME NEW at \in Loops, ProcReap(at) \/ ProcNothingToReap(at)
      PROVE  Limits'
  <2>1. active' \subseteq active
    BY <1>8 DEF ProcReap, ProcNothingToReap
  <2>2. ASSUME AfterReap(at, Tail(lockQ), active') PROVE Limits'
    <3>1. CASE at = "slot"
      BY <1>1, <2>1, <2>2, <3>1, AwaitSlotLimit, LimitsMove
         DEF AfterReap, SlotsLeft
    <3>2. CASE at # "slot"
      <4>1. pc'["proc"] \in {"drain", "lastTasks", "awaitResume", "finished"}
        BY <2>2, <3>2, OnlyMoves DEF AfterReap, Coroutines, Loops
      <4>. QED  BY <2>1, <4>1, LimitsMove
    <3>. QED  BY <3>1, <3>2
  <2>3. ASSUME Leave("proc", "failed") PROVE Limits'
    BY <2>1, <2>3, OnlyMoves, LimitsMove DEF Coroutines
  <2>. QED
    BY <1>8, <2>2, <2>3 DEF ProcReap, ProcNothingToReap
<1>. QED
  BY <1>2, <1>3, <1>4, <1>5, <1>6, <1>7, <1>8 DEF Processor, ProcTake, ProcGot

LEMMA LimitsStep ==
  ASSUME Base, Base', Limits, [Next]_vars PROVE Limits'
<1>. SchedTypes /\ TaskTypes /\ TaskTypes'
  BY DEF Base, TypeOK
<1>1. ASSUME active' \subseteq active, pc'["proc"] \in {pc["proc"], Notified}
      PROVE  Limits'
  BY <1>1, LimitsMove DEF Notified
<1>2. CASE Processor
  BY <1>2, LimitsProcessor
<1>3. ASSUME NEW s \in Samples, Task(s) PROVE Limits'
  BY <1>1, <1>3, TaskEffect DEF Task, TaskStart, TaskFinish, TaskCancelled, schedVars
<1>4. CASE Consumer \/ Feed
  BY <1>1, <1>4, OnlyMoves
     DEF Consumer, ConsumerTake, ConsumerPut, Feed, taskVars, Coroutines
<1>5. CASE Main
  BY <1>1, <1>5, OnlyMoves
     DEF Main, MainFeedDone, MainProcDone, MainCancelWorkers, MainPutEnd,
         MainStop, MainStopped, taskVars, Coroutines, SchedTypes
<1>6. CASE Monitor
  BY <1>1, <1>6, OnlyMoves
     DEF Monitor, MonitorTick, MonitorLift, MonitorCheck, taskVars, Coroutines,
         SchedTypes
<1>7. CASE Pause
  BY <1>1, <1>7, OnlyMoves
     DEF Pause, PauseCall, PauseBegin, PauseCancel, PauseGather, PauseEnd,
         taskVars, Coroutines
<1>8. CASE Update(syncVersion, syncValidate)
  BY <1>1, <1>8, OnlyMoves
     DEF Update, UpdateCall, UpdateBegin, UpdateSize, UpdateSet, UpdateEnd,
         taskVars, Coroutines
<1>9. CASE Resume
  BY <1>1, <1>9, OnlyMoves
     DEF Resume, ResumeCall, ResumeBegin, ResumeServers, taskVars, Coroutines,
         SchedTypes
<1>10. CASE Train \/ Synchronizer
  BY <1>1, <1>10, OnlyMoves
     DEF Train, TrainStart, CollectSample, CollectEnd, TrainStep, TrainGetVal,
         TrainFinal, Synchronizer, SyncStart, SyncTransfer, SyncFire, rollVars,
         schedVars, taskVars, Coroutines, SchedTypes
<1>11. CASE UNCHANGED vars
  BY <1>1, <1>11 DEF vars, schedVars, taskVars
<1>. QED
  BY <1>2, <1>3, <1>4, <1>5, <1>6, <1>7, <1>8, <1>9, <1>10, <1>11
     DEF Next, RollouterStep, Terminated

(* At most max_concurrent_samples tasks at a time, although the processor  *)
(* tests the limit, gives the event loop away and submits later            *)
(* (fully_async_rollouter.py:383-402).                                     *)
THEOREM SpecConcurrencyBound == SafetySpec => []ConcurrencyBound
<1>1. Init => Limits
  BY RolloutAssumption, FS_EmptySet
     DEF Init, RollInit, Limits, SlotsLeft, ConcurrencyBound
<1>2. Base /\ Base' /\ Limits /\ [Next]_vars => Limits'
  BY LimitsStep
<1>3. SafetySpec => []Limits
  BY <1>1, <1>2, SpecTypes, PTL DEF SafetySpec, Base
<1>4. Limits => ConcurrencyBound
  BY DEF Limits
<1>. QED  BY <1>3, <1>4, PTL

-----------------------------------------------------------------------------
(* The lock.                                                               *)

(* A call that has yielded inside its `async with self.lock` holds it.     *)
LockDiscipline ==
  /\ pc["pause"] \in {"cancel", "gather", "resetCache"} => Holds("pause")
  /\ pc["update"] \in {"askSize", "set", "putValidate"} => Holds("update")
  /\ pc["resume"] = "resumeServers" => Holds("resume")

Calls == {"pause", "update", "resume"}

(* Joining the queue of the lock does not take it from its holder.         *)
LEMMA QueueKeepsHolder ==
  ASSUME lockQ \in Seq(Coroutines), NEW c, Holds(c),
         \/ UNCHANGED lockQ
         \/ \E d \in Coroutines : lockQ' = Append(lockQ, d)
  PROVE  Holds(c)'
BY DEF Holds

LEMMA OneHolder ==
  ASSUME NEW c, NEW d, Holds(c), Holds(d) PROVE c = d
BY DEF Holds

(* Only its holder can give up the lock.                                   *)
LEMMA ProcessorLock ==
  ASSUME SchedTypes, Processor, NEW c \in Calls
  PROVE  pc'[c] = pc[c] /\ (Holds(c) => Holds(c)')
<1>. "proc" \in Coroutines /\ c \in Coroutines \ {"proc"} /\ c # "proc"
  BY DEF Coroutines, Calls
<1>. lockQ \in Seq(Coroutines)
  BY DEF SchedTypes
<1>1. CASE InLock("proc", pc["proc"])
  <2>1. ~Holds(c)
    BY <1>1, OneHolder DEF InLock
  <2>2. ASSUME NEW at \in Loops, NEW rem, AfterReap(at, Tail(lockQ), rem)
        PROVE  pc'[c] = pc[c]
    BY <2>2, OnlyMoves DEF AfterReap, AwaitSlot
  <2>. QED
    BY <1>1, <2>1, <2>2, OnlyMoves
       DEF Processor, ProcPause, ProcTakeCancelled, ProcTake, TakePending,
           ProcAwaitPending, ProcGot, ProcSetPaused, ProcAwaitResume,
           ProcSubmit, ProcWake, ProcReap, ProcNothingToReap, AwaitSlot
<1>2. CASE ~InLock("proc", pc["proc"])
  <2>1. \/ UNCHANGED lockQ
        \/ lockQ' = Append(lockQ, "proc")
    BY <1>2
       DEF Processor, ProcPause, ProcTakeCancelled, ProcTake, TakePending,
           ProcAwaitPending, ProcGot, ProcSetPaused, ProcAwaitResume,
           ProcSubmit, ProcWake, ProcReap, ProcNothingToReap, AwaitSlot,
           Acquire, AcquireAndWait, InLock, At
  <2>2. pc'[c] = pc[c]
    BY <1>2, OnlyMoves
       DEF Processor, ProcPause, ProcTakeCancelled, ProcTake, TakePending,
           ProcAwaitPending, ProcGot, ProcSetPaused, ProcAwaitResume,
           ProcSubmit, ProcWake, ProcReap, ProcNothingToReap, AwaitSlot,
           InLock, At
  <2>. QED  BY <2>1, <2>2, QueueKeepsHolder
<1>. QED  BY <1>1, <1>2

LEMMA LockStep ==
  ASSUME SchedTypes, LockDiscipline, [Next]_vars PROVE LockDiscipline'
<1>. lockQ \in Seq(Coroutines)
  BY DEF SchedTypes
<1>1. ASSUME \A c \in Calls : pc'[c] = pc[c] /\ (Holds(c) => Holds(c)')
      PROVE  LockDiscipline'
  BY <1>1 DEF LockDiscipline, Calls
<1>2. ASSUME \A c \in Calls : pc'[c] = pc[c],
             \/ UNCHANGED lockQ
             \/ \E d \in Coroutines : lockQ' = Append(lockQ, d)
             \/ \E d \in Coroutines \ Calls : Holds(d)
      PROVE  LockDiscipline'
  BY <1>1, <1>2, QueueKeepsHolder, OneHolder
<1>3. CASE Processor
  BY <1>1, <1>3, ProcessorLock
<1>4. CASE Feed \/ Consumer
  BY <1>2, <1>4, OnlyMoves DEF Feed, Consumer, ConsumerTake, ConsumerPut,
     Coroutines, Calls
<1>5. CASE Main
  BY <1>2, <1>5, OnlyMoves
     DEF Main, MainFeedDone, MainProcDone, MainCancelWorkers, MainPutEnd,
         MainStop, MainStopped, Coroutines, Calls, SchedTypes, Acquire, InLock
<1>6. CASE Monitor
  BY <1>2, <1>6, OnlyMoves
     DEF Monitor, MonitorTick, MonitorLift, MonitorCheck, Coroutines, Calls,
         SchedTypes, Acquire, InLock
<1>7. ASSUME NEW s \in Samples, Task(s) PROVE LockDiscipline'
  BY <1>2, <1>7 DEF Task, TaskStart, TaskFinish, TaskCancelled, schedVars
<1>8. CASE Pause
  <2>1. "pause" \in Coroutines /\ \A c \in Calls \ {"pause"} : c \in Coroutines \ {"pause"}
    BY DEF Coroutines, Calls
  <2>2. \A c \in Calls \ {"pause"} : pc'[c] = pc[c]
    BY <1>8, <2>1, OnlyMoves
       DEF Pause, PauseCall, PauseBegin, PauseCancel, PauseGather, PauseEnd
  <2>3. CASE PauseCall
    <3>1. pc'["pause"] = "begin" /\ \E d \in Coroutines : lockQ' = Append(lockQ, d)
      BY <2>1, <2>3, OnlyMoves DEF PauseCall, Acquire
    <3>. QED  BY <2>2, <3>1, QueueKeepsHolder DEF LockDiscipline, Calls
  <2>4. CASE PauseBegin \/ PauseCancel \/ PauseGather
    BY <2>2, <2>4, QueueKeepsHolder
       DEF PauseBegin, PauseCancel, PauseGather, LockDiscipline, Calls, InLock, At
  <2>5. CASE PauseEnd
    <3>1. Holds("pause") /\ pc'["pause"] = "returned"
      BY <2>1, <2>5, OnlyMoves DEF PauseEnd, InLock
    <3>. QED  BY <2>2, <3>1, OneHolder DEF LockDiscipline, Calls
  <2>. QED  BY <1>8, <2>3, <2>4, <2>5 DEF Pause
<1>9. CASE Update(syncVersion, syncValidate)
  <2>1. "update" \in Coroutines /\ \A c \in Calls \ {"update"} : c \in Coroutines \ {"update"}
    BY DEF Coroutines, Calls
  <2>2. \A c \in Calls \ {"update"} : pc'[c] = pc[c]
    BY <1>9, <2>1, OnlyMoves
       DEF Update, UpdateCall, UpdateBegin, UpdateSize, UpdateSet, UpdateEnd
  <2>3. CASE UpdateCall
    <3>1. pc'["update"] = "begin" /\ \E d \in Coroutines : lockQ' = Append(lockQ, d)
      BY <2>1, <2>3, OnlyMoves DEF UpdateCall, Acquire
    <3>. QED  BY <2>2, <3>1, QueueKeepsHolder DEF LockDiscipline, Calls
  <2>4. CASE UpdateBegin(syncVersion) \/ UpdateSize \/ UpdateSet(syncVersion, syncValidate)
    BY <2>2, <2>4, QueueKeepsHolder
       DEF UpdateBegin, UpdateSize, UpdateSet, LockDiscipline, Calls, InLock, At
  <2>5. CASE UpdateEnd(syncVersion, syncValidate)
    <3>1. Holds("update") /\ pc'["update"] = "returned"
      BY <2>1, <2>5, OnlyMoves DEF UpdateEnd, InLock
    <3>. QED  BY <2>2, <3>1, OneHolder DEF LockDiscipline, Calls
  <2>. QED  BY <1>9, <2>3, <2>4, <2>5 DEF Update
<1>10. CASE Resume
  <2>1. "resume" \in Coroutines /\ "proc" \in Coroutines
        /\ \A c \in Calls \ {"resume"} : c \in Coroutines \ {"resume", "proc"}
    BY DEF Coroutines, Calls
  <2>2. \A c \in Calls \ {"resume"} : pc'[c] = pc[c]
    BY <1>10, <2>1, OnlyMoves
       DEF Resume, ResumeCall, ResumeBegin, ResumeServers, SchedTypes
  <2>3. CASE ResumeCall
    <3>1. pc'["resume"] = "begin" /\ \E d \in Coroutines : lockQ' = Append(lockQ, d)
      BY <2>1, <2>3, OnlyMoves DEF ResumeCall, Acquire
    <3>. QED  BY <2>2, <3>1, QueueKeepsHolder DEF LockDiscipline, Calls
  <2>4. CASE ResumeBegin
    <3>1. Holds("resume")
      BY <2>4 DEF ResumeBegin, InLock
    <3>2. Partial \/ pc'["resume"] = "returned"
      BY <2>1, <2>4 DEF ResumeBegin, SchedTypes
    <3>. QED  BY <2>2, <2>4, <3>1, <3>2, OneHolder, QueueKeepsHolder
              DEF ResumeBegin, LockDiscipline, Calls
  <2>5. CASE ResumeServers
    <3>1. Holds("resume") /\ pc'["resume"] = "returned"
      BY <2>1, <2>5, OnlyMoves DEF ResumeServers, InLock
    <3>. QED  BY <2>2, <3>1, OneHolder DEF LockDiscipline, Calls
  <2>. QED  BY <1>10, <2>3, <2>4, <2>5 DEF Resume
<1>11. CASE Train
  BY <1>2, <1>11
     DEF Train, TrainStart, CollectSample, CollectEnd, TrainStep, TrainGetVal,
         TrainFinal, rollVars, schedVars
<1>12. CASE Synchronizer
  BY <1>12, QueueKeepsHolder
     DEF Synchronizer, SyncStart, SyncTransfer, SyncFire, rollVars, schedVars,
         Goto, SchedTypes, Coroutines, LockDiscipline
<1>13. CASE UNCHANGED vars
  BY <1>2, <1>13 DEF vars, schedVars
<1>. QED
  BY <1>3, <1>4, <1>5, <1>6, <1>7, <1>8, <1>9, <1>10, <1>11, <1>12, <1>13
     DEF Next, RollouterStep, Terminated

(* A call that waits inside its lock keeps the others out of theirs.       *)
THEOREM SpecLockDiscipline == SafetySpec => []LockDiscipline
<1>1. Init => LockDiscipline
  BY DEF Init, RollInit, LockDiscipline
<1>2. Base /\ LockDiscipline /\ [Next]_vars => LockDiscipline'
  BY LockStep DEF Base, TypeOK
<1>. QED  BY <1>1, <1>2, SpecTypes, PTL DEF SafetySpec, Base

(* While pause() cancels, gathers and resets (fully_async_rollouter.py     *)
(* :596-609) the processor creates no task, although it runs on the same   *)
(* event loop and pause() awaits three times.                              *)
THEOREM SpecPauseIsolates == SafetySpec => PauseIsolates
<1>1. Base /\ LockDiscipline /\ [Next]_vars =>
        [pc["pause"] \in {"cancel", "gather", "resetCache"}
           => active' \subseteq active]_vars
  <2>. SUFFICES ASSUME Base, LockDiscipline, [Next]_vars,
                       pc["pause"] \in {"cancel", "gather", "resetCache"}
                PROVE  active' \subseteq active
    OBVIOUS
  <2>1. ~ProcSubmit
    BY OneHolder DEF ProcSubmit, InLock, LockDiscipline
  <2>2. ASSUME NEW at \in Loops, ProcReap(at) PROVE active' \subseteq active
    BY <2>2 DEF ProcReap
  <2>3. ASSUME NEW s \in Samples, Task(s) PROVE active' \subseteq active
    BY <2>3, TaskEffect DEF Base, TypeOK
  <2>4. CASE UNCHANGED taskVars \/ PauseCancel \/ PauseGather
    BY <2>4 DEF taskVars, PauseCancel, PauseGather
  <2>. QED  BY <2>1, <2>2, <2>3, <2>4, TaskEffects
<1>. QED
  BY <1>1, SpecTypes, SpecLockDiscipline, PTL DEF SafetySpec, Base, PauseIsolates

-----------------------------------------------------------------------------
(* The synchronisation.                                                    *)

(* The calls of one sync_weights do not overlap those of another.          *)
SyncPhases ==
  /\ spc # "idle" => pc["resume"] = "returned"
  /\ pc["pause"] # "returned" => spc = "pausing"

(* Once pause() has interrupted the servers they stay paused, and once it  *)
(* has gathered the tasks no interrupted one is left.                      *)
QuietServers ==
  Partial /\ spc # "idle" =>
    /\ pc["pause"] \in {"gather", "resetCache", "returned"} => serverPaused
    /\ pc["pause"] \in {"resetCache", "returned"}
         => \A s \in Samples : task[s] # "interrupted"

Quiet == SyncPhases /\ QuietServers

(* A step of anyone but the synchroniser and its calls.                    *)
LEMMA QuietElsewhere ==
  ASSUME Quiet, \A c \in Calls : pc'[c] = pc[c], spc' = spc,
         serverPaused' = serverPaused,
         \A s \in Samples : task'[s] = "interrupted" => task[s] = "interrupted"
  PROVE  Quiet'
BY DEF Quiet, SyncPhases, QuietServers, Calls

LEMMA QuietProcessor ==
  ASSUME Base, Quiet, Processor, UNCHANGED syncVars PROVE Quiet'
<1>1. \A c \in Calls : pc'[c] = pc[c]
  BY ProcessorLock DEF Base, TypeOK
<1>2. serverPaused' = serverPaused
  BY DEF Processor, ProcPause, ProcTakeCancelled, ProcTake, TakePending,
         ProcAwaitPending, ProcGot, ProcSetPaused, ProcAwaitResume,
         ProcSubmit, ProcWake, ProcReap, ProcNothingToReap, stampVars
<1>3. \A s \in Samples : task'[s] = "interrupted" => task[s] = "interrupted"
  BY DEF Processor, ProcPause, ProcTakeCancelled, ProcTake, TakePending,
         ProcAwaitPending, ProcGot, ProcSetPaused, ProcAwaitResume,
         ProcSubmit, ProcWake, ProcReap, ProcNothingToReap, taskVars,
         Base, TypeOK, TaskTypes
<1>. QED  BY <1>1, <1>2, <1>3, QuietElsewhere DEF syncVars

LEMMA QuietStep ==
  ASSUME Base, ActiveCovers, Quiet, [Next]_vars PROVE Quiet'
<1>. SchedTypes /\ TaskTypes
  BY DEF Base, TypeOK
<1>1. CASE Processor /\ UNCHANGED syncVars
  BY <1>1, QuietProcessor
<1>2. CASE (Feed \/ Consumer \/ Main \/ Monitor) /\ UNCHANGED syncVars
  <2>1. \A c \in Calls : pc'[c] = pc[c]
    BY <1>2, OnlyMoves
       DEF Feed, Consumer, ConsumerTake, ConsumerPut, Main, MainFeedDone,
           MainProcDone, MainCancelWorkers, MainPutEnd, MainStop, MainStopped,
           Monitor, MonitorTick, MonitorLift, MonitorCheck, Coroutines, Calls,
           SchedTypes
  <2>2. UNCHANGED <<serverPaused, task>>
    BY <1>2
       DEF Feed, Consumer, ConsumerTake, ConsumerPut, Main, MainFeedDone,
           MainProcDone, MainCancelWorkers, MainPutEnd, MainStop, MainStopped,
           Monitor, MonitorTick, MonitorLift, MonitorCheck, stampVars, taskVars
  <2>. QED  BY <1>2, <2>1, <2>2, QuietElsewhere DEF syncVars
<1>3. ASSUME NEW s \in Samples, Task(s), UNCHANGED syncVars PROVE Quiet'
  <2>1. \A t \in Samples : task'[t] = "interrupted" => task[t] = "interrupted"
    BY <1>3, TaskEffect
  <2>. QED
    BY <1>3, <2>1, QuietElsewhere
       DEF Task, TaskStart, TaskFinish, TaskCancelled, schedVars, stampVars,
           syncVars
<1>4. CASE Pause /\ UNCHANGED syncVars
  <2>1. pc'["resume"] = pc["resume"] /\ pc["pause"] # "returned"
    BY <1>4, OnlyMoves
       DEF Pause, PauseCall, PauseBegin, PauseCancel, PauseGather, PauseEnd,
           Coroutines, InLock, At
  <2>2. spc' = spc /\ spc = "pausing"
    BY <1>4, <2>1 DEF syncVars, Quiet, SyncPhases
  <2>3. SyncPhases'
    BY <2>1, <2>2 DEF Quiet, SyncPhases
  <2>4. CASE PauseCall \/ PauseBegin
    <3>1. Goto("pause", "begin")
          \/ Goto("pause", IF Partial THEN "cancel" ELSE "gather")
      BY <2>4 DEF PauseCall, PauseBegin, Acquire
    <3>2. pc'["pause"] = "begin"
          \/ pc'["pause"] = IF Partial THEN "cancel" ELSE "gather"
      BY <3>1 DEF Goto, SchedTypes, Coroutines
    <3>. QED  BY <2>3, <3>2 DEF Quiet, QuietServers
  <2>5. CASE PauseCancel
    <3>1. pc'["pause"] = "gather" /\ serverPaused'
      BY <2>5, OnlyMoves DEF PauseCancel, Coroutines
    <3>. QED  BY <2>3, <3>1 DEF Quiet, QuietServers
  <2>6. CASE PauseGather
    <3>1. pc["pause"] = "gather" /\ pc'["pause"] = "resetCache"
      BY <2>6, OnlyMoves DEF PauseGather, Coroutines, At
    <3>2. \A s \in Samples : task'[s] # "interrupted"
      BY <2>6 DEF PauseGather, ActiveCovers, InFlight
    <3>. QED  BY <2>2, <2>3, <2>6, <3>1, <3>2
              DEF PauseGather, Quiet, QuietServers, stampVars
  <2>7. CASE PauseEnd
    <3>1. pc["pause"] = "resetCache" /\ pc'["pause"] = "returned"
      BY <2>7, OnlyMoves DEF PauseEnd, InLock, At, Coroutines
    <3>. QED  BY <2>2, <2>3, <2>7, <3>1
              DEF PauseEnd, Quiet, QuietServers, stampVars, taskVars
  <2>. QED  BY <1>4, <2>4, <2>5, <2>6, <2>7 DEF Pause
<1>5. CASE Update(syncVersion, syncValidate) /\ UNCHANGED syncVars
  <2>1. pc'["pause"] = pc["pause"] /\ pc'["resume"] = pc["resume"]
    BY <1>5, OnlyMoves
       DEF Update, UpdateCall, UpdateBegin, UpdateSize, UpdateSet, UpdateEnd,
           Coroutines
  <2>2. UNCHANGED <<serverPaused, task>>
    BY <1>5 DEF Update, UpdateCall, UpdateBegin, UpdateSize, UpdateSet,
                UpdateEnd, stampVars, taskVars
  <2>. QED  BY <1>5, <2>1, <2>2 DEF Quiet, SyncPhases, QuietServers, syncVars
<1>6. CASE Resume /\ UNCHANGED syncVars
  <2>1. pc'["pause"] = pc["pause"]
    BY <1>6, OnlyMoves
       DEF Resume, ResumeCall, ResumeBegin, ResumeServers, Coroutines, SchedTypes
  <2>2. pc["resume"] # "returned"
    BY <1>6 DEF Resume, ResumeCall, ResumeBegin, ResumeServers, InLock, At
  <2>. QED  BY <1>6, <2>1, <2>2 DEF Quiet, SyncPhases, QuietServers, syncVars
<1>7. CASE Train
  <2>1. UNCHANGED <<pc, spc, serverPaused, task>>
    BY <1>7 DEF Train, TrainStart, CollectSample, CollectEnd, TrainStep,
                TrainGetVal, TrainFinal, syncVars, rollVars, schedVars,
                stampVars, taskVars
  <2>. QED  BY <2>1 DEF Quiet, SyncPhases, QuietServers
<1>8. CASE Synchronizer
  <2>1. CASE SyncStart
    <3>1. pc'["pause"] = "called" /\ pc'["resume"] = "returned"
      BY <2>1 DEF SyncStart, LastSyncDone, Goto, SchedTypes, Coroutines
    <3>2. spc' = "pausing"
      BY <2>1 DEF SyncStart
    <3>. QED  BY <3>1, <3>2 DEF Quiet, SyncPhases, QuietServers
  <2>2. CASE SyncTransfer
    BY <2>2 DEF SyncTransfer, rollVars, schedVars, stampVars, taskVars, Quiet,
                SyncPhases, QuietServers
  <2>3. CASE SyncFire
    BY <2>3 DEF SyncFire, SchedTypes, Coroutines, Quiet, SyncPhases, QuietServers
  <2>. QED  BY <1>8, <2>1, <2>2, <2>3 DEF Synchronizer
<1>9. CASE UNCHANGED vars
  BY <1>9 DEF vars, schedVars, syncVars, stampVars, taskVars, Quiet, SyncPhases,
              QuietServers
<1>. QED
  BY <1>1, <1>2, <1>3, <1>4, <1>5, <1>6, <1>7, <1>8, <1>9
     DEF Next, RollouterStep, Terminated

LEMMA QuietInvariant == SafetySpec => []Quiet
<1>1. Init => Quiet
  BY DEF Init, RollInit, TrainerInit, Quiet, SyncPhases, QuietServers
<1>2. Base /\ ActiveCovers /\ Quiet /\ [Next]_vars => Quiet'
  BY QuietStep
<1>. QED
  BY <1>1, <1>2, SpecTypes, SpecActiveCovers, PTL DEF SafetySpec, Base

(* Only a task that finishes adds to result_queue.                         *)
LEMMA ResultEffects ==
  ASSUME [Next]_vars
  PROVE  \/ UNCHANGED resultQ
         \/ resultQ # << >> /\ resultQ' = Tail(resultQ)
         \/ \E s \in Samples : TaskFinish(s)
<1>1. CASE Processor
  BY <1>1
     DEF Processor, ProcPause, ProcTakeCancelled, ProcTake, TakePending,
         ProcAwaitPending, ProcGot, ProcSetPaused, ProcAwaitResume, ProcSubmit,
         ProcWake, ProcReap, ProcNothingToReap, outVars
<1>2. CASE Consumer \/ Main \/ Monitor \/ Feed
  BY <1>2
     DEF Consumer, ConsumerTake, ConsumerPut, Main, MainFeedDone, MainProcDone,
         MainCancelWorkers, MainPutEnd, MainStop, MainStopped, Monitor,
         MonitorTick, MonitorLift, MonitorCheck, Feed, outVars
<1>3. CASE Pause \/ Update(syncVersion, syncValidate) \/ Resume
  BY <1>3
     DEF Pause, PauseCall, PauseBegin, PauseCancel, PauseGather, PauseEnd,
         Update, UpdateCall, UpdateBegin, UpdateSize, UpdateSet, UpdateEnd,
         Resume, ResumeCall, ResumeBegin, ResumeServers, outVars
<1>4. CASE Train \/ Synchronizer
  BY <1>4
     DEF Train, TrainStart, CollectSample, CollectEnd, TrainStep, TrainGetVal,
         TrainFinal, Synchronizer, SyncStart, SyncTransfer, SyncFire, rollVars,
         outVars
<1>5. ASSUME NEW s \in Samples, Task(s) PROVE TaskFinish(s) \/ UNCHANGED resultQ
  BY <1>5 DEF Task, TaskStart, TaskCancelled, outVars
<1>6. CASE UNCHANGED vars
  BY <1>6 DEF vars, outVars
<1>. QED
  BY <1>1, <1>2, <1>3, <1>4, <1>5, <1>6 DEF Next, RollouterStep, Terminated

(* With partial rollout no generation completes while weights are sent:    *)
(* pause() (fully_async_rollouter.py:600-606) has interrupted and gathered *)
(* them all, and a task that starts meanwhile finds its server paused.     *)
THEOREM SpecQuietTransfer == Partial => (SafetySpec => QuietTransfer)
<1>. SUFFICES ASSUME Partial PROVE SafetySpec => QuietTransfer
  OBVIOUS
<1>1. Base /\ Quiet /\ [Next]_vars =>
        [spc = "transfer" => Range(resultQ') \subseteq Range(resultQ)]_vars
  <2>. SUFFICES ASSUME Base, Quiet, [Next]_vars, spc = "transfer"
                PROVE  Range(resultQ') \subseteq Range(resultQ)
    OBVIOUS
  <2>1. ASSUME NEW s \in Samples PROVE ~TaskFinish(s)
    BY DEF TaskFinish, Quiet, SyncPhases, QuietServers
  <2>2. UNCHANGED resultQ \/ (resultQ # << >> /\ resultQ' = Tail(resultQ))
    BY <2>1, ResultEffects
  <2>3. \E S : resultQ \in Seq(S)
    BY DEF Base, TypeOK, OutTypes
  <2>4. ASSUME NEW S, resultQ \in Seq(S), resultQ # << >>
        PROVE  /\ Len(resultQ) \in Nat /\ Len(Tail(resultQ)) = Len(resultQ) - 1
               /\ \A i \in 1 .. Len(Tail(resultQ)) : Tail(resultQ)[i] = resultQ[i + 1]
    BY <2>4
  <2>. QED  BY <2>2, <2>3, <2>4 DEF Range
<1>. QED
  BY <1>1, SpecTypes, QuietInvariant, PTL DEF SafetySpec, Base, QuietTransfer

-----------------------------------------------------------------------------
(* The versions and stamps.                                                *)

(* The Trainer is a version ahead of the synchronisation until it starts   *)
(* one, the Rollouter a version behind until update_param_version begins.  *)
VersionPhases ==
  /\ spc # "idle" <=> tpc \in {"sync", "finalSync"}
  /\ spc # "idle" => pc["update"] = "returned"
  /\ tversion = IF tpc \in {"wait", "finalWait"} THEN syncVersion + 1 ELSE syncVersion
  /\ syncVersion = IF spc # "idle" \/ pc["update"] \in {"called", "begin"}
                   THEN version + 1 ELSE version

(* A sample whose generation is over, wherever it is on its way.           *)
Delivered == {s \in Samples : \/ s \in Range(resultQ) \/ s = chand \/ s \in Range(mq)
                              \/ s \in batch \cup trained}

(* A sample is stamped when it is started and again when it is finished.   *)
Stamps ==
  /\ \A s \in Samples : startV[s] \in -1 .. version /\ endV[s] <= version
  /\ \A s \in Samples : task[s] \in {"running", "interrupted"} => 0 <= startV[s]
  /\ \A s \in Delivered : 0 <= startV[s] /\ startV[s] <= endV[s]

-----------------------------------------------------------------------------
(* The version numbers.                                                    *)

(* The steps that touch what VersionPhases is about.                       *)
Numbers == <<spc, tpc, pc["update"], version, tversion, syncVersion>>

LEMMA NumberEffects ==
  ASSUME SchedTypes, [Next]_vars
  PROVE  \/ UNCHANGED Numbers
         \/ Update(syncVersion, syncValidate) /\ UNCHANGED <<trainVars, syncVars>>
         \/ Train \/ Synchronizer
<1>. USE DEF Numbers, trainVars, syncVars, freshVars
<1>1. CASE Processor /\ UNCHANGED <<trainVars, syncVars>>
  <2>1. pc'["update"] = pc["update"]
    BY <1>1, ProcessorLock DEF Calls
  <2>2. version' = version
    BY <1>1
       DEF Processor, ProcPause, ProcTakeCancelled, ProcTake, TakePending,
           ProcAwaitPending, ProcGot, ProcSetPaused, ProcAwaitResume, ProcSubmit,
           ProcWake, ProcReap, ProcNothingToReap
  <2>. QED  BY <1>1, <2>1, <2>2
<1>2. CASE (Feed \/ Consumer \/ Main \/ Monitor) /\ UNCHANGED <<trainVars, syncVars>>
  <2>1. pc'["update"] = pc["update"]
    BY <1>2, OnlyMoves
       DEF Feed, Consumer, ConsumerTake, ConsumerPut, Main, MainFeedDone,
           MainProcDone, MainCancelWorkers, MainPutEnd, MainStop, MainStopped,
           Monitor, MonitorTick, MonitorLift, MonitorCheck, Coroutines, SchedTypes
  <2>2. version' = version
    BY <1>2
       DEF Feed, Consumer, ConsumerTake, ConsumerPut, Main, MainFeedDone,
           MainProcDone, MainCancelWorkers, MainPutEnd, MainStop, MainStopped,
           Monitor, MonitorTick, MonitorLift, MonitorCheck
  <2>. QED  BY <1>2, <2>1, <2>2
<1>3. CASE (\E s \in Samples : Task(s)) /\ UNCHANGED <<trainVars, syncVars>>
  BY <1>3 DEF Task, TaskStart, TaskFinish, TaskCancelled, schedVars
<1>4. CASE (Pause \/ Resume) /\ UNCHANGED <<trainVars, syncVars>>
  <2>1. pc'["update"] = pc["update"]
    BY <1>4, OnlyMoves
       DEF Pause, PauseCall, PauseBegin, PauseCancel, PauseGather, PauseEnd,
           Resume, ResumeCall, ResumeBegin, ResumeServers, Coroutines, SchedTypes
  <2>2. version' = version
    BY <1>4
       DEF Pause, PauseCall, PauseBegin, PauseCancel, PauseGather, PauseEnd,
           Resume, ResumeCall, ResumeBegin, ResumeServers
  <2>. QED  BY <1>4, <2>1, <2>2
<1>5. CASE UNCHANGED vars
  BY <1>5 DEF vars, schedVars
<1>. QED
  BY <1>1, <1>2, <1>3, <1>4, <1>5 DEF Next, RollouterStep, Terminated

LEMMA PhasesStep ==
  ASSUME Base, VersionPhases, [Next]_vars
  PROVE  VersionPhases' /\ version <= version'
<1>. SchedTypes /\ version \in Nat /\ syncVersion \in Nat /\ tversion \in Nat
  BY DEF Base, TypeOK, FlagTypes, TrainTypes
<1>1. CASE UNCHANGED Numbers
  BY <1>1 DEF Numbers, VersionPhases
<1>2. CASE Update(syncVersion, syncValidate) /\ UNCHANGED <<trainVars, syncVars>>
  <2>1. pc["update"] # "returned" /\ spc = "idle"
    BY <1>2 DEF Update, UpdateCall, UpdateBegin, UpdateSize, UpdateSet, UpdateEnd,
                InLock, At, VersionPhases
  <2>2. UNCHANGED <<spc, tpc, tversion, syncVersion>>
    BY <1>2 DEF trainVars, syncVars
  <2>3. CASE UpdateCall
    <3>1. pc'["update"] = "begin" /\ pc["update"] = "called" /\ version' = version
      BY <2>3, OnlyMoves DEF UpdateCall, At, Coroutines, freshVars
    <3>. QED  BY <2>1, <2>2, <3>1 DEF VersionPhases
  <2>4. CASE UpdateBegin(syncVersion)
    <3>1. pc'["update"] = "askSize" /\ pc["update"] = "begin" /\ version' = syncVersion
      BY <2>4, OnlyMoves DEF UpdateBegin, InLock, At, Coroutines
    <3>. QED  BY <2>1, <2>2, <3>1 DEF VersionPhases
  <2>5. CASE UpdateSize \/ UpdateSet(syncVersion, syncValidate)
             \/ UpdateEnd(syncVersion, syncValidate)
    <3>1. /\ pc["update"] \in {"askSize", "set", "putValidate"}
          /\ pc'["update"] \in {"set", "putValidate", "returned"}
          /\ version' = version
      BY <2>5, OnlyMoves
         DEF UpdateSize, UpdateSet, UpdateEnd, InLock, At, Coroutines, freshVars
    <3>. QED  BY <2>1, <2>2, <3>1 DEF VersionPhases
  <2>. QED  BY <1>2, <2>3, <2>4, <2>5 DEF Update
<1>3. CASE Train
  <2>1. UNCHANGED <<spc, pc, version, syncVersion>>
    BY <1>3 DEF Train, TrainStart, CollectSample, CollectEnd, TrainStep,
                TrainGetVal, TrainFinal, rollVars, schedVars, freshVars, syncVars
  <2>2. tpc \notin {"wait", "finalWait", "sync", "finalSync"}
    BY <1>3 DEF Train, TrainStart, CollectSample, CollectEnd, TrainStep,
                TrainGetVal, TrainFinal
  <2>3. \/ tpc' \in {"collect", "train", "getVal", "done"} /\ tversion' = tversion
        \/ tpc' \in {"wait", "finalWait"} /\ tversion' = tversion + 1
    BY <1>3 DEF Train, TrainStart, CollectSample, CollectEnd, TrainStep,
                TrainGetVal, TrainFinal
  <2>. QED  BY <2>1, <2>2, <2>3 DEF VersionPhases
<1>4. CASE SyncStart
  <2>1. /\ tpc \in {"wait", "finalWait"} /\ pc["update"] = "returned"
        /\ spc' = "pausing" /\ syncVersion' = tversion /\ tpc' \in {"sync", "finalSync"}
        /\ UNCHANGED <<tversion, version>>
    BY <1>4 DEF SyncStart, LastSyncDone, freshVars
  <2>2. pc'["update"] = pc["update"]
    BY <1>4, OnlyMoves DEF SyncStart, Coroutines
  <2>. QED  BY <2>1, <2>2 DEF VersionPhases
<1>5. CASE SyncTransfer
  <2>1. /\ spc = "pausing" /\ spc' = "transfer"
        /\ UNCHANGED <<tpc, tversion, syncVersion, version, pc>>
    BY <1>5 DEF SyncTransfer, trainVars, rollVars, schedVars, freshVars
  <2>. QED  BY <2>1 DEF VersionPhases
<1>6. CASE SyncFire
  <2>1. /\ spc = "transfer" /\ spc' = "idle" /\ tpc' \in {"getVal", "finalVal"}
        /\ UNCHANGED <<tversion, syncVersion, version>>
    BY <1>6 DEF SyncFire, freshVars
  <2>2. pc'["update"] = "called"
    BY <1>6 DEF SyncFire, SchedTypes, Coroutines
  <2>. QED  BY <2>1, <2>2 DEF VersionPhases
<1>. QED
  BY <1>1, <1>2, <1>3, <1>4, <1>5, <1>6, NumberEffects DEF Synchronizer

-----------------------------------------------------------------------------
(* The stamps.                                                             *)

LEMMA QueueRanges ==
  ASSUME NEW S, NEW q \in Seq(S)
  PROVE  /\ q # << >> => Head(q) \in Range(q) /\ Range(Tail(q)) \subseteq Range(q)
         /\ \A x \in S : Range(Append(q, x)) = Range(q) \cup {x}
<1>1. ASSUME q # << >> PROVE Head(q) \in Range(q) /\ Range(Tail(q)) \subseteq Range(q)
  <2>1. /\ Len(q) \in Nat \ {0} /\ DOMAIN q = 1 .. Len(q) /\ Head(q) = q[1]
        /\ DOMAIN Tail(q) = 1 .. Len(q) - 1
        /\ \A i \in 1 .. Len(q) - 1 : Tail(q)[i] = q[i + 1]
    BY <1>1
  <2>2. \A i \in 1 .. Len(q) - 1 : i + 1 \in 1 .. Len(q)
    BY <2>1
  <2>. QED  BY <2>1, <2>2 DEF Range
<1>2. ASSUME NEW x \in S PROVE Range(Append(q, x)) = Range(q) \cup {x}
  <2>1. /\ Len(q) \in Nat /\ DOMAIN q = 1 .. Len(q) /\ DOMAIN Append(q, x) = 1 .. Len(q) + 1
        /\ \A i \in 1 .. Len(q) : Append(q, x)[i] = q[i]
        /\ Append(q, x)[Len(q) + 1] = x
    OBVIOUS
  <2>2. 1 .. Len(q) + 1 = (1 .. Len(q)) \cup {Len(q) + 1}
    BY <2>1
  <2>. QED  BY <2>1, <2>2 DEF Range
<1>. QED  BY <1>1, <1>2

(* A put adds what is put and nothing else.                                *)
LEMMA PutRange ==
  ASSUME OutTypes, NEW x \in Items, Channel!Put(x)
  PROVE  Range(mq') \subseteq Range(mq) \cup {x}
<1>1. mq \in Seq(Items) /\ Len(mq) \in Nat
  BY DEF OutTypes
<1>2. CASE Len(mq) >= MaxQueue
  <2>1. mq # << >>
    BY <1>1, <1>2, RolloutAssumption DEF MaxQueue
  <2>2. Tail(mq) \in Seq(Items) /\ Range(Tail(mq)) \subseteq Range(mq)
    BY <1>1, <2>1, QueueRanges
  <2>3. mq' = Append(Tail(mq), x)
    BY <1>2 DEF Channel!Put, Channel!Pushed, Channel!Full
  <2>4. Range(Append(Tail(mq), x)) = Range(Tail(mq)) \cup {x}
    BY <2>2, QueueRanges
  <2>. QED  BY <2>2, <2>3, <2>4
<1>3. CASE ~(Len(mq) >= MaxQueue)
  <2>1. mq' = Append(mq, x)
    BY <1>3 DEF Channel!Put, Channel!Pushed, Channel!Full
  <2>. QED  BY <1>1, <2>1, QueueRanges
<1>. QED  BY <1>2, <1>3

(* A step delivers no sample but one that finishes.                        *)
LEMMA DeliveredEffects ==
  ASSUME Base, [Next]_vars
  PROVE  \/ Delivered' \subseteq Delivered
         \/ \E s \in Samples : TaskFinish(s) /\ Delivered' \subseteq Delivered \cup {s}
<1>. USE DEF Delivered
<1>. OutTypes /\ HandsFull
  BY DEF Base, TypeOK
<1>1. CASE UNCHANGED <<resultQ, chand, mq, batch, trained>>
  BY <1>1
<1>2. CASE ConsumerTake /\ UNCHANGED trainVars
  <2>1. chand' \in Range(resultQ) /\ Range(resultQ') \subseteq Range(resultQ)
    BY <1>2, QueueRanges DEF ConsumerTake, OutTypes
  <2>. QED  BY <1>2, <2>1 DEF ConsumerTake, queueVars, trainVars
<1>3. CASE ConsumerPut /\ UNCHANGED trainVars
  <2>1. chand \in Items /\ Channel!Put(chand)
    BY <1>3 DEF ConsumerPut, HandsFull, Items
  <2>2. Range(mq') \subseteq Range(mq) \cup {chand}
    BY <2>1, PutRange
  <2>3. chand' \notin Samples
    BY <1>3 DEF ConsumerPut, None, Samples
  <2>. QED  BY <1>3, <2>2, <2>3 DEF ConsumerPut, trainVars
<1>4. CASE MainPutEnd /\ UNCHANGED trainVars
  <2>1. End \in Items /\ Channel!Put(End) /\ End \notin Samples
    BY <1>4, RolloutAssumption DEF MainPutEnd, Items, End, Samples
  <2>2. Range(mq') \subseteq Range(mq) \cup {End}
    BY <2>1, PutRange
  <2>. QED  BY <1>4, <2>1, <2>2 DEF MainPutEnd, outVars, trainVars
<1>5. CASE CollectSample \/ CollectEnd
  <2>1. mq # << >> /\ mq' = Tail(mq)
    BY <1>5 DEF CollectSample, CollectEnd, Channel!Take
  <2>2. Head(mq) \in Range(mq) /\ Range(mq') \subseteq Range(mq)
    BY <2>1, QueueRanges DEF OutTypes
  <2>3. batch' \subseteq batch \cup {Head(mq)} /\ UNCHANGED <<resultQ, chand, trained>>
    BY <1>5 DEF CollectSample, CollectEnd, rollVars, outVars
  <2>. QED  BY <2>2, <2>3
<1>6. CASE TrainStep
  BY <1>6 DEF TrainStep, rollVars, outVars
<1>7. ASSUME NEW s \in Samples, TaskFinish(s), UNCHANGED trainVars
      PROVE  Delivered' \subseteq Delivered \cup {s}
  <2>1. Range(resultQ') = Range(resultQ) \cup {s}
    BY <1>7, QueueRanges DEF TaskFinish, OutTypes
  <2>. QED  BY <1>7, <2>1 DEF TaskFinish, queueVars, trainVars
<1>8. CASE (Feed \/ Processor \/ Monitor \/ Pause \/ Resume
             \/ Update(syncVersion, syncValidate)) /\ UNCHANGED trainVars
  <2>1. UNCHANGED <<resultQ, chand, mq>>
    BY <1>8
       DEF Feed, Monitor, MonitorTick, MonitorLift, MonitorCheck,
           Processor, ProcPause, ProcTakeCancelled, ProcTake, TakePending,
           ProcAwaitPending, ProcGot, ProcSetPaused, ProcAwaitResume, ProcSubmit,
           ProcWake, ProcReap, ProcNothingToReap,
           Pause, PauseCall, PauseBegin, PauseCancel, PauseGather, PauseEnd,
           Update, UpdateCall, UpdateBegin, UpdateSize, UpdateSet, UpdateEnd,
           Resume, ResumeCall, ResumeBegin, ResumeServers, outVars, queueVars
  <2>. QED  BY <1>1, <1>8, <2>1 DEF trainVars
<1>9. CASE (Main /\ UNCHANGED trainVars) \/ Train \/ Synchronizer \/ UNCHANGED vars
  <2>1. CASE Main /\ UNCHANGED trainVars
    BY <1>1, <1>4, <2>1
       DEF Main, MainFeedDone, MainProcDone, MainCancelWorkers, MainStop, MainStopped,
           outVars, queueVars, trainVars
  <2>2. CASE Train
    BY <1>1, <1>5, <1>6, <2>2
       DEF Train, TrainStart, TrainGetVal, TrainFinal, rollVars, outVars
  <2>3. CASE Synchronizer \/ UNCHANGED vars
    BY <1>1, <2>3
       DEF Synchronizer, SyncStart, SyncTransfer, SyncFire, vars, rollVars, outVars,
           queueVars, trainVars
  <2>. QED  BY <1>9, <2>1, <2>2, <2>3
<1>10. ASSUME NEW s \in Samples, TaskStart(s) \/ TaskCancelled(s), UNCHANGED trainVars
       PROVE  Delivered' \subseteq Delivered
  BY <1>1, <1>10 DEF TaskStart, TaskCancelled, outVars, queueVars, trainVars
<1>. QED
  BY <1>2, <1>3, <1>7, <1>8, <1>9, <1>10
     DEF Next, RollouterStep, Terminated, Consumer, Task

(* Only starting and finishing stamp a sample, the first once.             *)
LEMMA StampEffects ==
  ASSUME [Next]_vars
  PROVE  \/ UNCHANGED <<startV, endV>>
         \/ \E s \in Samples : TaskStart(s) \/ TaskFinish(s)
<1>. USE DEF stampVars
<1>1. CASE Processor
  BY <1>1
     DEF Processor, ProcPause, ProcTakeCancelled, ProcTake, TakePending,
         ProcAwaitPending, ProcGot, ProcSetPaused, ProcAwaitResume, ProcSubmit,
         ProcWake, ProcReap, ProcNothingToReap
<1>2. CASE Consumer \/ Main \/ Monitor \/ Feed
  BY <1>2
     DEF Consumer, ConsumerTake, ConsumerPut, Main, MainFeedDone, MainProcDone,
         MainCancelWorkers, MainPutEnd, MainStop, MainStopped, Monitor,
         MonitorTick, MonitorLift, MonitorCheck, Feed
<1>3. CASE Pause \/ Update(syncVersion, syncValidate) \/ Resume
  BY <1>3
     DEF Pause, PauseCall, PauseBegin, PauseCancel, PauseGather, PauseEnd,
         Update, UpdateCall, UpdateBegin, UpdateSize, UpdateSet, UpdateEnd,
         Resume, ResumeCall, ResumeBegin, ResumeServers
<1>4. CASE Train \/ Synchronizer
  BY <1>4
     DEF Train, TrainStart, CollectSample, CollectEnd, TrainStep, TrainGetVal,
         TrainFinal, Synchronizer, SyncStart, SyncTransfer, SyncFire, rollVars
<1>5. ASSUME NEW s \in Samples, Task(s)
      PROVE  TaskStart(s) \/ TaskFinish(s) \/ UNCHANGED <<startV, endV>>
  BY <1>5 DEF Task, TaskCancelled
<1>6. CASE UNCHANGED vars
  BY <1>6 DEF vars
<1>. QED
  BY <1>1, <1>2, <1>3, <1>4, <1>5, <1>6 DEF Next, RollouterStep, Terminated

(* What goes on was started: nothing else makes a task run.                *)
LEMMA RunningEffects ==
  ASSUME Base, [Next]_vars, NEW t \in Samples, task'[t] \in {"running", "interrupted"}
  PROVE  task[t] \in {"running", "interrupted"} \/ TaskStart(t)
<1>. TaskTypes
  BY DEF Base, TypeOK
<1>1. CASE UNCHANGED taskVars \/ PauseGather \/ \E at \in Loops : ProcReap(at)
  BY <1>1 DEF taskVars, PauseGather, ProcReap
<1>2. CASE ProcSubmit
  BY <1>2 DEF ProcSubmit, taskVars, TaskTypes
<1>3. CASE PauseCancel
  BY <1>3 DEF PauseCancel
<1>4. ASSUME NEW s \in Samples, Task(s)
      PROVE  task[t] \in {"running", "interrupted"} \/ TaskStart(t)
  <2>1. CASE TaskStart(s)
    BY <2>1 DEF TaskStart, TaskTypes
  <2>2. CASE TaskFinish(s) \/ TaskCancelled(s)
    BY <2>2 DEF TaskFinish, TaskCancelled, TaskTypes
  <2>. QED  BY <1>4, <2>1, <2>2 DEF Task
<1>. QED  BY <1>1, <1>2, <1>3, <1>4, TaskEffects

LEMMA StampsStep ==
  ASSUME Base, Stamps, version <= version', version' \in Nat, [Next]_vars
  PROVE  Stamps'
<1>1. /\ startV \in [Samples -> Int] /\ endV \in [Samples -> Int] /\ version \in Nat
      /\ task \in [Samples -> {"none", "created", "running", "interrupted", "finished"}]
  BY DEF Base, TypeOK, FlagTypes, TaskTypes
<1>2. ASSUME NEW t \in Samples
      PROVE  /\ \/ startV'[t] = startV[t]
                \/ startV[t] = -1 /\ startV'[t] = version /\ version' = version
             /\ endV'[t] = endV[t] \/ (endV'[t] = version /\ version' = version)
  <2>1. CASE UNCHANGED <<startV, endV>>
    BY <2>1
  <2>2. ASSUME NEW s \in Samples, TaskStart(s)
        PROVE  /\ version' = version /\ endV' = endV
               /\ startV'[t] = IF t = s /\ startV[t] = -1 THEN version ELSE startV[t]
    BY <1>1, <2>2 DEF TaskStart, freshVars
  <2>3. ASSUME NEW s \in Samples, TaskFinish(s)
        PROVE  /\ version' = version /\ startV' = startV
               /\ endV'[t] = IF t = s THEN version ELSE endV[t]
    BY <1>1, <2>3 DEF TaskFinish, freshVars
  <2>. QED  BY <2>1, <2>2, <2>3, StampEffects
<1>3. ASSUME NEW t \in Samples
      PROVE  startV'[t] \in -1 .. version' /\ endV'[t] <= version'
  <2>1. startV[t] \in -1 .. version /\ endV[t] <= version /\ endV[t] \in Int
    BY <1>1 DEF Stamps
  <2>. QED  BY <1>1, <1>2, <2>1
<1>4. ASSUME NEW t \in Samples, task'[t] \in {"running", "interrupted"}
      PROVE  0 <= startV'[t]
  <2>1. CASE task[t] \in {"running", "interrupted"}
    <3>1. 0 <= startV[t]
      BY <2>1 DEF Stamps
    <3>. QED  BY <1>1, <1>2, <3>1
  <2>2. CASE TaskStart(t)
    <3>1. startV[t] \in -1 .. version /\ startV'[t] = IF startV[t] = -1 THEN version ELSE startV[t]
      BY <1>1, <2>2 DEF TaskStart, Stamps
    <3>. QED  BY <1>1, <3>1
  <2>. QED  BY <1>4, <2>1, <2>2, RunningEffects
<1>5. ASSUME NEW t \in Delivered' PROVE 0 <= startV'[t] /\ startV'[t] <= endV'[t]
  <2>1. t \in Samples /\ startV[t] \in -1 .. version /\ endV[t] \in Int
    BY <1>1 DEF Delivered, Stamps
  <2>2. CASE t \in Delivered
    <3>1. 0 <= startV[t] /\ startV[t] <= endV[t]
      BY <2>2 DEF Stamps
    <3>. QED  BY <1>1, <1>2, <2>1, <3>1
  <2>3. CASE TaskFinish(t)
    <3>1. endV'[t] = version /\ startV' = startV /\ task[t] \in {"running", "interrupted"}
      BY <1>1, <2>1, <2>3 DEF TaskFinish
    <3>2. 0 <= startV[t]
      BY <2>1, <3>1 DEF Stamps
    <3>. QED  BY <1>1, <2>1, <3>1, <3>2
  <2>. QED  BY <2>2, <2>3, DeliveredEffects
<1>. QED  BY <1>3, <1>4, <1>5 DEF Stamps

(* The versions agree: sync_weights and update_param_version               *)
(* (param_sync.py:97, fully_async_rollouter.py:197) keep Trainer and       *)
(* Rollouter within one version of each other, and a sample that reaches   *)
(* the Trainer carries the stamps of its start and its end, in order,      *)
(* however often it was cancelled.                                         *)
THEOREM SpecVersionOrder == SafetySpec => []VersionOrder
<1>1. Init => VersionPhases /\ Stamps
  BY DEF Init, RollInit, TrainerInit, VersionPhases, Stamps, Delivered, Range, None, Samples
<1>2. Base /\ Base' /\ VersionPhases /\ Stamps /\ [Next]_vars => VersionPhases' /\ Stamps'
  <2>. SUFFICES ASSUME Base, Base', VersionPhases, Stamps, [Next]_vars
                PROVE  VersionPhases' /\ Stamps'
    OBVIOUS
  <2>1. VersionPhases' /\ version <= version'
    BY PhasesStep
  <2>2. version' \in Nat
    BY DEF Base, TypeOK, FlagTypes
  <2>. QED  BY <2>1, <2>2, StampsStep
<1>3. Base /\ VersionPhases /\ Stamps => VersionOrder
  <2>. SUFFICES ASSUME Base, VersionPhases, Stamps PROVE VersionOrder
    OBVIOUS
  <2>1. /\ version \in Nat /\ syncVersion \in Nat /\ tversion \in Nat
        /\ batch \cup trained \subseteq Samples
    BY DEF Base, TypeOK, FlagTypes, TrainTypes
  <2>2. /\ version <= syncVersion /\ syncVersion <= tversion
        /\ tversion <= syncVersion + 1 /\ syncVersion <= version + 1
    BY <2>1 DEF VersionPhases
  <2>3. batch \cup trained \subseteq Delivered
    BY <2>1 DEF Delivered
  <2>4. \A s \in Samples : startV[s] <= version /\ endV[s] <= version
    BY <2>1 DEF Stamps
  <2>. QED  BY <2>2, <2>3, <2>4 DEF VersionOrder, Stamps
<1>. QED
  BY <1>1, <1>2, <1>3, SpecTypes, PTL DEF SafetySpec, Base

-----------------------------------------------------------------------------
(* How often a queue holds a sample.                                       *)

LEMMA TimesType ==
  ASSUME NEW S, NEW q \in Seq(S), NEW s
  PROVE  /\ IsFiniteSet({i \in DOMAIN q : q[i] = s}) /\ Times(q, s) \in Nat
         /\ Times(q, s) = 0 <=> s \notin Range(q)
<1>1. IsFiniteSet(DOMAIN q)
  BY FS_Interval
<1>2. IsFiniteSet({i \in DOMAIN q : q[i] = s})
  BY <1>1, FS_Subset
<1>. QED  BY <1>2, FS_CardinalityType, FS_EmptySet DEF Times, Range

LEMMA TimesEmpty == \A s : Times(<< >>, s) = 0
<1>1. ASSUME NEW s PROVE {i \in DOMAIN << >> : << >>[i] = s} = {}
  OBVIOUS
<1>. QED  BY <1>1, FS_EmptySet DEF Times

LEMMA TimesAppend ==
  ASSUME NEW S, NEW q \in Seq(S), NEW x \in S, NEW s
  PROVE  Times(Append(q, x), s) = Times(q, s) + One(x = s)
<1>. DEFINE A == {i \in DOMAIN q : q[i] = s}
            B == {i \in DOMAIN Append(q, x) : Append(q, x)[i] = s}
            n == Len(q)
<1>1. /\ n \in Nat /\ DOMAIN q = 1 .. n /\ DOMAIN Append(q, x) = 1 .. n + 1
      /\ \A i \in 1 .. n : Append(q, x)[i] = q[i]
      /\ Append(q, x)[n + 1] = x
  OBVIOUS
<1>2. B = IF x = s THEN A \cup {n + 1} ELSE A
  <2>1. \A i : i \in 1 .. n + 1 <=> i \in 1 .. n \/ i = n + 1
    BY <1>1
  <2>. QED  BY <1>1, <2>1
<1>3. n + 1 \notin A
  BY <1>1
<1>4. IsFiniteSet(A) /\ Cardinality(A) \in Nat
  BY TimesType DEF Times
<1>5. Cardinality(A \cup {n + 1}) = Cardinality(A) + 1
  BY <1>3, <1>4, FS_AddElement
<1>6. Times(q, s) = Cardinality(A) /\ Times(Append(q, x), s) = Cardinality(B)
  BY DEF Times
<1>. HIDE DEF A, B, n
<1>. QED  BY <1>2, <1>4, <1>5, <1>6 DEF One

LEMMA TimesShift ==
  ASSUME NEW S, NEW q \in Seq(S), NEW t \in Seq(S), NEW s, Len(q) = Len(t) + 1,
         \A i \in 1 .. Len(t) : t[i] = q[i + 1]
  PROVE  Times(q, s) = Times(t, s) + One(q[1] = s)
<1>. DEFINE A == {i \in DOMAIN q : q[i] = s}
            B == {i \in DOMAIN t : t[i] = s}
            n == Len(t)
            f == [i \in B |-> i + 1]
<1>1. n \in Nat /\ DOMAIN q = 1 .. n + 1 /\ DOMAIN t = 1 .. n
  OBVIOUS
<1>2. IsFiniteSet(A) /\ IsFiniteSet(B) /\ Cardinality(A) \in Nat /\ Cardinality(B) \in Nat
  BY TimesType DEF Times
<1>3. /\ \A i : i \in A <=> i \in 1 .. n + 1 /\ q[i] = s
      /\ \A i : i \in B <=> i \in 1 .. n /\ q[i + 1] = s
      /\ \A i \in B : f[i] = i + 1
      /\ DOMAIN f = B
  BY <1>1
<1>4. Times(q, s) = Cardinality(A) /\ Times(t, s) = Cardinality(B) /\ f = [i \in B |-> f[i]]
  BY DEF Times
<1>. HIDE DEF A, B, n, f
<1>5. f \in Bijection(B, A \ {1})
  <2>1. f \in [B -> A \ {1}]
    <3>1. \A i \in B : f[i] \in A \ {1}
      BY <1>1, <1>3
    <3>. QED  BY <1>3, <1>4, <3>1
  <2>2. \A i, j \in B : f[i] = f[j] => i = j
    BY <1>1, <1>3
  <2>3. ASSUME NEW j \in A \ {1} PROVE \E i \in B : f[i] = j
    <3>1. PICK i \in 1 .. n : i + 1 = j
      <4>1. j - 1 \in 1 .. n /\ (j - 1) + 1 = j
        BY <1>1, <1>3
      <4>. QED  BY <4>1
    <3>2. i \in B
      <4>1. i \in Int /\ i + 1 \in A
        BY <1>1, <3>1
      <4>. QED  BY <1>3, <3>1, <4>1
    <3>3. f[i] = j
      BY <1>3, <3>1, <3>2
    <3>. QED  BY <3>2, <3>3
  <2>. QED  BY <1>3, <2>1, <2>2, <2>3 DEF Bijection, Injection, Surjection, IsInjective
<1>6. Cardinality(A \ {1}) = Cardinality(B)
  BY <1>2, <1>5, FS_Bijection DEF ExistsBijection
<1>7. Cardinality(A \ {1}) = IF 1 \in A THEN Cardinality(A) - 1 ELSE Cardinality(A)
  BY <1>2, FS_RemoveElement
<1>8. 1 \in A <=> q[1] = s
  BY <1>1, <1>3
<1>. QED  BY <1>2, <1>4, <1>6, <1>7, <1>8 DEF One

LEMMA TimesTail ==
  ASSUME NEW S, NEW q \in Seq(S), q # << >>, NEW s
  PROVE  Times(q, s) = Times(Tail(q), s) + One(Head(q) = s)
<1>1. Tail(q) \in Seq(S) /\ Len(q) = Len(Tail(q)) + 1 /\ Head(q) = q[1]
  OBVIOUS
<1>2. \A i \in 1 .. Len(Tail(q)) : Tail(q)[i] = q[i + 1]
  OBVIOUS
<1>3. \A t \in Seq(S) : Len(q) = Len(t) + 1 /\ (\A i \in 1 .. Len(t) : t[i] = q[i + 1])
        => Times(q, s) = Times(t, s) + One(q[1] = s)
  BY TimesShift
<1>. QED  BY <1>1, <1>2, <1>3

LEMMA TimesPut ==
  ASSUME OutTypes, NEW x \in Items, Channel!Put(x), NEW s
  PROVE  \/ /\ Channel!Evicted(mq) = {} /\ Times(mq', s) = Times(mq, s) + One(x = s)
         \/ \E y \in Items : /\ Channel!Evicted(mq) = {y}
                            /\ Times(mq', s) + One(y = s) = Times(mq, s) + One(x = s)
<1>1. mq \in Seq(Items) /\ Len(mq) \in Nat
  BY DEF OutTypes
<1>2. CASE Len(mq) >= MaxQueue
  <2>1. mq # << >>
    BY <1>1, <1>2, RolloutAssumption DEF MaxQueue
  <2>2. /\ Tail(mq) \in Seq(Items) /\ Head(mq) \in Items
        /\ Times(mq, s) = Times(Tail(mq), s) + One(Head(mq) = s)
    BY <1>1, <2>1, TimesTail
  <2>3. mq' = Append(Tail(mq), x) /\ Channel!Evicted(mq) = {Head(mq)}
    BY <1>2 DEF Channel!Put, Channel!Pushed, Channel!Evicted, Channel!Full
  <2>4. Times(Append(Tail(mq), x), s) = Times(Tail(mq), s) + One(x = s)
    <3>1. \A t \in Seq(Items) : Times(Append(t, x), s) = Times(t, s) + One(x = s)
      BY TimesAppend
    <3>. QED  BY <2>2, <3>1
  <2>5. Times(Tail(mq), s) \in Nat
    BY <2>2, TimesType
  <2>6. Times(mq', s) + One(Head(mq) = s) = Times(mq, s) + One(x = s)
    BY <2>2, <2>3, <2>4, <2>5 DEF One
  <2>. QED  BY <2>2, <2>3, <2>6
<1>3. CASE ~(Len(mq) >= MaxQueue)
  <2>1. mq' = Append(mq, x) /\ Channel!Evicted(mq) = {}
    BY <1>3 DEF Channel!Put, Channel!Pushed, Channel!Evicted, Channel!Full
  <2>. QED  BY <1>1, <2>1, TimesAppend
<1>. QED  BY <1>2, <1>3

-----------------------------------------------------------------------------

(* Whoever takes a sample has none, and samples are discarded once.        *)
HandsEmpty ==
  /\ pc["proc"] \notin Carrying \cup {"failed"} => hand = None
  /\ pc["consumer"] = "get" => chand = None
  /\ tpc \in {"start", "collect", "train", "wait", "sync", "getVal"} => discarded = {}

(* All that Homes is about.                                                *)
Places == <<taken, hand, task, cancelQ, resultQ, chand, mq, dropped, batch,
            trained, discarded>>

LEMMA PlaceTypes ==
  ASSUME TypeOK
  PROVE  /\ taken \in Nat /\ hand \in Samples \cup {None} /\ chand \in Samples \cup {None}
         /\ task \in [Samples -> {"none", "created", "running", "interrupted", "finished"}]
         /\ cancelQ \in Seq(Samples) /\ resultQ \in Seq(Samples) /\ mq \in Seq(Items)
         /\ None \notin Samples /\ End \notin Samples /\ Samples \subseteq Nat
         /\ \A s : Times(cancelQ, s) \in Nat /\ Times(resultQ, s) \in Nat
                  /\ Times(mq, s) \in Nat
<1>1. /\ taken \in Nat /\ None \notin Samples /\ End \notin Samples /\ Samples \subseteq Nat
  BY RolloutAssumption DEF TypeOK, InputTypes, None, End, Samples, Done
<1>. QED  BY <1>1, TimesType DEF TypeOK, InputTypes, TaskTypes, OutTypes

(* The steps that move a sample.                                           *)
LEMMA PlaceEffects ==
  ASSUME [Next]_vars
  PROVE  \/ UNCHANGED Places
         \/ /\ UNCHANGED trainVars
            /\ \/ ProcTakeCancelled \/ ProcTake \/ ProcGot \/ ProcSubmit
               \/ ConsumerTake \/ ConsumerPut \/ MainPutEnd \/ PauseCancel
               \/ \E s \in Samples : Task(s)
         \/ CollectSample \/ CollectEnd \/ TrainStep
<1>. USE DEF Places
<1>1. CASE Processor /\ UNCHANGED trainVars
  BY <1>1
     DEF Processor, ProcPause, ProcAwaitPending, ProcSetPaused, ProcAwaitResume,
         ProcWake, ProcReap, ProcNothingToReap, inputVars, procVars,
         taskVars, outVars, queueVars, trainVars
<1>2. CASE (Main \/ Monitor \/ Feed) /\ UNCHANGED trainVars
  BY <1>2
     DEF Main, MainFeedDone, MainProcDone, MainCancelWorkers, MainStop, MainStopped,
         Monitor, MonitorTick, MonitorLift, MonitorCheck, Feed, inputVars, procVars,
         taskVars, outVars, queueVars, trainVars
<1>3. CASE (Pause \/ Update(syncVersion, syncValidate) \/ Resume) /\ UNCHANGED trainVars
  BY <1>3
     DEF Pause, PauseCall, PauseBegin, PauseGather, PauseEnd,
         Update, UpdateCall, UpdateBegin, UpdateSize, UpdateSet, UpdateEnd,
         Resume, ResumeCall, ResumeBegin, ResumeServers, inputVars, procVars,
         taskVars, outVars, queueVars, trainVars
<1>4. CASE Train \/ Synchronizer
  BY <1>4
     DEF Train, TrainStart, TrainGetVal, TrainFinal, Synchronizer, SyncStart,
         SyncTransfer, SyncFire, rollVars, inputVars, procVars, taskVars, outVars,
         queueVars, trainVars
<1>5. CASE UNCHANGED vars
  BY <1>5 DEF vars, inputVars, procVars, taskVars, outVars, queueVars, trainVars
<1>. QED
  BY <1>1, <1>2, <1>3, <1>4, <1>5 DEF Next, RollouterStep, Terminated, Consumer

-----------------------------------------------------------------------------
(* The hands are empty when they should be.                                *)

LEMMA EmptyMove ==
  ASSUME SchedTypes, HandsEmpty, NEW l, Goto("proc", l), UNCHANGED <<chand, tpc, discarded>>,
         l \notin Carrying \cup {"failed"} => hand' = None
  PROVE  HandsEmpty'
BY DEF HandsEmpty, SchedTypes, Coroutines, Goto

LEMMA EmptyProcessor ==
  ASSUME SchedTypes, HandsEmpty, Processor, UNCHANGED trainVars
  PROVE  HandsEmpty'
<1>. UNCHANGED <<tpc, discarded>>
  BY DEF trainVars
<1>. USE DEF procVars, outVars, Acquire, AcquireAndWait, Leave
<1>1. CASE ProcPause \/ ProcAwaitPending \/ ProcSetPaused \/ ProcAwaitResume
  <2>1. /\ hand' = hand /\ chand' = chand
        /\ pc["proc"] \in {"check", "setPaused", "awaitResume"}
    BY <1>1 DEF ProcPause, ProcAwaitPending, ProcSetPaused, ProcAwaitResume, InLock, At
  <2>2. \E l : Goto("proc", l)
    BY <1>1 DEF ProcPause, ProcAwaitPending, ProcSetPaused, ProcAwaitResume
  <2>3. hand = None
    BY <2>1 DEF HandsEmpty, Carrying
  <2>. QED  BY <2>1, <2>2, <2>3, EmptyMove
<1>2. CASE ProcTakeCancelled
  BY <1>2, AwaitSlotMoves DEF ProcTakeCancelled, HandsEmpty, Carrying
<1>3. CASE TakePending
  <2>1. CASE taken' # Done
    BY <1>3, <2>1, AwaitSlotMoves DEF TakePending, HandsEmpty, Carrying
  <2>2. CASE taken' = Done
    BY <1>3, <2>2, EmptyMove DEF TakePending
  <2>. QED  BY <2>1, <2>2
<1>4. CASE ProcSubmit
  <2>1. CASE paused
    BY <1>4, <2>1, EmptyMove DEF ProcSubmit, Carrying
  <2>2. CASE ~paused
    BY <1>4, <2>2, EmptyMove DEF ProcSubmit
  <2>. QED  BY <2>1, <2>2
<1>5. CASE ProcWake
  <2>1. CASE pc["proc"] = "notified"
    BY <1>5, <2>1, EmptyMove DEF ProcWake, HandsEmpty, Carrying
  <2>2. CASE pc["proc"] = "notifiedSubmit"
    BY <1>5, <2>2, EmptyMove DEF ProcWake, Carrying
  <2>. QED  BY <1>5, <2>1, <2>2 DEF ProcWake
<1>6. ASSUME NEW at \in Loops, ProcReap(at) \/ ProcNothingToReap(at)
      PROVE  HandsEmpty'
  <2>1. hand' = hand /\ chand' = chand /\ pc["proc"] = at
    BY <1>6 DEF ProcReap, ProcNothingToReap, InLock, At
  <2>2. at # "slot" => hand = None
    BY <2>1 DEF HandsEmpty, Loops, Carrying
  <2>3. ASSUME NEW rem, AfterReap(at, Tail(lockQ), rem) PROVE HandsEmpty'
    <3>1. CASE at = "slot"
      BY <2>1, <2>3, <3>1, AwaitSlotMoves DEF AfterReap, HandsEmpty, Carrying
    <3>2. CASE at # "slot"
      <4>1. \E l : Goto("proc", l)
        BY <2>3, <3>2 DEF AfterReap
      <4>. QED  BY <2>1, <2>2, <3>2, <4>1, EmptyMove
    <3>. QED  BY <3>1, <3>2
  <2>4. CASE Leave("proc", "failed")
    BY <2>1, <2>4, EmptyMove
  <2>. QED  BY <1>6, <2>3, <2>4 DEF ProcReap, ProcNothingToReap
<1>. QED
  BY <1>1, <1>2, <1>3, <1>4, <1>5, <1>6 DEF Processor, ProcTake, ProcGot

LEMMA EmptyStep ==
  ASSUME SchedTypes, HandsEmpty, [Next]_vars
  PROVE  HandsEmpty'
<1>1. ASSUME UNCHANGED <<hand, chand, tpc, discarded>>,
             pc'["proc"] \in {pc["proc"], Notified},
             pc'["consumer"] = pc["consumer"]
      PROVE  HandsEmpty'
  BY <1>1 DEF HandsEmpty, Notified, Carrying
<1>. USE DEF trainVars
<1>2. CASE Feed /\ UNCHANGED trainVars
  BY <1>1, <1>2 DEF Feed, Goto, SchedTypes, Coroutines, procVars, outVars
<1>3. ASSUME NEW s \in Samples, Task(s), UNCHANGED trainVars PROVE HandsEmpty'
  BY <1>1, <1>3 DEF Task, TaskStart, TaskFinish, TaskCancelled, schedVars,
                    procVars, outVars
<1>4. CASE ConsumerTake /\ UNCHANGED trainVars
  BY <1>4 DEF ConsumerTake, Goto, SchedTypes, Coroutines, procVars, HandsEmpty
<1>5. CASE ConsumerPut /\ UNCHANGED trainVars
  BY <1>5 DEF ConsumerPut, Goto, SchedTypes, Coroutines, procVars, HandsEmpty
<1>6. CASE Main /\ UNCHANGED trainVars
  <2>1. CASE MainCancelWorkers
    BY <1>6, <2>1 DEF MainCancelWorkers, SchedTypes, Coroutines, procVars, outVars,
                HandsEmpty
  <2>. QED
    BY <1>1, <1>6, <2>1
       DEF Main, MainFeedDone, MainProcDone, MainPutEnd, MainStop, MainStopped,
           Acquire, Leave, Goto, SchedTypes, Coroutines, procVars, outVars
<1>7. CASE Monitor /\ UNCHANGED trainVars
  BY <1>1, <1>7
     DEF Monitor, MonitorTick, MonitorLift, MonitorCheck, Acquire, Leave, Goto,
         SchedTypes, Coroutines, procVars, outVars
<1>8. CASE Pause /\ UNCHANGED trainVars
  BY <1>1, <1>8
     DEF Pause, PauseCall, PauseBegin, PauseCancel, PauseGather, PauseEnd,
         Acquire, Leave, Goto, SchedTypes, Coroutines, procVars, outVars
<1>9. CASE Update(syncVersion, syncValidate) /\ UNCHANGED trainVars
  BY <1>1, <1>9
     DEF Update, UpdateCall, UpdateBegin, UpdateSize, UpdateSet, UpdateEnd,
         Acquire, Leave, Goto, SchedTypes, Coroutines, procVars, outVars
<1>10. CASE Resume /\ UNCHANGED trainVars
  BY <1>1, <1>10
     DEF Resume, ResumeCall, ResumeBegin, ResumeServers,
         Acquire, Leave, Goto, SchedTypes, Coroutines, procVars, outVars
<1>11. CASE Train
  <2>1. UNCHANGED <<hand, chand, pc>>
    BY <1>11 DEF Train, TrainStart, CollectSample, CollectEnd, TrainStep, TrainGetVal,
         TrainFinal, rollVars, schedVars, procVars, outVars
  <2>2. \/ discarded' = discarded /\ tpc \in {"start", "collect", "train", "getVal"}
        \/ tpc' \in {"done", "finalWait"}
    BY <1>11 DEF Train, TrainStart, CollectSample, CollectEnd, TrainStep, TrainGetVal,
         TrainFinal
  <2>. QED  BY <2>1, <2>2 DEF HandsEmpty
<1>12. CASE Synchronizer
  <2>1. UNCHANGED <<hand, chand, discarded>> /\ pc'["proc"] = pc["proc"]
        /\ pc'["consumer"] = pc["consumer"]
    BY <1>12
       DEF Synchronizer, SyncStart, SyncTransfer, SyncFire, rollVars, schedVars,
           procVars, outVars, Goto, SchedTypes, Coroutines
  <2>2. tpc' = tpc \/ (tpc = "wait" /\ tpc' = "sync") \/ (tpc = "sync" /\ tpc' = "getVal")
        \/ tpc' \in {"finalSync", "finalVal"}
    BY <1>12 DEF Synchronizer, SyncStart, SyncTransfer, SyncFire
  <2>. QED  BY <2>1, <2>2 DEF HandsEmpty
<1>13. CASE UNCHANGED vars
  BY <1>1, <1>13 DEF vars, schedVars, procVars, outVars
<1>. QED
  BY <1>2, <1>3, <1>4, <1>5, <1>6, <1>7, <1>8, <1>9, <1>10, <1>11, <1>12,
     <1>13, EmptyProcessor
     DEF Next, RollouterStep, Consumer, Terminated

-----------------------------------------------------------------------------
(* Every step keeps each sample in one place.                              *)

(* The places are counted, in this state and the next.                     *)
Counts(s) ==
  /\ Homes(s) = One(hand = s) + One(s \in InFlight) + Times(cancelQ, s)
                + Times(resultQ, s) + One(chand = s) + Times(mq, s)
                + One(s \in dropped) + One(s \in batch) + One(s \in trained)
                + One(s \in discarded)
  /\ Homes(s)' = One(hand' = s) + One(s \in InFlight') + Times(cancelQ', s)
                + Times(resultQ', s) + One(chand' = s) + Times(mq', s)
                + One(s \in dropped') + One(s \in batch') + One(s \in trained')
                + One(s \in discarded')
  /\ Times(cancelQ, s) \in Nat /\ Times(resultQ, s) \in Nat /\ Times(mq, s) \in Nat
  /\ Times(cancelQ', s) \in Nat /\ Times(resultQ', s) \in Nat /\ Times(mq', s) \in Nat
  /\ One(hand = s) \in Nat /\ One(s \in InFlight) \in Nat /\ One(chand = s) \in Nat
  /\ One(s \in dropped) \in Nat /\ One(s \in batch) \in Nat
  /\ One(s \in trained) \in Nat /\ One(s \in discarded) \in Nat
  /\ One(hand' = s) \in Nat /\ One(s \in InFlight') \in Nat /\ One(chand' = s) \in Nat
  /\ One(s \in dropped') \in Nat /\ One(s \in batch') \in Nat
  /\ One(s \in trained') \in Nat /\ One(s \in discarded') \in Nat

LEMMA SamplesReal == \A s \in Samples : s # None /\ s # End /\ s # Done /\ s \in Nat
BY RolloutAssumption DEF Samples, None, End, Done

LEMMA HomesCounts ==
  ASSUME TypeOK, TypeOK', NEW s \in Samples
  PROVE  Counts(s)
<1>1. cancelQ' \in Seq(Samples) /\ resultQ' \in Seq(Samples) /\ mq' \in Seq(Items)
  BY DEF TypeOK, OutTypes
<1>2. Times(cancelQ', s) \in Nat /\ Times(resultQ', s) \in Nat /\ Times(mq', s) \in Nat
  BY <1>1, TimesType
<1>3. \A b : One(b) \in Nat
  BY DEF One
<1>. QED  BY <1>2, <1>3, PlaceTypes DEF Homes, Counts

(* The processor picks up a sample, or hands one to a new task.            *)
LEMMA HomesProcessor ==
  ASSUME TypeOK, TypeOK', HandsFull, HandsEmpty, OneHome, NEW s \in Samples,
         ProcTakeCancelled \/ ProcTake \/ ProcGot \/ ProcSubmit, UNCHANGED trainVars
  PROVE  Homes(s)' = IF s <= taken' THEN 1 ELSE 0
<1>. DEFINE k == IF s <= taken THEN 1 ELSE 0
<1>0. Counts(s)
  BY HomesCounts
<1>1. Homes(s) = k /\ k \in {0, 1} /\ taken \in Nat /\ s \in Nat
  BY PlaceTypes DEF OneHome
<1>2. UNCHANGED <<chand, mq, dropped, batch, trained, discarded, resultQ>>
  BY DEF ProcTakeCancelled, ProcTake, ProcGot, TakePending, ProcSubmit, outVars, queueVars, trainVars
<1>3. CASE ProcTakeCancelled
  <2>1. /\ hand = None /\ cancelQ # << >> /\ hand' = Head(cancelQ)
        /\ cancelQ' = Tail(cancelQ) /\ InFlight' = InFlight /\ taken' = taken
    BY <1>3 DEF ProcTakeCancelled, At, HandsEmpty, Carrying, taskVars, inputVars, InFlight
  <2>2. Times(cancelQ, s) = Times(cancelQ', s) + One(hand' = s)
    BY <2>1, TimesTail, PlaceTypes
  <2>3. hand # s /\ InFlight' = InFlight /\ taken' = taken
    BY <2>1, SamplesReal
  <2>4. One(hand = s) = 0 /\ One(hand' = s) \in Nat
    BY <2>3 DEF One
  <2>5. /\ One(s \in InFlight') = One(s \in InFlight)
        /\ Times(resultQ', s) = Times(resultQ, s)
        /\ One(chand' = s) = One(chand = s)
        /\ Times(mq', s) = Times(mq, s)
        /\ One(s \in dropped') = One(s \in dropped)
        /\ One(s \in batch') = One(s \in batch)
        /\ One(s \in trained') = One(s \in trained)
        /\ One(s \in discarded') = One(s \in discarded)
    BY <1>2, <2>3
  <2>6. Homes(s)' = Homes(s)
    BY <1>0, <2>2, <2>4, <2>5 DEF Counts
  <2>. QED  BY <1>1, <2>3, <2>6
<1>4. CASE ProcTake \/ ProcGot
  <2>1. /\ hand = None /\ taken' = taken + 1 /\ cancelQ' = cancelQ /\ InFlight' = InFlight
    BY <1>4 DEF ProcTake, ProcGot, TakePending, At, HandsEmpty, Carrying, outVars,
                taskVars, InFlight
  <2>2. hand' = s <=> s = taken'
    BY <1>1, <1>4, <2>1, SamplesReal, RolloutAssumption
       DEF ProcTake, ProcGot, TakePending, Samples, Done
  <2>3. One(hand = s) = 0 /\ One(hand' = s) = One(s = taken') /\ One(s = taken') \in Nat
    BY <2>1, <2>2, SamplesReal DEF One
  <2>4. /\ One(s \in InFlight') = One(s \in InFlight)
        /\ Times(cancelQ', s) = Times(cancelQ, s)
        /\ Times(resultQ', s) = Times(resultQ, s)
        /\ One(chand' = s) = One(chand = s)
        /\ Times(mq', s) = Times(mq, s)
        /\ One(s \in dropped') = One(s \in dropped)
        /\ One(s \in batch') = One(s \in batch)
        /\ One(s \in trained') = One(s \in trained)
        /\ One(s \in discarded') = One(s \in discarded)
    BY <1>2, <2>1
  <2>5. Homes(s)' = Homes(s) + One(s = taken')
    BY <1>0, <2>3, <2>4 DEF Counts
  <2>. QED  BY <1>1, <2>1, <2>5 DEF One
<1>5. CASE ProcSubmit
  <2>1. cancelQ' = cancelQ /\ taken' = taken
    BY <1>5 DEF ProcSubmit, outVars, inputVars
  <2>2. CASE paused
    <3>1. hand' = hand /\ InFlight' = InFlight
      BY <1>5, <2>2 DEF ProcSubmit, taskVars, InFlight
    <3>. QED  BY <1>1, <1>2, <2>1, <3>1, <1>0 DEF Counts
  <2>3. CASE ~paused
    <3>1. hand \in Samples
      BY <1>5 DEF ProcSubmit, InLock, At, HandsFull
    <3>2. hand' = None /\ task' = [task EXCEPT ![hand] = "created"]
      BY <1>5, <2>3 DEF ProcSubmit
    <3>3. s \in InFlight' <=> s = hand \/ s \in InFlight
      BY <3>1, <3>2, PlaceTypes DEF InFlight
    <3>4. ~(hand = s /\ s \in InFlight)
      <4>1. SUFFICES ASSUME hand = s, s \in InFlight PROVE FALSE
        OBVIOUS
      <4>2. One(hand = s) = 1 /\ One(s \in InFlight) = 1
        BY <4>1 DEF One
      <4>. QED  BY <1>0, <1>1, <4>2 DEF Counts
    <3>5. One(hand' = s) = 0 /\ One(s \in InFlight') = One(hand = s) + One(s \in InFlight)
      BY <3>2, <3>3, <3>4, SamplesReal DEF One
    <3>6. /\ Times(cancelQ', s) = Times(cancelQ, s)
          /\ Times(resultQ', s) = Times(resultQ, s)
          /\ One(chand' = s) = One(chand = s)
          /\ Times(mq', s) = Times(mq, s)
          /\ One(s \in dropped') = One(s \in dropped)
          /\ One(s \in batch') = One(s \in batch)
          /\ One(s \in trained') = One(s \in trained)
          /\ One(s \in discarded') = One(s \in discarded)
      BY <1>2, <2>1
    <3>7. Homes(s)' = Homes(s)
      BY <1>0, <3>5, <3>6 DEF Counts
    <3>. QED  BY <1>1, <2>1, <3>7
  <2>. QED  BY <2>2, <2>3
<1>. QED  BY <1>3, <1>4, <1>5

(* A task starts, delivers its sample or hands it back.                    *)
LEMMA HomesTask ==
  ASSUME TypeOK, TypeOK', OneHome, NEW s \in Samples, NEW r \in Samples, Task(r),
         UNCHANGED trainVars
  PROVE  Homes(s)' = IF s <= taken' THEN 1 ELSE 0
<1>0. Counts(s)
  BY HomesCounts
<1>1. Homes(s) = (IF s <= taken THEN 1 ELSE 0) /\ taken \in Nat /\ s \in Nat
  BY PlaceTypes DEF OneHome
<1>2. UNCHANGED <<taken, hand, chand, mq, dropped, batch, trained, discarded>>
  BY DEF Task, TaskStart, TaskFinish, TaskCancelled, inputVars, procVars, outVars,
         queueVars, trainVars
<1>3. cancelQ \in Seq(Samples) /\ resultQ \in Seq(Samples)
  BY PlaceTypes
<1>4. r \in InFlight /\ (s # r => (s \in InFlight' <=> s \in InFlight))
  BY TaskEffect DEF TypeOK, InFlight
<1>5. CASE TaskStart(r)
  <2>1. UNCHANGED <<cancelQ, resultQ>> /\ r \in InFlight'
    BY <1>5, PlaceTypes DEF TaskStart, outVars, InFlight
  <2>2. s \in InFlight' <=> s \in InFlight
    BY <1>4, <2>1
  <2>3. One(s \in InFlight') = One(s \in InFlight)
    BY <2>2 DEF One
  <2>. QED  BY <1>1, <1>2, <2>1, <2>3, <1>0 DEF Counts
<1>6. CASE TaskFinish(r) \/ TaskCancelled(r)
  <2>1. r \notin InFlight'
    BY <1>6, PlaceTypes DEF TaskFinish, TaskCancelled, InFlight
  <2>2. One(s \in InFlight) = One(s \in InFlight') + One(r = s)
    BY <1>4, <2>1 DEF One
  <2>3. \/ cancelQ' = cancelQ /\ resultQ' = Append(resultQ, r)
        \/ resultQ' = resultQ /\ cancelQ' = Append(cancelQ, r)
    BY <1>6 DEF TaskFinish, TaskCancelled
  <2>0. One(r = s) \in Nat
    BY DEF One
  <2>4. Times(cancelQ', s) + Times(resultQ', s)
          = Times(cancelQ, s) + Times(resultQ, s) + One(r = s)
    <3>0. \A q \in Seq(Samples) : Times(Append(q, r), s) = Times(q, s) + One(r = s)
      BY TimesAppend
    <3>a. Times(cancelQ, s) \in Nat /\ Times(resultQ, s) \in Nat
      BY <1>0 DEF Counts
    <3>1. CASE cancelQ' = cancelQ /\ resultQ' = Append(resultQ, r)
      <4>1. Times(resultQ', s) = Times(resultQ, s) + One(r = s)
        BY <1>3, <3>0, <3>1
      <4>. QED  BY <2>0, <3>a, <3>1, <4>1
    <3>2. CASE resultQ' = resultQ /\ cancelQ' = Append(cancelQ, r)
      <4>1. Times(cancelQ', s) = Times(cancelQ, s) + One(r = s)
        BY <1>3, <3>0, <3>2
      <4>. QED  BY <2>0, <3>a, <3>2, <4>1
    <3>. QED  BY <2>3, <3>1, <3>2
  <2>5. /\ One(hand' = s) = One(hand = s)
        /\ One(chand' = s) = One(chand = s)
        /\ Times(mq', s) = Times(mq, s)
        /\ One(s \in dropped') = One(s \in dropped)
        /\ One(s \in batch') = One(s \in batch)
        /\ One(s \in trained') = One(s \in trained)
        /\ One(s \in discarded') = One(s \in discarded)
    BY <1>2
  <2>6. Homes(s)' = Homes(s)
    BY <1>0, <2>0, <2>2, <2>4, <2>5 DEF Counts
  <2>. QED  BY <1>1, <1>2, <2>6
<1>. QED  BY <1>5, <1>6 DEF Task

(* The consumer or main puts x, which it takes from its hand, into the     *)
(* MessageQueue, and the sample that is pushed out becomes a dropped one.  *)
LEMMA HomesPut ==
  ASSUME TypeOK, TypeOK', OneHome, NEW s \in Samples, NEW x \in Items,
         Channel!Put(x), dropped' = dropped \cup Channel!Evicted(mq),
         One(chand = s) = One(chand' = s) + One(x = s),
         UNCHANGED <<taken, hand, task, cancelQ, resultQ, trainVars>>
  PROVE  Homes(s)' = IF s <= taken' THEN 1 ELSE 0
<1>0. Counts(s)
  BY HomesCounts
<1>1. Homes(s) \in {0, 1} /\ Homes(s) = IF s <= taken THEN 1 ELSE 0
  BY DEF OneHome
<1>2. UNCHANGED <<InFlight, taken, hand, cancelQ, resultQ, batch, trained, discarded>>
  BY DEF trainVars, InFlight
<1>3. OutTypes
  BY DEF TypeOK
<1>4. CASE Channel!Evicted(mq) = {} /\ Times(mq', s) = Times(mq, s) + One(x = s)
  <2>1. dropped' = dropped
    BY <1>4
  <2>2. /\ One(hand' = s) = One(hand = s) /\ One(s \in InFlight') = One(s \in InFlight)
        /\ Times(cancelQ', s) = Times(cancelQ, s) /\ Times(resultQ', s) = Times(resultQ, s)
        /\ One(s \in dropped') = One(s \in dropped) /\ One(s \in batch') = One(s \in batch)
        /\ One(s \in trained') = One(s \in trained)
        /\ One(s \in discarded') = One(s \in discarded)
    BY <1>2, <2>1
  <2>3. Homes(s)' = Homes(s)
    <3>1. One(x = s) \in Nat
      BY DEF One
    <3>. QED  BY <1>0, <1>4, <2>2, <3>1 DEF Counts
  <2>. QED  BY <1>1, <1>2, <2>3
<1>5. ASSUME NEW y \in Items, Channel!Evicted(mq) = {y},
             Times(mq', s) + One(y = s) = Times(mq, s) + One(x = s)
      PROVE  Homes(s)' = IF s <= taken' THEN 1 ELSE 0
  <2>1. s \in dropped' <=> y = s \/ s \in dropped
    BY <1>5
  <2>2. ~(y = s /\ s \in dropped)
    <3>1. SUFFICES ASSUME y = s, s \in dropped PROVE FALSE
      OBVIOUS
    <3>2. One(y = s) = 1 /\ One(s \in dropped) = 1
      BY <3>1 DEF One
    <3>. QED  BY <1>1, <1>5, <3>2, <1>0 DEF Counts
  <2>3. One(s \in dropped') = One(s \in dropped) + One(y = s)
    BY <2>1, <2>2 DEF One
  <2>4. /\ One(hand' = s) = One(hand = s)
        /\ One(s \in InFlight') = One(s \in InFlight)
        /\ Times(cancelQ', s) = Times(cancelQ, s)
        /\ Times(resultQ', s) = Times(resultQ, s)
        /\ One(s \in batch') = One(s \in batch)
        /\ One(s \in trained') = One(s \in trained)
        /\ One(s \in discarded') = One(s \in discarded)
    BY <1>2
  <2>5. One(x = s) \in Nat /\ One(y = s) \in Nat
    BY DEF One
  <2>6. Homes(s)' = Homes(s)
    BY <1>0, <1>5, <2>3, <2>4, <2>5 DEF Counts
  <2>. QED  BY <1>1, <1>2, <2>6
<1>. QED  BY <1>3, <1>4, <1>5, TimesPut

(* The consumer takes a result and puts it; main puts the end marker.      *)
LEMMA HomesConsumer ==
  ASSUME TypeOK, TypeOK', HandsFull, HandsEmpty, OneHome, NEW s \in Samples,
         ConsumerTake \/ ConsumerPut \/ MainPutEnd, UNCHANGED trainVars
  PROVE  Homes(s)' = IF s <= taken' THEN 1 ELSE 0
<1>0. Counts(s)
  BY HomesCounts
<1>1. UNCHANGED <<taken, hand, task, cancelQ>>
  BY DEF ConsumerTake, ConsumerPut, MainPutEnd, inputVars, procVars, taskVars, outVars
<1>2. CASE ConsumerTake
  <2>1. /\ chand = None /\ resultQ # << >> /\ chand' = Head(resultQ)
        /\ resultQ' = Tail(resultQ)
        /\ UNCHANGED <<mq, dropped, batch, trained, discarded, InFlight>>
    BY <1>1, <1>2 DEF ConsumerTake, At, HandsEmpty, queueVars, trainVars, InFlight
  <2>2. Times(resultQ, s) = Times(resultQ', s) + One(chand' = s)
    BY <2>1, TimesTail, PlaceTypes
  <2>3. One(chand = s) = 0
    BY <2>1, SamplesReal DEF One
  <2>4. /\ One(hand' = s) = One(hand = s)
        /\ One(s \in InFlight') = One(s \in InFlight)
        /\ Times(cancelQ', s) = Times(cancelQ, s)
        /\ Times(mq', s) = Times(mq, s)
        /\ One(s \in dropped') = One(s \in dropped)
        /\ One(s \in batch') = One(s \in batch)
        /\ One(s \in trained') = One(s \in trained)
        /\ One(s \in discarded') = One(s \in discarded)
    BY <1>1, <2>1
  <2>5. Homes(s)' = Homes(s)
    BY <1>0, <2>2, <2>3, <2>4 DEF Counts
  <2>. QED  BY <1>1, <2>5 DEF OneHome
<1>3. CASE ConsumerPut
  <2>1. chand \in Samples /\ chand' = None /\ Samples \subseteq Items
    BY <1>3 DEF ConsumerPut, HandsFull, Items
  <2>2. One(chand = s) = One(chand' = s) + One(chand = s)
    BY <2>1, SamplesReal DEF One
  <2>. QED  BY <1>1, <1>3, <2>1, <2>2, HomesPut DEF ConsumerPut
<1>4. CASE MainPutEnd
  <2>1. End \in Items /\ chand' = chand /\ resultQ' = resultQ
    BY <1>4 DEF MainPutEnd, Items, outVars
  <2>2. One(chand = s) = One(chand' = s) + One(End = s)
    BY <2>1, SamplesReal DEF One
  <2>. QED  BY <1>1, <1>4, <2>1, <2>2, HomesPut DEF MainPutEnd
<1>. QED  BY <1>2, <1>3, <1>4

(* The Trainer fetches a sample, trains on its batch or discards it.       *)
LEMMA HomesTrain ==
  ASSUME TypeOK, TypeOK', HandsEmpty, OneHome, NEW s \in Samples,
         CollectSample \/ CollectEnd \/ TrainStep
  PROVE  Homes(s)' = IF s <= taken' THEN 1 ELSE 0
<1>0. Counts(s)
  BY HomesCounts
<1>1. UNCHANGED <<taken, hand, task, cancelQ, resultQ, chand, dropped, InFlight>>
  BY DEF CollectSample, CollectEnd, TrainStep, rollVars, inputVars, procVars, taskVars,
         outVars, InFlight
<1>2. Homes(s) \in {0, 1} /\ Homes(s) = IF s <= taken THEN 1 ELSE 0
  BY DEF OneHome
<1>3. CASE CollectSample \/ CollectEnd
  <2>1. /\ mq # << >> /\ mq' = Tail(mq) /\ trained' = trained
    BY <1>3 DEF CollectSample, CollectEnd, Channel!Take
  <2>2. Times(mq, s) = Times(mq', s) + One(Head(mq) = s)
    BY <2>1, TimesTail, PlaceTypes
  <2>3. CASE CollectSample
    <3>1. batch' = batch \cup {Head(mq)} /\ discarded' = discarded
      BY <2>3 DEF CollectSample
    <3>2. ~(Head(mq) = s /\ s \in batch)
      <4>1. SUFFICES ASSUME Head(mq) = s, s \in batch PROVE FALSE
        OBVIOUS
      <4>2. One(Head(mq) = s) = 1 /\ One(s \in batch) = 1
        BY <4>1 DEF One
      <4>. QED  BY <1>2, <2>2, <4>2, <1>0 DEF Counts
    <3>3. One(s \in batch') = One(s \in batch) + One(Head(mq) = s)
      BY <3>1, <3>2 DEF One
    <3>4. One(Head(mq) = s) \in Nat
      BY DEF One
    <3>5. /\ One(hand' = s) = One(hand = s)
          /\ One(s \in InFlight') = One(s \in InFlight)
          /\ Times(cancelQ', s) = Times(cancelQ, s)
          /\ Times(resultQ', s) = Times(resultQ, s)
          /\ One(chand' = s) = One(chand = s)
          /\ One(s \in dropped') = One(s \in dropped)
          /\ One(s \in trained') = One(s \in trained)
          /\ One(s \in discarded') = One(s \in discarded)
      BY <1>1, <2>1, <3>1
    <3>6. Homes(s)' = Homes(s)
      BY <1>0, <2>2, <3>3, <3>4, <3>5 DEF Counts
    <3>. QED  BY <1>1, <1>2, <3>6
  <2>4. CASE CollectEnd
    <3>1. One(Head(mq) = s) = 0
      BY <2>4, SamplesReal DEF CollectEnd, One
    <3>2. discarded = {} /\ discarded' = batch /\ batch' = {}
      BY <2>4 DEF CollectEnd, HandsEmpty
    <3>3. One(s \in discarded') = One(s \in batch) /\ One(s \in batch') = One(s \in discarded)
      BY <3>2 DEF One
    <3>4. /\ One(hand' = s) = One(hand = s)
          /\ One(s \in InFlight') = One(s \in InFlight)
          /\ Times(cancelQ', s) = Times(cancelQ, s)
          /\ Times(resultQ', s) = Times(resultQ, s)
          /\ One(chand' = s) = One(chand = s)
          /\ One(s \in dropped') = One(s \in dropped)
          /\ One(s \in trained') = One(s \in trained)
      BY <1>1, <2>1
    <3>5. Homes(s)' = Homes(s)
      BY <1>0, <2>2, <3>1, <3>3, <3>4 DEF Counts
    <3>. QED  BY <1>1, <1>2, <3>5
  <2>. QED  BY <1>3, <2>3, <2>4
<1>4. CASE TrainStep
  <2>1. trained' = trained \cup batch /\ batch' = {} /\ UNCHANGED <<mq, discarded>>
    BY <1>4 DEF TrainStep
  <2>2. ~(s \in batch /\ s \in trained)
    <3>1. SUFFICES ASSUME s \in batch, s \in trained PROVE FALSE
      OBVIOUS
    <3>2. One(s \in batch) = 1 /\ One(s \in trained) = 1
      BY <3>1 DEF One
    <3>. QED  BY <1>2, <3>2, <1>0 DEF Counts
  <2>3. One(s \in trained') = One(s \in trained) + One(s \in batch) /\ One(s \in batch') = 0
    BY <2>1, <2>2 DEF One
  <2>4. /\ One(hand' = s) = One(hand = s)
        /\ One(s \in InFlight') = One(s \in InFlight)
        /\ Times(cancelQ', s) = Times(cancelQ, s)
        /\ Times(resultQ', s) = Times(resultQ, s)
        /\ One(chand' = s) = One(chand = s)
        /\ Times(mq', s) = Times(mq, s)
        /\ One(s \in dropped') = One(s \in dropped)
        /\ One(s \in discarded') = One(s \in discarded)
    BY <1>1, <2>1
  <2>5. Homes(s)' = Homes(s)
    BY <1>0, <2>3, <2>4 DEF Counts
  <2>. QED  BY <1>1, <1>2, <2>5
<1>. QED  BY <1>3, <1>4

LEMMA HomesStep ==
  ASSUME Base, Base', HandsEmpty, OneHome, [Next]_vars PROVE OneHome'
<1>. SUFFICES ASSUME NEW s \in Samples PROVE Homes(s)' = IF s <= taken' THEN 1 ELSE 0
  BY DEF OneHome
<1>. TypeOK /\ TypeOK' /\ HandsFull
  BY DEF Base
<1>0. Counts(s)
  BY HomesCounts
<1>1. Homes(s) = IF s <= taken THEN 1 ELSE 0
  BY DEF OneHome
<1>2. CASE UNCHANGED Places
  <2>1. InFlight' = InFlight
    BY <1>2 DEF Places, InFlight
  <2>. QED  BY <1>1, <1>2, <2>1, <1>0 DEF Counts, Places
<1>3. CASE PauseCancel /\ UNCHANGED trainVars
  <2>1. InFlight' = InFlight
    BY <1>3, PlaceTypes DEF PauseCancel, InFlight
  <2>2. UNCHANGED <<taken, hand, chand, cancelQ, resultQ, mq, dropped, batch, trained,
                    discarded>>
    BY <1>3 DEF PauseCancel, inputVars, procVars, outVars, queueVars, trainVars
  <2>. QED  BY <1>1, <2>1, <2>2, <1>0 DEF Counts
<1>. QED
  BY <1>2, <1>3, PlaceEffects, HomesProcessor, HomesTask, HomesConsumer, HomesTrain

LEMMA HomesInit == Init => HandsEmpty /\ OneHome
<1>1. Init => HandsEmpty
  BY DEF Init, RollInit, TrainerInit, HandsEmpty
<1>2. Init => OneHome
  <2>. SUFFICES ASSUME Init, NEW s \in Samples PROVE Homes(s) = IF s <= taken THEN 1 ELSE 0
    BY DEF OneHome
  <2>1. s \in Nat /\ s # 0
    BY RolloutAssumption DEF Samples
  <2>2. /\ taken = 0 /\ s # hand /\ s # chand /\ s \notin InFlight
        /\ s \notin dropped /\ s \notin batch /\ s \notin trained /\ s \notin discarded
    BY <2>1 DEF Init, RollInit, TrainerInit, None, InFlight
  <2>3. Times(cancelQ, s) = 0 /\ Times(resultQ, s) = 0 /\ Times(mq, s) = 0
    BY TimesEmpty DEF Init, RollInit
  <2>. QED  BY <2>1, <2>2, <2>3 DEF Homes, One
<1>. QED  BY <1>1, <1>2

(* Every prompt the processor took is in exactly one place, through every  *)
(* pause, cancellation and resume (fully_async_rollouter.py:342-475 and    *)
(* 596-655): none is duplicated and none is forgotten.                     *)
THEOREM SpecOneHome == SafetySpec => []OneHome
<1>1. Init => HandsEmpty /\ OneHome
  BY HomesInit
<1>2. Base /\ Base' /\ HandsEmpty /\ OneHome /\ [Next]_vars => HandsEmpty' /\ OneHome'
  BY HomesStep, EmptyStep DEF Base, TypeOK
<1>. QED  BY <1>1, <1>2, SpecTypes, PTL DEF SafetySpec, Base

-----------------------------------------------------------------------------
(* What the refinement of SampleFlow rests on besides OneHome.             *)

(* The end marker is in the queue at most once, when main has put it; a    *)
(* put that outlives its consumer is the only one that can come behind it. *)
Ended == {"ended", "stop", "finished"}
EndInv ==
  /\ Times(mq, End) <= 1
  /\ End \in Range(mq) => pc["main"] \in Ended
  /\ pc["main"] \in Ended \cup {"putEnd"} => pc["consumer"] \in {"orphan", "cancelled"}
  /\ End \in Range(mq) /\ pc["consumer"] = "orphan" => mq[Len(mq)] = End

(* The batch is complete when the Trainer trains and empty when it does    *)
(* not collect either.                                                     *)
BatchInv ==
  /\ tpc = "collect" => Cardinality(batch) < Required
  /\ tpc = "train" => Cardinality(batch) = Required
  /\ tpc \notin {"collect", "train"} => batch = {}

LenInv == Len(mq) <= MaxQueue

(* The steps that touch the queue, main or the consumer.                   *)
LEMMA ProcessorMoves == ASSUME Processor PROVE \E l : Goto("proc", l)
<1>. USE DEF Acquire, AcquireAndWait, Leave
<1>1. ASSUME NEW q, NEW rem, AwaitSlot(q, rem) PROVE \E l : Goto("proc", l)
  BY <1>1 DEF AwaitSlot
<1>2. ASSUME NEW at, NEW q, NEW rem, AfterReap(at, q, rem) PROVE \E l : Goto("proc", l)
  BY <1>1, <1>2 DEF AfterReap
<1>3. CASE ProcPause \/ ProcAwaitPending \/ ProcSetPaused \/ ProcAwaitResume
           \/ ProcSubmit \/ ProcWake
  BY <1>3 DEF ProcPause, ProcAwaitPending, ProcSetPaused, ProcAwaitResume, ProcSubmit,
              ProcWake
<1>4. CASE ProcTakeCancelled \/ ProcTake \/ ProcGot
  BY <1>1, <1>4 DEF ProcTakeCancelled, ProcTake, ProcGot, TakePending
<1>5. ASSUME NEW at \in Loops, ProcReap(at) \/ ProcNothingToReap(at)
      PROVE  \E l : Goto("proc", l)
  BY <1>2, <1>5 DEF ProcReap, ProcNothingToReap
<1>. QED  BY <1>3, <1>4, <1>5 DEF Processor

LEMMA QueueEffects ==
  ASSUME SchedTypes, [Next]_vars
  PROVE  \/ UNCHANGED <<mq, pc["main"], pc["consumer"]>>
         \/ Consumer \/ Main \/ CollectSample \/ CollectEnd
<1>. USE DEF queueVars, schedVars
<1>1. CASE Processor
  <2>1. UNCHANGED mq
    BY <1>1 DEF Processor, ProcPause, ProcTakeCancelled, ProcTake, TakePending,
       ProcAwaitPending, ProcGot, ProcSetPaused, ProcAwaitResume, ProcSubmit,
       ProcWake, ProcReap, ProcNothingToReap
  <2>. QED  BY <1>1, <2>1, ProcessorMoves, OnlyMoves DEF Coroutines
<1>2. CASE Feed \/ Monitor
  BY <1>2, OnlyMoves
     DEF Feed, Monitor, MonitorTick, MonitorLift, MonitorCheck, Coroutines, SchedTypes
<1>3. CASE \E s \in Samples : Task(s)
  BY <1>3 DEF Task, TaskStart, TaskFinish, TaskCancelled
<1>4. CASE Pause \/ Resume
  BY <1>4, OnlyMoves
     DEF Pause, PauseCall, PauseBegin, PauseCancel, PauseGather, PauseEnd,
         Resume, ResumeCall, ResumeBegin, ResumeServers, Coroutines, SchedTypes
<1>5. CASE Update(syncVersion, syncValidate)
  BY <1>5, OnlyMoves
     DEF Update, UpdateCall, UpdateBegin, UpdateSize, UpdateSet, UpdateEnd, Coroutines
<1>6. CASE Train \/ Synchronizer
  BY <1>6, OnlyMoves
     DEF Train, TrainStart, TrainStep, TrainGetVal, TrainFinal, Synchronizer, SyncStart,
         SyncTransfer, SyncFire, rollVars, Coroutines, SchedTypes
<1>7. CASE UNCHANGED vars
  BY <1>7 DEF vars
<1>. QED
  BY <1>1, <1>2, <1>3, <1>4, <1>5, <1>6, <1>7 DEF Next, RollouterStep, Terminated

(* A full queue loses its head, whatever is put.                           *)
LEMMA PutCases ==
  ASSUME OutTypes, LenInv, NEW x \in Items, Channel!Put(x)
  PROVE  /\ mq' # << >> /\ mq'[Len(mq')] = x /\ Len(mq') <= MaxQueue
         /\ \/ /\ Len(mq) < MaxQueue /\ Channel!Evicted(mq) = {}
               /\ Range(mq') = Range(mq) \cup {x}
            \/ /\ Len(mq) = MaxQueue /\ mq # << >>
               /\ Channel!Evicted(mq) = {Head(mq)}
               /\ Range(mq') = Range(Tail(mq)) \cup {x}
<1>1. mq \in Seq(Items) /\ Len(mq) \in Nat /\ MaxQueue \in Nat \ {0}
  BY RolloutAssumption DEF OutTypes, MaxQueue
<1>2. \A q \in Seq(Items) : /\ Append(q, x) # << >> /\ Len(Append(q, x)) = Len(q) + 1
                            /\ Append(q, x)[Len(q) + 1] = x
                            /\ Range(Append(q, x)) = Range(q) \cup {x}
  BY QueueRanges
<1>3. CASE Len(mq) >= MaxQueue
  <2>1. /\ mq # << >> /\ Len(mq) = MaxQueue /\ Tail(mq) \in Seq(Items)
        /\ Len(Tail(mq)) = Len(mq) - 1
    BY <1>1, <1>3 DEF LenInv
  <2>2. mq' = Append(Tail(mq), x) /\ Channel!Evicted(mq) = {Head(mq)}
    BY <1>3 DEF Channel!Put, Channel!Pushed, Channel!Evicted, Channel!Full
  <2>3. /\ mq' # << >> /\ Len(mq') = Len(Tail(mq)) + 1 /\ mq'[Len(Tail(mq)) + 1] = x
        /\ Range(mq') = Range(Tail(mq)) \cup {x}
    BY <1>2, <2>1, <2>2
  <2>4. Len(Tail(mq)) + 1 = Len(mq) /\ Len(mq) <= MaxQueue
    BY <1>1, <2>1
  <2>5. Len(mq') <= MaxQueue /\ mq'[Len(mq')] = x
    BY <2>3, <2>4
  <2>. QED  BY <2>1, <2>2, <2>3, <2>5
<1>4. CASE ~(Len(mq) >= MaxQueue)
  <2>1. mq' = Append(mq, x) /\ Channel!Evicted(mq) = {}
    BY <1>4 DEF Channel!Put, Channel!Pushed, Channel!Evicted, Channel!Full
  <2>2. Len(mq) < MaxQueue /\ Len(mq) + 1 <= MaxQueue
    BY <1>1, <1>4
  <2>. QED  BY <1>1, <1>2, <2>1, <2>2
<1>. QED  BY <1>3, <1>4

LEMMA HeadTail ==
  ASSUME OutTypes, mq # << >>
  PROVE  /\ Head(mq) \in Items /\ Head(mq) = mq[1] /\ Len(Tail(mq)) = Len(mq) - 1
         /\ Range(mq) = {Head(mq)} \cup Range(Tail(mq))
         /\ Tail(mq) # << >> => Tail(mq)[Len(Tail(mq))] = mq[Len(mq)]
         /\ Len(mq) \in Nat \ {0}
<1>1. mq \in Seq(Items)
  BY DEF OutTypes
<1>2. /\ Len(mq) \in Nat \ {0} /\ Head(mq) \in Items /\ Head(mq) = mq[1]
      /\ DOMAIN mq = 1 .. Len(mq) /\ DOMAIN Tail(mq) = 1 .. Len(mq) - 1
      /\ Len(Tail(mq)) = Len(mq) - 1
      /\ \A i \in 1 .. Len(mq) - 1 : Tail(mq)[i] = mq[i + 1]
  BY <1>1
<1>3. ASSUME NEW y \in Range(mq) PROVE y = Head(mq) \/ y \in Range(Tail(mq))
  <2>1. PICK i \in 1 .. Len(mq) : y = mq[i]
    BY <1>2 DEF Range
  <2>2. i # 1 => i - 1 \in 1 .. Len(mq) - 1 /\ Tail(mq)[i - 1] = y
    <3>1. i # 1 => i - 1 \in 1 .. Len(mq) - 1 /\ (i - 1) + 1 = i
      BY <1>2
    <3>. QED  BY <1>2, <2>1, <3>1
  <2>. QED  BY <1>2, <2>1, <2>2 DEF Range
<1>4. Range(Tail(mq)) \subseteq Range(mq) /\ Head(mq) \in Range(mq)
  BY <1>1, QueueRanges
<1>5. Tail(mq) # << >> => Len(mq) - 1 \in 1 .. Len(mq) - 1 /\ (Len(mq) - 1) + 1 = Len(mq)
  BY <1>2
<1>. QED  BY <1>2, <1>3, <1>4, <1>5

LEMMA LenEndStep ==
  ASSUME Base, Base', LenInv, EndInv, [Next]_vars
  PROVE  LenInv' /\ EndInv'
<1>. SchedTypes /\ OutTypes /\ OutTypes' /\ HandsFull
  BY DEF Base, TypeOK
<1>0. /\ mq \in Seq(Items) /\ mq' \in Seq(Items) /\ Len(mq) \in Nat /\ MaxQueue \in Nat
      /\ Times(mq, End) \in Nat /\ (Times(mq, End) = 0 <=> End \notin Range(mq))
      /\ Times(mq', End) \in Nat /\ (Times(mq', End) = 0 <=> End \notin Range(mq'))
  <2>1. \A q \in Seq(Items) : Times(q, End) \in Nat
                              /\ (Times(q, End) = 0 <=> End \notin Range(q))
    BY TimesType
  <2>2. mq \in Seq(Items) /\ mq' \in Seq(Items) /\ Len(mq) \in Nat /\ MaxQueue \in Nat
    BY RolloutAssumption DEF OutTypes, MaxQueue
  <2>. QED  BY <2>1, <2>2
<1>1. CASE UNCHANGED <<mq, pc["main"], pc["consumer"]>>
  BY <1>1 DEF LenInv, EndInv
<1>2. CASE ConsumerTake
  <2>1. mq' = mq /\ pc["consumer"] = "get" /\ pc'["main"] = pc["main"]
    BY <1>2, OnlyMoves DEF ConsumerTake, At, queueVars, Coroutines
  <2>. QED  BY <2>1 DEF LenInv, EndInv
<1>3. CASE ConsumerPut
  <2>1. /\ chand \in Samples /\ chand \in Items /\ chand # End
        /\ Channel!Put(chand) /\ pc'["main"] = pc["main"]
        /\ \/ pc["consumer"] = "put" /\ pc'["consumer"] = "get"
           \/ pc["consumer"] = "orphan" /\ pc'["consumer"] = "cancelled"
    BY <1>3, OnlyMoves, SamplesReal DEF ConsumerPut, Coroutines, HandsFull, Items
  <2>2. LenInv'
    BY <2>1, PutCases DEF LenInv
  <2>3. Times(mq', End) <= Times(mq, End)
    <3>1. \A y : One(y = End) \in Nat
      BY DEF One
    <3>2. One(chand = End) = 0
      BY <2>1 DEF One
    <3>3. CASE Times(mq', End) = Times(mq, End) + One(chand = End)
      BY <1>0, <3>2, <3>3
    <3>4. ASSUME NEW y \in Items,
                 Times(mq', End) + One(y = End) = Times(mq, End) + One(chand = End)
          PROVE  Times(mq', End) <= Times(mq, End)
      <4>1. One(y = End) \in Nat
        BY <3>1
      <4>2. Times(mq', End) + One(y = End) = Times(mq, End)
        BY <1>0, <3>2, <3>4
      <4>. QED  BY <1>0, <4>1, <4>2
    <3>. QED  BY <2>1, <3>3, <3>4, TimesPut
  <2>4. Times(mq', End) <= 1 /\ (End \in Range(mq') => End \in Range(mq))
    BY <1>0, <2>3 DEF EndInv
  <2>. QED  BY <2>1, <2>2, <2>4 DEF EndInv, Ended
<1>4. CASE MainPutEnd
  <2>1. /\ Channel!Put(End) /\ End \in Items /\ pc["main"] = "putEnd"
        /\ pc'["main"] = "ended" /\ pc'["consumer"] = pc["consumer"]
    BY <1>4, OnlyMoves DEF MainPutEnd, Coroutines, Items
  <2>2. Times(mq, End) = 0
    BY <1>0, <2>1 DEF EndInv, Ended
  <2>3. Times(mq', End) <= 1
    <3>1. \A y : One(y = End) \in Nat
      BY DEF One
    <3>2. One(End = End) = 1
      BY DEF One
    <3>3. CASE Times(mq', End) = Times(mq, End) + One(End = End)
      BY <2>2, <3>2, <3>3
    <3>4. ASSUME NEW y \in Items,
                 Times(mq', End) + One(y = End) = Times(mq, End) + One(End = End)
          PROVE  Times(mq', End) <= 1
      <4>1. One(y = End) \in Nat
        BY <3>1
      <4>2. Times(mq', End) + One(y = End) = 1
        BY <2>2, <3>2, <3>4
      <4>. QED  BY <1>0, <4>1, <4>2
    <3>. QED  BY <2>1, <3>3, <3>4, TimesPut
  <2>. QED  BY <2>1, <2>3, PutCases DEF LenInv, EndInv, Ended
<1>5. CASE Main /\ ~MainPutEnd
  <2>1. mq' = mq
    BY <1>5 DEF Main, MainFeedDone, MainProcDone, MainCancelWorkers, MainStop,
                MainStopped, queueVars
  <2>2. \/ /\ pc["main"] \notin Ended \cup {"putEnd"}
           /\ pc'["main"] \notin Ended
           /\ pc'["main"] = "putEnd" => pc'["consumer"] \in {"orphan", "cancelled"}
        \/ /\ pc["main"] \in Ended /\ pc'["main"] \in Ended
           /\ pc'["consumer"] = pc["consumer"]
    <3>1. CASE MainFeedDone \/ MainProcDone
      <4>1. /\ pc["main"] \in {"awaitFeed", "awaitProc"}
            /\ pc'["main"] \in {"awaitProc", "join"}
        BY <3>1, OnlyMoves DEF MainFeedDone, MainProcDone, At, Coroutines
      <4>. QED  BY <4>1 DEF Ended
    <3>2. CASE MainCancelWorkers
      BY <3>2 DEF MainCancelWorkers, Coroutines, SchedTypes, Ended
    <3>3. CASE MainStop \/ MainStopped
      BY <3>3, OnlyMoves DEF MainStop, MainStopped, At, InLock, Coroutines, Ended
    <3>. QED  BY <1>5, <3>1, <3>2, <3>3 DEF Main
  <2>. QED  BY <2>1, <2>2 DEF LenInv, EndInv, Ended
<1>6. CASE CollectSample \/ CollectEnd
  <2>1. mq # << >> /\ mq' = Tail(mq) /\ UNCHANGED pc
    BY <1>6 DEF CollectSample, CollectEnd, Channel!Take, rollVars, schedVars
  <2>2. Times(mq, End) = Times(mq', End) + One(Head(mq) = End)
    BY <1>0, <2>1, TimesTail
  <2>3. One(Head(mq) = End) \in Nat
    BY DEF One
  <2>4. Times(mq', End) <= 1
    BY <1>0, <2>2, <2>3 DEF EndInv
  <2>5. LenInv'
    BY <1>0, <2>1, HeadTail DEF LenInv
  <2>6. End \in Range(mq') => End \in Range(mq) /\ mq' # << >>
    BY <2>1, HeadTail DEF Range
  <2>. QED  BY <2>1, <2>4, <2>5, <2>6, HeadTail DEF EndInv
<1>. QED
  BY <1>1, <1>2, <1>3, <1>4, <1>5, <1>6, QueueEffects DEF Consumer

LEMMA BatchStep ==
  ASSUME Base, VersionPhases, BatchInv, [Next]_vars PROVE BatchInv'
<1>. USE DEF trainVars
<1>0. IsFiniteSet(batch) /\ Cardinality(batch) \in Nat /\ Required \in Nat \ {0}
  BY SamplesFinite, TrainerAssumption DEF Base, TypeOK, TrainTypes
<1>1. CASE UNCHANGED <<tpc, batch>>
  BY <1>1 DEF BatchInv
<1>2. CASE batch' = {} /\ tpc' \notin {"train"}
  BY <1>0, <1>2, FS_EmptySet DEF BatchInv
<1>3. CASE CollectSample
  <2>1. Cardinality(batch') <= Cardinality(batch) + 1 /\ Cardinality(batch') \in Nat
    <3>1. Cardinality(batch \cup {Head(mq)}) <= Cardinality(batch) + 1
          /\ Cardinality(batch \cup {Head(mq)}) \in Nat
      <4>1. Cardinality(batch \cup {Head(mq)}) \in {Cardinality(batch), Cardinality(batch) + 1}
        BY <1>0, FS_AddElement
      <4>. QED  BY <1>0, <4>1
    <3>. QED  BY <1>3, <3>1 DEF CollectSample
  <2>2. Cardinality(batch) < Required /\ tpc = "collect"
    BY <1>3 DEF CollectSample, BatchInv
  <2>3. Cardinality(batch') <= Required
    BY <1>0, <2>1, <2>2
  <2>4. tpc' = IF Cardinality(batch') = Required THEN "train" ELSE "collect"
    BY <1>3 DEF CollectSample
  <2>. QED  BY <1>0, <2>1, <2>3, <2>4 DEF BatchInv
<1>4. CASE Train /\ ~CollectSample
  BY <1>2, <1>4 DEF Train, TrainStart, CollectEnd, TrainStep, TrainGetVal, TrainFinal, BatchInv
<1>5. CASE Synchronizer
  BY <1>1, <1>2, <1>5
     DEF Synchronizer, SyncStart, SyncTransfer, SyncFire, BatchInv, VersionPhases
<1>. QED
  BY <1>1, <1>3, <1>4, <1>5 DEF Next, Terminated, vars

-----------------------------------------------------------------------------
(* Where a sample is decides its stage, and the queue is as full as the    *)
(* stages say.                                                             *)

(* Two places never hold the same sample.                                  *)
Apart(s) ==
  /\ s > taken => /\ chand # s /\ s \notin Range(mq) /\ s \notin dropped
                  /\ s \notin batch /\ s \notin trained /\ s \notin discarded
  /\ chand = s => /\ s \notin Range(mq) /\ s \notin dropped /\ s \notin batch
                  /\ s \notin trained /\ s \notin discarded
  /\ s \in Range(mq) => s \notin dropped /\ s \notin batch /\ s \notin trained
                        /\ s \notin discarded
  /\ s \in dropped => s \notin batch /\ s \notin trained /\ s \notin discarded
  /\ s \in batch => s \notin trained /\ s \notin discarded
  /\ s \in trained => s \notin discarded
  /\ Times(mq, s) <= 1

LEMMA PlacesApart == TypeOK /\ OneHome => \A s \in Samples : Apart(s)
<1>. SUFFICES ASSUME TypeOK, OneHome, NEW s \in Samples PROVE Apart(s)
  OBVIOUS
<1>1. /\ Times(cancelQ, s) \in Nat /\ Times(resultQ, s) \in Nat /\ Times(mq, s) \in Nat
      /\ Times(mq, s) = 0 <=> s \notin Range(mq)
      /\ taken \in Nat /\ s \in Nat
  BY PlaceTypes, TimesType
<1>2. /\ One(hand = s) \in Nat /\ One(s \in InFlight) \in Nat /\ One(chand = s) \in Nat
      /\ One(s \in dropped) \in Nat /\ One(s \in batch) \in Nat
      /\ One(s \in trained) \in Nat /\ One(s \in discarded) \in Nat
  BY DEF One
<1>3. /\ Homes(s) <= 1 /\ Homes(s) \in Nat
      /\ s > taken => Homes(s) = 0
  BY <1>1 DEF OneHome
<1>. DEFINE Six == One(chand = s) + Times(mq, s) + One(s \in dropped) + One(s \in batch)
                   + One(s \in trained) + One(s \in discarded)
<1>. DEFINE Rest == One(hand = s) + One(s \in InFlight) + Times(cancelQ, s)
                    + Times(resultQ, s)
<1>4. Rest \in Nat /\ Six \in Nat /\ Homes(s) = Rest + Six
  <2>1. Rest \in Nat
    BY <1>1, <1>2
  <2>2. Six \in Nat
    BY <1>1, <1>2
  <2>3. Homes(s) = Rest + One(chand = s) + Times(mq, s) + One(s \in dropped)
                   + One(s \in batch) + One(s \in trained) + One(s \in discarded)
    BY DEF Homes
  <2>. HIDE DEF Rest
  <2>. QED  BY <1>1, <1>2, <2>1, <2>2, <2>3
<1>. HIDE DEF Rest
<1>6. Six <= 1 /\ (s > taken => Six = 0)
  BY <1>3, <1>4
<1>7. /\ One(chand = s) = 1 => Times(mq, s) = 0 /\ One(s \in dropped) = 0
           /\ One(s \in batch) = 0 /\ One(s \in trained) = 0 /\ One(s \in discarded) = 0
      /\ Times(mq, s) # 0 => Times(mq, s) = 1 /\ One(s \in dropped) = 0
           /\ One(s \in batch) = 0 /\ One(s \in trained) = 0 /\ One(s \in discarded) = 0
  BY <1>1, <1>2, <1>6
<1>. DEFINE Four == One(s \in dropped) + One(s \in batch) + One(s \in trained)
                    + One(s \in discarded)
<1>5. Four \in Nat /\ Four <= 1 /\ (Six = 0 => One(chand = s) = 0 /\ Times(mq, s) = 0
                                                 /\ Four = 0)
  <2>1. Four \in Nat
    BY <1>2
  <2>2. Six = One(chand = s) + Times(mq, s) + Four
    BY <1>1, <1>2
  <2>. HIDE DEF Six, Four
  <2>. QED  BY <1>1, <1>2, <1>4, <1>6, <2>1, <2>2
<1>. HIDE DEF Six
<1>9. /\ One(s \in dropped) = 1 =>
           One(s \in batch) = 0 /\ One(s \in trained) = 0 /\ One(s \in discarded) = 0
      /\ One(s \in batch) = 1 => One(s \in trained) = 0 /\ One(s \in discarded) = 0
      /\ One(s \in trained) = 1 => One(s \in discarded) = 0
  <2>1. Four <= 1
    BY <1>5
  <2>2. One(s \in dropped) = 1 =>
          One(s \in batch) = 0 /\ One(s \in trained) = 0 /\ One(s \in discarded) = 0
    BY <1>2, <2>1
  <2>3. One(s \in batch) = 1 => One(s \in trained) = 0 /\ One(s \in discarded) = 0
    BY <1>2, <2>1
  <2>4. One(s \in trained) = 1 => One(s \in discarded) = 0
    BY <1>2, <2>1
  <2>. QED  BY <2>2, <2>3, <2>4
<1>10. s > taken => /\ One(chand = s) = 0 /\ Times(mq, s) = 0 /\ One(s \in dropped) = 0
           /\ One(s \in batch) = 0 /\ One(s \in trained) = 0 /\ One(s \in discarded) = 0
  <2>. SUFFICES ASSUME s > taken PROVE
         /\ One(chand = s) = 0 /\ Times(mq, s) = 0 /\ One(s \in dropped) = 0
         /\ One(s \in batch) = 0 /\ One(s \in trained) = 0 /\ One(s \in discarded) = 0
    OBVIOUS
  <2>1. One(chand = s) = 0 /\ Times(mq, s) = 0 /\ Four = 0
    BY <1>5, <1>6
  <2>. QED  BY <1>2, <2>1
<1>. HIDE DEF Four
<1>8. Times(mq, s) <= 1
  BY <1>1, <1>7
<1>. QED  BY <1>1, <1>7, <1>8, <1>9, <1>10 DEF Apart, One

Staged(s) ==
  /\ Stage(s) = "data" <=> s > taken
  /\ Stage(s) = "queued" <=> s \in Range(mq)
  /\ Stage(s) = "batched" <=> s \in batch
  /\ Stage(s) = "trained" <=> s \in trained
  /\ Stage(s) = "dropped" <=> s \in dropped
  /\ Stage(s) = "discarded" <=> s \in discarded
  /\ chand = s => Stage(s) = "rollout"
  /\ Stage(s) \in Flow!Stages

LEMMA StageIs == TypeOK /\ OneHome => \A s \in Samples : Staged(s)
<1>. SUFFICES ASSUME TypeOK, OneHome, NEW s \in Samples PROVE Staged(s)
  OBVIOUS
<1>1. Apart(s)
  BY PlacesApart
<1>. QED  BY <1>1 DEF Apart, Staged, Stage, Flow!Stages

(* What is in a queue once is not at two places of it.                     *)
LEMMA Twice ==
  ASSUME NEW q \in Seq(Items), NEW i \in 1 .. Len(q), NEW j \in 1 .. Len(q),
         q[i] = q[j], Times(q, q[i]) <= 1
  PROVE  i = j
<1>. SUFFICES ASSUME i # j PROVE FALSE
  OBVIOUS
<1>. DEFINE A == {k \in DOMAIN q : q[k] = q[i]}
            B == {i} \cup {j}
<1>1. IsFiniteSet(A) /\ Cardinality(A) <= 1 /\ Cardinality(A) \in Nat
  BY TimesType DEF Times
<1>2. B \in SUBSET A
  OBVIOUS
<1>3. Cardinality(B) = 2
  <2>1. IsFiniteSet({i}) /\ Cardinality({i}) = 1 /\ j \notin {i}
    BY FS_Singleton
  <2>2. Cardinality(B) = Cardinality({i}) + 1
    BY <2>1, FS_AddElement
  <2>. HIDE DEF B
  <2>. QED  BY <2>1, <2>2
<1>. HIDE DEF A, B
<1>4. Cardinality(B) <= Cardinality(A)
  BY <1>1, <1>2, FS_Subset
<1>. QED  BY <1>1, <1>3, <1>4

LEMMA QueueCount ==
  ASSUME TypeOK, OneHome, EndInv
  PROVE  /\ Cardinality({s \in Samples : s \in Range(mq)})
              + (IF End \in Range(mq) THEN 1 ELSE 0) = Len(mq)
         /\ Cardinality({s \in Samples : s \in Range(mq)}) \in Nat
<1>. DEFINE Q == {s \in Samples : s \in Range(mq)}
            n == Len(mq)
<1>1. mq \in Seq(Items) /\ n \in Nat /\ DOMAIN mq = 1 .. n /\ End \notin Samples
  BY PlaceTypes
<1>2. \A x \in Items : Times(mq, x) <= 1 /\ Times(mq, x) \in Nat
  <2>1. \A x \in Items : Times(mq, x) \in Nat
    BY <1>1, TimesType
  <2>. QED  BY <2>1, PlacesApart DEF Apart, EndInv, Items
<1>3. ASSUME NEW i \in 1 .. n, NEW j \in 1 .. n, mq[i] = mq[j] PROVE i = j
  <2>1. mq[i] \in Items
    BY <1>1
  <2>2. Times(mq, mq[i]) <= 1
    BY <1>2, <2>1
  <2>. QED  BY <1>1, <1>3, <2>2, Twice
<1>4. Cardinality(Range(mq)) = n /\ IsFiniteSet(Range(mq))
  <2>1. mq = [i \in 1 .. n |-> mq[i]]
    BY <1>1
  <2>2. mq \in Bijection(1 .. n, Range(mq))
    BY <1>1, <1>3, <2>1 DEF Bijection, Injection, Surjection, IsInjective, Range
  <2>3. n \in Nat
    BY <1>1
  <2>. HIDE DEF n
  <2>4. IsFiniteSet(1 .. n) /\ Cardinality(1 .. n) = n
    BY <2>3, FS_Interval
  <2>. QED  BY <2>2, <2>4, FS_Bijection DEF ExistsBijection
<1>5. Range(mq) \subseteq Samples \cup {End}
  BY <1>1 DEF Range, Items
<1>6. IsFiniteSet(Q) /\ Cardinality(Q) \in Nat
  BY SamplesFinite
<1>7. CASE End \in Range(mq)
  <2>1. Range(mq) = Q \cup {End} /\ End \notin Q
    BY <1>1, <1>5, <1>7
  <2>2. Cardinality(Q \cup {End}) = Cardinality(Q) + 1
    BY <1>6, <2>1, FS_AddElement
  <2>. QED  BY <1>4, <1>6, <1>7, <2>1, <2>2
<1>8. CASE End \notin Range(mq)
  <2>1. Range(mq) = Q
    BY <1>5, <1>8
  <2>2. Cardinality(Q) = n
    BY <1>4, <2>1
  <2>. QED  BY <1>6, <1>8, <2>2
<1>. QED  BY <1>7, <1>8

-----------------------------------------------------------------------------
(* Every step of FullyAsync is a step of SampleFlow or stutters.           *)

FlowInv == Base /\ HandsEmpty /\ OneHome /\ VersionPhases /\ LenInv /\ EndInv /\ BatchInv

(* The state of SampleFlow that a state of FullyAsync stands for.          *)
Map == [s \in Samples |-> Stage(s)]
Marker == End \in Range(mq)

LEMMA FlowCard == \A S : Flow!Cardinality(S) = Cardinality(S)
BY DEF Flow!Cardinality, Cardinality

(* What a step of SampleFlow sees of a state.                              *)
LEMMA FlowView ==
  ASSUME FlowInv
  PROVE  /\ Flow!Samples = Samples
         /\ Flow!In("data") = {s \in Samples : s > taken}
         /\ Flow!In("queued") = {s \in Samples : s \in Range(mq)}
         /\ Flow!In("batched") = batch
         /\ Flow!Occupied = Len(mq)
         /\ \A s \in Samples : Staged(s)
         /\ \A st : \A s \in Samples : s \in Flow!In(st) <=> Stage(s) = st
<1>1. \A s \in Samples : Staged(s)
  BY StageIs DEF FlowInv, Base
<1>2. Flow!Samples = Samples
  BY DEF Flow!Samples, Samples
<1>3. batch \subseteq Samples
  BY DEF FlowInv, Base, TypeOK, TrainTypes
<1>4. /\ Flow!In("data") = {s \in Samples : s > taken}
      /\ Flow!In("queued") = {s \in Samples : s \in Range(mq)}
      /\ Flow!In("batched") = batch
  BY <1>1, <1>2, <1>3 DEF Flow!In, Staged
<1>5. Flow!Occupied = Len(mq)
  <2>1. Cardinality({s \in Samples : s \in Range(mq)})
          + (IF End \in Range(mq) THEN 1 ELSE 0) = Len(mq)
    BY QueueCount DEF FlowInv, Base
  <2>. QED  BY <1>4, <2>1, FlowCard DEF Flow!Occupied
<1>6. \A st : \A s \in Samples : s \in Flow!In(st) <=> Stage(s) = st
  BY <1>2 DEF Flow!In
<1>. QED  BY <1>1, <1>2, <1>4, <1>5, <1>6

LEMMA StagedNext == FlowInv' => \A s \in Samples : Staged(s)'
<1>1. (TypeOK /\ OneHome => \A s \in Samples : Staged(s))'
  BY StageIs, PTL
<1>. QED  BY <1>1 DEF FlowInv, Base

(* A sample stays in its stage unless its place changes.                   *)
SamePlace(s) ==
  /\ s > taken' <=> s > taken
  /\ s \in Range(mq') <=> s \in Range(mq)
  /\ s \in batch' <=> s \in batch
  /\ s \in trained' <=> s \in trained
  /\ s \in dropped' <=> s \in dropped
  /\ s \in discarded' <=> s \in discarded

LEMMA StageSame ==
  ASSUME NEW s \in Samples, Staged(s), Staged(s)', SamePlace(s)
  PROVE  Stage(s)' = Stage(s)
BY DEF Staged, SamePlace, Flow!Stages

LEMMA StutterFlow ==
  ASSUME FlowInv, FlowInv', \A s \in Samples : SamePlace(s), Marker' = Marker
  PROVE  UNCHANGED Flow!flowVars
<1>1. \A s \in Samples : Stage(s)' = Stage(s)
  BY FlowView, StagedNext, StageSame
<1>. QED  BY <1>1 DEF Flow!flowVars, Marker

LEMMA MoveIs ==
  ASSUME NEW S, NEW st, \A s \in Samples : Stage(s)' = IF s \in S THEN st ELSE Stage(s)
  PROVE  Map' = Flow!Move(S, st)
BY DEF Map, Flow!Move, Flow!Samples, Samples

(* The prompt after the last is the "DONE" that no sample stands for.      *)
LEMMA FlowTake ==
  ASSUME FlowInv, FlowInv', TakePending, UNCHANGED trainVars
  PROVE  Flow!TakePrompt \/ UNCHANGED Flow!flowVars
<1>1. /\ taken' = taken + 1 /\ taken' \in 0 .. Done /\ taken \in Nat
      /\ UNCHANGED <<mq, batch, trained, dropped, discarded>>
  BY DEF TakePending, queueVars, trainVars, FlowInv, Base, TypeOK, InputTypes
<1>2. Marker' = Marker
  BY <1>1 DEF Marker
<1>3. Samples \subseteq Nat /\ Done = Total + 1 /\ Total \in Nat /\ Samples = 1 .. Total
  BY RolloutAssumption DEF Samples, Done
<1>4. CASE taken' = Done
  <2>1. ASSUME NEW s \in Samples PROVE SamePlace(s)
    <3>1. s \in Nat /\ s <= Total /\ taken = Total /\ taken' = Total + 1
      BY <1>1, <1>3, <1>4
    <3>. QED  BY <1>1, <3>1 DEF SamePlace
  <2>. QED  BY <1>2, <2>1, StutterFlow
<1>5. CASE taken' # Done
  <2>1. PICK n \in Samples : n = taken + 1
    BY <1>1, <1>3, <1>5
  <2>2. n > taken /\ ~(n > taken')
    BY <1>1, <2>1
  <2>3. ASSUME NEW s \in Samples, s # n PROVE Stage(s)' = Stage(s)
    <3>1. s > taken' <=> s > taken
      BY <1>1, <1>3, <2>1, <2>3
    <3>. QED  BY <1>1, <3>1, FlowView, StagedNext, StageSame DEF SamePlace
  <2>4. Stage(n) = "data" /\ Stage(n)' = "rollout"
    <3>1. Staged(n) /\ Staged(n)'
      BY <2>1, FlowView, StagedNext
    <3>. QED  BY <1>1, <2>2, <3>1 DEF Staged, Flow!Stages
  <2>5. \A t \in Flow!In("data") : n <= t
    BY <1>1, <1>3, <2>1, FlowView
  <2>6. n \in Flow!In("data") /\ Map' = Flow!Move({n}, "rollout")
    <3>1. \A s \in Samples : Stage(s)' = IF s \in {n} THEN "rollout" ELSE Stage(s)
      BY <2>3, <2>4
    <3>. QED  BY <2>4, <3>1, FlowView, MoveIs
  <2>. QED  BY <1>2, <2>5, <2>6 DEF Flow!TakePrompt, Map, Marker
<1>. QED  BY <1>4, <1>5

LEMMA FlowFetch ==
  ASSUME FlowInv, FlowInv', CollectSample
  PROVE  Flow!Fetch
<1>1. /\ mq # << >> /\ mq' = Tail(mq) /\ Head(mq) # End /\ batch' = batch \cup {Head(mq)}
      /\ tpc = "collect" /\ UNCHANGED <<taken, trained, dropped, discarded>>
  BY DEF CollectSample, Channel!Take, rollVars, inputVars
<1>2. PICK h \in Samples : h = Head(mq) /\ Range(mq) = {h} \cup Range(mq')
  BY <1>1, HeadTail DEF FlowInv, Base, TypeOK, Items
<1>3. Marker' = Marker
  BY <1>1, <1>2 DEF Marker
<1>4. ASSUME NEW s \in Samples, s # h PROVE Stage(s)' = Stage(s)
  BY <1>1, <1>2, <1>4, FlowView, StagedNext, StageSame DEF SamePlace
<1>5. Stage(h) = "queued" /\ Stage(h)' = "batched"
  <2>1. Staged(h) /\ Staged(h)' /\ h \in Range(mq) /\ h \in batch'
    BY <1>1, <1>2, FlowView, StagedNext
  <2>. QED  BY <2>1 DEF Staged
<1>6. h \in Flow!In("queued") /\ Map' = Flow!Move({h}, "batched")
  <2>1. \A s \in Samples : Stage(s)' = IF s \in {h} THEN "batched" ELSE Stage(s)
    BY <1>4, <1>5
  <2>. QED  BY <1>5, <2>1, FlowView, MoveIs
<1>7. Flow!Cardinality(Flow!In("batched")) < Required
  BY <1>1, FlowView, FlowCard DEF FlowInv, BatchInv
<1>. QED  BY <1>3, <1>6, <1>7 DEF Flow!Fetch, Map, Marker

LEMMA FlowFetchMarker ==
  ASSUME FlowInv, FlowInv', CollectEnd
  PROVE  Flow!FetchMarker
<1>1. /\ mq # << >> /\ mq' = Tail(mq) /\ Head(mq) = End /\ batch' = {}
      /\ discarded' = batch /\ tpc = "collect" /\ UNCHANGED <<taken, trained, dropped>>
  BY DEF CollectEnd, Channel!Take, rollVars, inputVars
<1>2. /\ mq \in Seq(Items) /\ mq' \in Seq(Items) /\ End \notin Samples
      /\ Range(mq) = {End} \cup Range(mq') /\ batch \subseteq Samples
  BY <1>1, HeadTail, PlaceTypes DEF FlowInv, Base, TypeOK, OutTypes, TrainTypes
<1>3. End \in Range(mq) /\ End \notin Range(mq')
  <2>1. /\ Times(mq, End) \in Nat /\ Times(mq', End) \in Nat
        /\ (Times(mq', End) = 0 <=> End \notin Range(mq'))
    BY <1>2, TimesType
  <2>2. Times(mq, End) = Times(mq', End) + One(End = End)
    BY <1>1, <1>2, TimesTail
  <2>3. Times(mq, End) <= 1 /\ One(End = End) = 1
    BY DEF FlowInv, EndInv, One
  <2>. QED  BY <1>2, <2>1, <2>2, <2>3
<1>4. discarded = {}
  BY <1>1 DEF FlowInv, HandsEmpty
<1>5. ASSUME NEW s \in Samples, s \notin batch PROVE Stage(s)' = Stage(s)
  BY <1>1, <1>2, <1>4, <1>5, FlowView, StagedNext, StageSame DEF SamePlace
<1>6. ASSUME NEW s \in Samples, s \in batch PROVE Stage(s)' = "discarded"
  BY <1>1, <1>6, StagedNext DEF Staged
<1>7. Map' = Flow!Move(Flow!In("batched"), "discarded")
  BY <1>5, <1>6, FlowView, MoveIs
<1>8. Flow!Cardinality(Flow!In("batched")) < Required
  BY <1>1, FlowView, FlowCard DEF FlowInv, BatchInv
<1>. QED  BY <1>3, <1>7, <1>8 DEF Flow!FetchMarker, Map

LEMMA FlowTrains ==
  ASSUME FlowInv, FlowInv', TrainStep
  PROVE  Flow!FlowTrain
<1>1. /\ tpc = "train" /\ batch' = {} /\ trained' = trained \cup batch
      /\ UNCHANGED <<taken, mq, dropped, discarded>>
  BY DEF TrainStep, rollVars, inputVars
<1>2. Marker' = Marker
  BY <1>1 DEF Marker
<1>3. ASSUME NEW s \in Samples, s \notin batch PROVE Stage(s)' = Stage(s)
  BY <1>1, <1>3, FlowView, StagedNext, StageSame DEF SamePlace
<1>4. ASSUME NEW s \in Samples, s \in batch PROVE Stage(s)' = "trained"
  BY <1>1, <1>4, StagedNext DEF Staged
<1>5. Map' = Flow!Move(Flow!In("batched"), "trained")
  BY <1>3, <1>4, FlowView, MoveIs
<1>6. Flow!Cardinality(Flow!In("batched")) = Required
  BY <1>1, FlowView, FlowCard DEF FlowInv, BatchInv
<1>. QED  BY <1>2, <1>5, <1>6 DEF Flow!FlowTrain, Map, Marker

(* What a put pushes out of a full queue is a sample, unless the queue has *)
(* but one place: a put that outlives its consumer would push the end      *)
(* marker out.                                                             *)
LEMMA FlowPushed ==
  ASSUME FlowInv, NEW x \in Items, Channel!Put(x),
         Channel!Evicted(mq) \subseteq Samples
  PROVE  /\ Channel!Evicted(mq) \in SUBSET Flow!In("queued")
         /\ Flow!Pushed(Channel!Evicted(mq))
<1>. DEFINE E == Channel!Evicted(mq)
<1>1. OutTypes /\ LenInv /\ Len(mq) \in Nat /\ MaxQueue \in Nat
  BY RolloutAssumption DEF FlowInv, Base, TypeOK, OutTypes, MaxQueue
<1>2. CASE E = {}
  <2>1. Flow!Cardinality(E) = 0 /\ Len(mq) < MaxQueue
    BY <1>1, <1>2, PutCases, FlowCard, FS_EmptySet
  <2>. QED  BY <1>1, <1>2, <2>1, FlowView DEF Flow!Pushed
<1>3. CASE E # {}
  <2>1. Len(mq) = MaxQueue /\ mq # << >> /\ E = {Head(mq)}
    BY <1>1, <1>3, PutCases
  <2>2. E \subseteq Flow!In("queued")
    BY <1>1, <2>1, HeadTail, FlowView
  <2>3. Flow!Cardinality(E) = 1
    BY <2>1, FlowCard, FS_Singleton
  <2>4. Len(mq) >= MaxQueue /\ Len(mq) - 1 < MaxQueue
    BY <1>1, <2>1
  <2>. QED  BY <2>2, <2>3, <2>4, FlowView DEF Flow!Pushed
<1>. QED  BY <1>2, <1>3

(* What is in the queue after a put, and what is not.                      *)
LEMMA PutPlaces ==
  ASSUME OutTypes, LenInv, NEW x \in Items, Channel!Put(x), NEW y, y # x,
         y \notin Channel!Evicted(mq)
  PROVE  x \in Range(mq') /\ (y \in Range(mq') <=> y \in Range(mq))
<1>1. CASE Range(mq') = Range(mq) \cup {x}
  BY <1>1
<1>2. CASE mq # << >> /\ Channel!Evicted(mq) = {Head(mq)}
           /\ Range(mq') = Range(Tail(mq)) \cup {x}
  BY <1>2, HeadTail
<1>. QED  BY <1>1, <1>2, PutCases

LEMMA FlowDeliver ==
  ASSUME FlowInv, FlowInv', MaxRequired > 1, ConsumerPut, UNCHANGED trainVars
  PROVE  Flow!Deliver
<1>1. /\ Channel!Put(chand) /\ dropped' = dropped \cup Channel!Evicted(mq)
      /\ pc["consumer"] \in {"put", "orphan"}
      /\ UNCHANGED <<taken, batch, trained, discarded>>
  BY DEF ConsumerPut, inputVars, trainVars
<1>2. OutTypes /\ LenInv
  BY DEF FlowInv, Base, TypeOK
<1>3. PICK s \in Samples : s = chand
  BY <1>1 DEF FlowInv, Base, HandsFull
<1>4. s \in Items /\ s # End
  BY SamplesReal DEF Items
<1>5. PICK E : E = Channel!Evicted(mq)
  OBVIOUS
<1>6. E \subseteq Items /\ End \notin E
  <2>1. SUFFICES ASSUME Len(mq) = MaxQueue, mq # << >>, E = {Head(mq)}, Head(mq) = End
                 PROVE  FALSE
    BY <1>1, <1>2, <1>3, <1>4, <1>5, PutCases, HeadTail
  <2>2. /\ mq[1] = End /\ Len(mq) \in Nat /\ End \in Range(mq) /\ End \in Items
        /\ mq \in Seq(Items)
    BY <1>2, <2>1, HeadTail DEF OutTypes, Items
  <2>3. mq[Len(mq)] = End
    BY <1>1, <2>2 DEF FlowInv, EndInv, Ended
  <2>4. Len(mq) > 1
    BY <2>1 DEF MaxQueue
  <2>. QED  BY <2>2, <2>3, <2>4, Twice DEF FlowInv, EndInv
<1>7. E \subseteq Samples
  BY <1>6 DEF Items
<1>8. E \in SUBSET Flow!In("queued") /\ Flow!Pushed(E)
  BY <1>1, <1>3, <1>4, <1>5, <1>7, FlowPushed
<1>9. Marker' = Marker
  BY <1>1, <1>2, <1>3, <1>4, <1>5, <1>6, PutPlaces DEF Marker
<1>10. Stage(s) = "rollout" /\ Stage(s)' = "queued"
  <2>1. Staged(s) /\ Staged(s)'
    BY FlowView, StagedNext
  <2>2. s \in Range(mq')
    BY <1>1, <1>2, <1>3, <1>4, PutCases DEF Range
  <2>. QED  BY <1>3, <2>1, <2>2 DEF Staged
<1>11. ASSUME NEW t \in Samples, t \in E PROVE Stage(t)' = "dropped"
  BY <1>1, <1>5, <1>11, StagedNext DEF Staged
<1>12. ASSUME NEW t \in Samples, t # s, t \notin E PROVE Stage(t)' = Stage(t)
  <2>1. t \in Range(mq') <=> t \in Range(mq)
    BY <1>1, <1>2, <1>3, <1>4, <1>5, <1>12, PutPlaces
  <2>. QED
    BY <1>1, <1>5, <1>12, <2>1, FlowView, StagedNext, StageSame DEF SamePlace
<1>13. Map' = [t \in Flow!Samples |-> CASE t = s -> "queued"
                                        [] t \in E -> "dropped"
                                        [] OTHER -> Stage(t)]
  BY <1>10, <1>11, <1>12, <1>8, FlowView DEF Map
<1>. QED  BY <1>8, <1>9, <1>10, <1>13, FlowView DEF Flow!Deliver, Map, Marker

LEMMA FlowDeliverMarker ==
  ASSUME FlowInv, FlowInv', MainPutEnd, UNCHANGED trainVars
  PROVE  Flow!DeliverMarker
<1>1. /\ Channel!Put(End) /\ dropped' = dropped \cup Channel!Evicted(mq)
      /\ pc["main"] = "putEnd" /\ UNCHANGED <<taken, batch, trained, discarded>>
  BY DEF MainPutEnd, inputVars, trainVars
<1>2. OutTypes /\ LenInv /\ End \in Items /\ End \notin Range(mq)
  BY <1>1 DEF FlowInv, Base, TypeOK, Items, EndInv, Ended
<1>3. PICK E : E = Channel!Evicted(mq)
  OBVIOUS
<1>4. E \subseteq Samples
  BY <1>1, <1>2, <1>3, PutCases, HeadTail DEF Items
<1>5. E \in SUBSET Flow!In("queued") /\ Flow!Pushed(E)
  BY <1>1, <1>2, <1>3, <1>4, FlowPushed
<1>6. End \in Range(mq')
  BY <1>1, <1>2, PutCases DEF Range
<1>7. ASSUME NEW t \in Samples, t \in E PROVE Stage(t)' = "dropped"
  BY <1>1, <1>3, <1>7, StagedNext DEF Staged
<1>8. ASSUME NEW t \in Samples, t \notin E PROVE Stage(t)' = Stage(t)
  <2>1. t \in Range(mq') <=> t \in Range(mq)
    BY <1>1, <1>2, <1>3, <1>8, PutPlaces, SamplesReal
  <2>. QED
    BY <1>1, <1>3, <1>8, <2>1, FlowView, StagedNext, StageSame DEF SamePlace
<1>9. Map' = Flow!Move(E, "dropped")
  BY <1>7, <1>8, MoveIs
<1>. QED  BY <1>5, <1>6, <1>9 DEF Flow!DeliverMarker, Map

LEMMA FlowInit == Init => FlowInv /\ Flow!FlowInit
<1>. SUFFICES ASSUME Init PROVE FlowInv /\ Flow!FlowInit
  OBVIOUS
<1>1. Base
  BY InitTypes DEF Base
<1>2. OneHome /\ HandsEmpty
  BY HomesInit
<1>3. /\ mq = << >> /\ pc["main"] = "awaitFeed" /\ tpc = "start" /\ batch = {}
      /\ taken = 0 /\ Range(mq) = {}
  BY DEF Init, RollInit, TrainerInit, Range
<1>4. VersionPhases
  BY DEF Init, RollInit, TrainerInit, VersionPhases
<1>5. LenInv /\ EndInv /\ BatchInv
  <2>1. Times(mq, End) = 0
    BY <1>3, TimesEmpty
  <2>2. Len(mq) = 0 /\ MaxQueue \in Nat
    BY <1>3, RolloutAssumption DEF MaxQueue
  <2>. QED  BY <1>3, <2>1, <2>2 DEF LenInv, EndInv, BatchInv, Ended
<1>6. FlowInv
  BY <1>1, <1>2, <1>4, <1>5 DEF FlowInv
<1>7. \A s \in Samples : Stage(s) = "data"
  <2>1. \A s \in Samples : s > 0
    BY RolloutAssumption DEF Samples
  <2>. QED  BY <1>3, <1>6, <2>1, FlowView DEF Staged
<1>. QED  BY <1>3, <1>6, <1>7, FlowView DEF Flow!FlowInit

LEMMA FlowInvStep == ASSUME Base, Base', FlowInv, [Next]_vars PROVE FlowInv'
BY HomesStep, EmptyStep, PhasesStep, LenEndStep, BatchStep DEF FlowInv, Base, TypeOK

LEMMA FlowStep ==
  ASSUME FlowInv, FlowInv', MaxRequired > 1, [Next]_vars
  PROVE  Flow!FlowNext \/ UNCHANGED Flow!flowVars
<1>1. CASE UNCHANGED <<taken, mq, batch, trained, dropped, discarded>>
  BY <1>1, StutterFlow DEF SamePlace, Marker
<1>2. CASE (ProcTake \/ ProcGot) /\ UNCHANGED trainVars
  BY <1>2, FlowTake DEF ProcTake, ProcGot, Flow!FlowNext
<1>3. CASE (ConsumerPut \/ MainPutEnd) /\ UNCHANGED trainVars
  BY <1>3, FlowDeliver, FlowDeliverMarker DEF Flow!FlowNext
<1>4. CASE CollectSample \/ CollectEnd \/ TrainStep
  BY <1>4, FlowFetch, FlowFetchMarker, FlowTrains DEF Flow!FlowNext
<1>5. CASE /\ UNCHANGED trainVars
           /\ \/ ProcTakeCancelled \/ ProcSubmit \/ ConsumerTake \/ PauseCancel
              \/ \E s \in Samples : Task(s)
  <2>1. UNCHANGED <<taken, mq, dropped>>
    BY <1>5 DEF ProcTakeCancelled, ProcSubmit, ConsumerTake, PauseCancel, Task,
                TaskStart, TaskFinish, TaskCancelled, inputVars, queueVars
  <2>. QED  BY <1>1, <1>5, <2>1 DEF trainVars
<1>. QED  BY <1>1, <1>2, <1>3, <1>4, <1>5, PlaceEffects DEF Places

(* The whole system lets a sample live the life of module SampleFlow:      *)
(* fully_async_rollouter.py, message_queue.py:75-107 and                   *)
(* fully_async_trainer.py:131-211 together deliver a prompt at most once,  *)
(* train on it at most once and only in a full batch, if the queue has     *)
(* room for more than one sample.                                          *)
THEOREM SpecImplementsFlow == MaxRequired > 1 => (SafetySpec => ImplementsFlow)
<1>. SUFFICES ASSUME MaxRequired > 1 PROVE SafetySpec => ImplementsFlow
  OBVIOUS
<1>1. Init => FlowInv /\ Flow!FlowInit
  BY FlowInit
<1>2. Base /\ Base' /\ FlowInv /\ [Next]_vars => FlowInv'
  BY FlowInvStep
<1>3. FlowInv /\ FlowInv' /\ [Next]_vars => [Flow!FlowNext]_(Flow!flowVars)
  BY FlowStep
<1>. QED
  BY <1>1, <1>2, <1>3, SpecTypes, PTL DEF SafetySpec, Base, ImplementsFlow, Flow!FlowSpec

-----------------------------------------------------------------------------
(* With staleness_threshold 0, where MaxRequired = Required * Trigger, the *)
(* Trainer uses up what a version may generate before the next one begins. *)

(* fit() has left its loop.                                                *)
Over == {"finalWait", "finalSync", "finalVal", "done"}

(* A version of the Trainer costs MaxRequired samples, and the Rollouter   *)
(* takes no more for a version; while staleness_samples is being computed  *)
(* its old value keeps the processor from taking any.                      *)
QuotaInv ==
  /\ Cardinality(trained) = MaxRequired * tversion + Required * (local - 1)
  /\ taken <= MaxRequired * version + MaxRequired
  /\ taken <= MaxRequired * version + staleness
  /\ pc["proc"] = "get" => staleness < MaxRequired
  /\ pc["update"] \in {"askSize", "set"} =>
       taken <= MaxRequired * version /\ staleness >= MaxRequired

(* A sample that is not trained on was not stamped by an earlier version.  *)
FreshInv ==
  /\ \A s \in Samples : s > taken => startV[s] = -1 /\ endV[s] = -1
  /\ \A s \in Samples \ trained : startV[s] \in {-1, version} /\ endV[s] \in {-1, version}

SyncInv == tpc \notin Over => QuotaInv /\ FreshInv

LEMMA NextVersion ==
  \A n \in Nat : /\ MaxRequired * n \in Nat
                 /\ MaxRequired * (n + 1) = MaxRequired * n + MaxRequired
BY RolloutAssumption

(* The processor waits for a prompt only where it may take one.            *)
LEMMA GetMoves ==
  ASSUME SchedTypes, Processor, pc'["proc"] = "get"
  PROVE  ProcAwaitPending
<1>1. \A l, q : Acquire("proc", q, l) \/ AcquireAndWait("proc", q, l) \/ Leave("proc", l)
                \/ Goto("proc", l) => l = "get"
  BY OnlyMoves DEF Coroutines
<1>2. ASSUME NEW q, NEW rem, AwaitSlot(q, rem) PROVE FALSE
  BY <1>1, <1>2 DEF AwaitSlot
<1>3. ASSUME NEW at \in Loops, NEW q, NEW rem, AfterReap(at, q, rem) PROVE FALSE
  BY <1>1, <1>2, <1>3 DEF AfterReap, Loops
<1>4. CASE ProcPause \/ ProcSetPaused \/ ProcAwaitResume \/ ProcSubmit \/ ProcWake
  BY <1>1, <1>4 DEF ProcPause, ProcSetPaused, ProcAwaitResume, ProcSubmit, ProcWake
<1>5. CASE ProcTakeCancelled \/ ProcTake \/ ProcGot
  BY <1>1, <1>2, <1>5 DEF ProcTakeCancelled, ProcTake, ProcGot, TakePending
<1>6. ASSUME NEW at \in Loops, ProcReap(at) \/ ProcNothingToReap(at) PROVE FALSE
  BY <1>1, <1>3, <1>6 DEF ProcReap, ProcNothingToReap
<1>. QED  BY <1>4, <1>5, <1>6 DEF Processor

(* The steps that touch what the processor may take.                       *)
LEMMA TakenEffects ==
  ASSUME SchedTypes, [Next]_vars
  PROVE  \/ UNCHANGED <<taken, staleness>> /\ pc'["proc"] \in {pc["proc"], Notified}
         \/ Processor \/ UpdateSet(syncVersion, syncValidate)
<1>. USE DEF inputVars, freshVars, schedVars, Coroutines
<1>1. CASE Feed \/ Monitor
  BY <1>1
     DEF Feed, Goto, Monitor, MonitorTick, MonitorLift, MonitorCheck, Acquire, Leave,
         SchedTypes
<1>2. ASSUME NEW s \in Samples, Task(s)
      PROVE  UNCHANGED <<taken, staleness>> /\ pc'["proc"] = pc["proc"]
  BY <1>2 DEF Task, TaskStart, TaskFinish, TaskCancelled
<1>3. CASE Consumer \/ Main
  BY <1>3
     DEF Consumer, ConsumerTake, ConsumerPut, Main, MainFeedDone, MainProcDone,
         MainCancelWorkers, MainPutEnd, MainStop, MainStopped, Acquire, Leave, Goto,
         SchedTypes
<1>4. CASE Pause
  BY <1>4
     DEF Pause, PauseCall, PauseBegin, PauseCancel, PauseGather, PauseEnd, Acquire,
         Leave, Goto, SchedTypes
<1>5. CASE Update(syncVersion, syncValidate) /\ ~UpdateSet(syncVersion, syncValidate)
  BY <1>5
     DEF Update, UpdateCall, UpdateBegin, UpdateSize, UpdateEnd, Acquire, Leave, Goto,
         SchedTypes
<1>6. CASE Resume
  BY <1>6
     DEF Resume, ResumeCall, ResumeBegin, ResumeServers, Acquire, Leave, Goto, SchedTypes
<1>7. CASE Train \/ Synchronizer
  BY <1>7
     DEF Train, TrainStart, CollectSample, CollectEnd, TrainStep, TrainGetVal,
         TrainFinal, Synchronizer, SyncStart, SyncTransfer, SyncFire, rollVars, Goto,
         SchedTypes
<1>8. CASE UNCHANGED vars
  BY <1>8 DEF vars
<1>. QED
  BY <1>1, <1>2, <1>3, <1>4, <1>5, <1>6, <1>7, <1>8 DEF Next, RollouterStep, Terminated

(* The loop is left for good.                                              *)
LEMMA OverStays ==
  ASSUME VersionPhases, [Next]_vars, tpc \in Over
  PROVE  tpc' \in Over /\ UNCHANGED <<batch, trained, discarded>>
BY DEF Next, Terminated, vars, trainVars, Train, TrainStart, CollectSample, CollectEnd,
       TrainStep, TrainGetVal, TrainFinal, Synchronizer, SyncStart, SyncTransfer,
       SyncFire, VersionPhases, Over

(* What is trained on was taken, and once it is as much as was taken,      *)
(* nothing else was.                                                       *)
LEMMA TrainedTaken ==
  ASSUME FlowInv
  PROVE  /\ Cardinality(trained) \in Nat /\ Cardinality(trained) <= taken
         /\ Cardinality(trained) = taken => \A s \in Samples \ trained : s > taken
<1>1. taken \in Nat /\ trained \subseteq Samples /\ Samples \subseteq Nat /\ 0 \notin Samples
  BY PlaceTypes, RolloutAssumption DEF FlowInv, Base, TypeOK, TrainTypes, Samples
<1>2. \A s \in trained : ~(s > taken)
  BY <1>1, PlacesApart DEF FlowInv, Base, Apart
<1>3. trained \in SUBSET (1 .. taken)
  BY <1>1, <1>2
<1>4. IsFiniteSet(1 .. taken) /\ Cardinality(1 .. taken) = taken
  BY <1>1, FS_Interval
<1>5. /\ Cardinality(trained) <= Cardinality(1 .. taken)
      /\ Cardinality(1 .. taken) = Cardinality(trained) => 1 .. taken = trained
  BY <1>3, <1>4, FS_Subset
<1>6. Cardinality(trained) \in Nat
  BY <1>1, SamplesFinite
<1>7. \A s \in Samples \ 1 .. taken : s > taken
  BY <1>1
<1>. QED  BY <1>4, <1>5, <1>6, <1>7

(* The quota is unchanged by what changes none of its parts.               *)
LEMMA QuotaSame ==
  ASSUME QuotaInv, UNCHANGED <<trained, local, tversion, taken, staleness, version>>,
         pc'["proc"] = "get" => pc["proc"] = "get",
         pc'["update"] \in {"askSize", "set"} => pc["update"] \in {"askSize", "set"}
  PROVE  QuotaInv'
BY DEF QuotaInv

(* A sample with a task, or about to get one, was taken.                   *)
LEMMA StartedTaken ==
  ASSUME Base, OneHome, NEW s \in Samples, s \in InFlight \/ hand = s
  PROVE  ~(s > taken)
<1>1. /\ Times(cancelQ, s) \in Nat /\ Times(resultQ, s) \in Nat /\ Times(mq, s) \in Nat
      /\ taken \in Nat /\ s \in Nat
  BY PlaceTypes DEF Base
<1>2. /\ One(hand = s) \in Nat /\ One(s \in InFlight) \in Nat /\ One(chand = s) \in Nat
      /\ One(s \in dropped) \in Nat /\ One(s \in batch) \in Nat
      /\ One(s \in trained) \in Nat /\ One(s \in discarded) \in Nat
      /\ One(hand = s) = 1 \/ One(s \in InFlight) = 1
  BY DEF One
<1>3. Homes(s) # 0
  BY <1>1, <1>2 DEF Homes
<1>. QED  BY <1>1, <1>3 DEF OneHome

(* Within a version stamps are of that version.                            *)
LEMMA FreshStep ==
  ASSUME FlowInv, FreshInv, [Next]_vars, version' = version, taken' \in Nat,
         taken <= taken', trained \subseteq trained'
  PROVE  FreshInv'
<1>1. /\ startV \in [Samples -> Int] /\ endV \in [Samples -> Int] /\ taken \in Nat
      /\ Samples \subseteq Nat /\ TaskTypes /\ Base /\ OneHome
  BY PlaceTypes DEF FlowInv, Base, TypeOK, FlagTypes
<1>2. CASE UNCHANGED <<startV, endV>>
  BY <1>1, <1>2 DEF FreshInv
<1>3. ASSUME NEW r \in Samples, TaskStart(r) \/ TaskFinish(r) PROVE FreshInv'
  <2>1. taken' = taken /\ Task(r)
    BY <1>3 DEF TaskStart, TaskFinish, inputVars, Task
  <2>2. ~(r > taken)
    BY <1>1, <2>1, TaskEffect, StartedTaken
  <2>3. \A s \in Samples : /\ \/ startV'[s] = startV[s]
                              \/ s = r /\ startV'[s] = version
                           /\ \/ endV'[s] = endV[s]
                              \/ s = r /\ endV'[s] = version
    BY <1>1, <1>3 DEF TaskStart, TaskFinish
  <2>. QED  BY <2>1, <2>2, <2>3 DEF FreshInv
<1>. QED  BY <1>2, <1>3, StampEffects

(* What the processor takes stays within the quota.                        *)
LEMMA QuotaProcessor ==
  ASSUME FlowInv, QuotaInv, Processor, UNCHANGED <<trainVars, syncVars>>
  PROVE  QuotaInv' /\ version' = version /\ taken <= taken' /\ trained' = trained
<1>1. /\ SchedTypes /\ taken \in Nat /\ staleness \in Nat /\ version \in Nat
      /\ MaxRequired * version \in Nat /\ MaxRequired \in Nat
  BY PlaceTypes, NextVersion, RolloutAssumption DEF FlowInv, Base, TypeOK, FlagTypes
<1>2. pc'["update"] = pc["update"] /\ UNCHANGED <<trained, local, tversion>>
  BY <1>1, ProcessorLock DEF Calls, trainVars
<1>3. CASE ProcTake \/ ProcGot
  <2>1. staleness < MaxRequired
    BY <1>1, <1>3 DEF ProcTake, ProcGot, ShouldPause, At, QuotaInv
  <2>2. taken' = taken + 1 /\ staleness' = staleness + 1 /\ version' = version
    BY <1>3 DEF ProcTake, ProcGot, TakePending
  <2>3. pc'["proc"] # "get"
    BY <1>1, <1>3, GetMoves DEF ProcTake, ProcGot, TakePending, ProcAwaitPending
  <2>. QED  BY <1>1, <1>2, <2>1, <2>2, <2>3 DEF QuotaInv
<1>4. CASE ~(ProcTake \/ ProcGot)
  <2>1. UNCHANGED <<taken, staleness, version>>
    BY <1>4
       DEF Processor, ProcPause, ProcTakeCancelled, ProcAwaitPending, ProcSetPaused,
           ProcAwaitResume, ProcSubmit, ProcWake, ProcReap, ProcNothingToReap,
           inputVars, freshVars
  <2>2. pc'["proc"] = "get" => staleness < MaxRequired
    BY <1>1, GetMoves DEF ProcAwaitPending, ShouldPause
  <2>. QED  BY <1>1, <1>2, <2>1, <2>2 DEF QuotaInv
<1>. QED  BY <1>3, <1>4

(* A new version begins when the samples of the one before are used up.    *)
LEMMA QuotaUpdate ==
  ASSUME FlowInv, Base', SyncInv, tpc \notin Over, MaxRequired = Required * Trigger,
         Update(syncVersion, syncValidate), UNCHANGED <<trainVars, syncVars>>, [Next]_vars
  PROVE  QuotaInv' /\ FreshInv'
<1>1. /\ SchedTypes /\ taken \in Nat /\ staleness \in Nat /\ version \in Nat
      /\ tversion \in Nat /\ MaxRequired * version \in Nat /\ MaxRequired \in Nat
      /\ Samples \subseteq Nat /\ QuotaInv /\ FreshInv /\ staleness' \in Nat
  BY PlaceTypes, NextVersion, RolloutAssumption
     DEF FlowInv, Base, TypeOK, FlagTypes, TrainTypes, SyncInv
<1>2. UNCHANGED <<trained, local, tversion, tpc, taken>>
  BY DEF Update, UpdateCall, UpdateBegin, UpdateSize, UpdateSet, UpdateEnd, inputVars,
         trainVars
<1>3. pc'["proc"] = pc["proc"]
  BY <1>1, OnlyMoves DEF Update, UpdateCall, UpdateBegin, UpdateSize, UpdateSet,
                         UpdateEnd, Coroutines
<1>4. CASE UpdateBegin(syncVersion)
  <2>1. /\ syncVersion = version + 1 /\ tversion \in {version + 1, version + 2}
        /\ version' = version + 1 /\ staleness' = staleness
        /\ pc["update"] = "begin" /\ UNCHANGED <<startV, endV>>
    BY <1>1, <1>4 DEF UpdateBegin, InLock, At, FlowInv, VersionPhases, freshVars, stampVars
  <2>2. MaxRequired * version + MaxRequired <= Cardinality(trained)
    <3>1. /\ local \in Nat /\ local >= 1 /\ Required \in Nat
      BY TrainerAssumption DEF FlowInv, Base, TypeOK, TrainTypes
    <3>2. Required * (local - 1) \in Nat
      BY <3>1
    <3>3. MaxRequired * tversion \in {MaxRequired * version + MaxRequired,
                                      MaxRequired * version + MaxRequired + MaxRequired}
      BY <1>1, <2>1
    <3>. QED  BY <1>1, <3>2, <3>3 DEF QuotaInv
  <2>3. Cardinality(trained) <= taken /\ Cardinality(trained) \in Nat
    BY TrainedTaken
  <2>4. /\ taken = MaxRequired * version + MaxRequired /\ staleness >= MaxRequired
        /\ taken = Cardinality(trained)
    BY <1>1, <2>2, <2>3 DEF QuotaInv
  <2>5. MaxRequired * version' = MaxRequired * version + MaxRequired
    BY <1>1, <2>1, NextVersion
  <2>6. QuotaInv'
    BY <1>1, <1>2, <1>3, <2>1, <2>4, <2>5 DEF QuotaInv
  <2>7. \A s \in Samples \ trained : startV[s] = -1 /\ endV[s] = -1
    BY <1>1, <2>4, TrainedTaken DEF FreshInv
  <2>8. FreshInv'
    BY <1>1, <1>2, <2>1, <2>7 DEF FreshInv
  <2>. QED  BY <2>6, <2>8
<1>5. CASE UpdateSet(syncVersion, syncValidate)
  <2>1. version' = version /\ pc["update"] = "set"
    BY <1>5 DEF UpdateSet, At
  <2>2. pc'["update"] = "putValidate"
    BY <1>1, <1>5, OnlyMoves DEF UpdateSet, Coroutines
  <2>3. QuotaInv'
    BY <1>1, <1>2, <1>3, <2>1, <2>2 DEF QuotaInv
  <2>. QED  BY <1>1, <1>2, <2>1, <2>3, FreshStep
<1>6. CASE UpdateCall \/ UpdateSize \/ UpdateEnd(syncVersion, syncValidate)
  <2>1. UNCHANGED <<version, staleness>>
    BY <1>6 DEF UpdateCall, UpdateSize, UpdateEnd, freshVars
  <2>2. pc'["update"] \in {"askSize", "set"} => pc["update"] \in {"askSize", "set"}
    <3>1. CASE UpdateCall \/ UpdateEnd(syncVersion, syncValidate)
      <4>1. pc'["update"] \in {"begin", "returned"}
        BY <1>1, <3>1, OnlyMoves DEF UpdateCall, UpdateEnd, Coroutines
      <4>. QED  BY <4>1
    <3>2. CASE UpdateSize
      BY <3>2 DEF UpdateSize
    <3>. QED  BY <1>6, <3>1, <3>2
  <2>3. QuotaInv'
    BY <1>1, <1>2, <1>3, <2>1, <2>2, QuotaSame
  <2>. QED  BY <1>1, <1>2, <2>1, <2>3, FreshStep
<1>. QED  BY <1>4, <1>5, <1>6 DEF Update

(* A step of the Trainer or the synchroniser that stays in the loop.       *)
LEMMA QuotaTrain ==
  ASSUME FlowInv, QuotaInv, tpc' \notin Over, MaxRequired = Required * Trigger,
         Train \/ Synchronizer
  PROVE  /\ QuotaInv' /\ UNCHANGED <<version, taken>> /\ trained \subseteq trained'
<1>1. /\ SchedTypes /\ local \in 1 .. Trigger /\ tversion \in Nat
      /\ Required \in Nat \ {0} /\ Trigger \in Nat \ {0} /\ trained \subseteq Samples
      /\ batch \subseteq Samples
  BY TrainerAssumption DEF FlowInv, Base, TypeOK, TrainTypes
<1>2. UNCHANGED <<taken, staleness, version>>
  BY DEF Train, TrainStart, CollectSample, CollectEnd, TrainStep, TrainGetVal, TrainFinal,
         Synchronizer, SyncStart, SyncTransfer, SyncFire, rollVars, inputVars, freshVars
<1>3. pc'["proc"] = pc["proc"]
      /\ (pc'["update"] \in {"askSize", "set"} => pc["update"] \in {"askSize", "set"})
  <2>1. CASE SyncStart
    BY <1>1, <2>1, OnlyMoves DEF SyncStart, Coroutines
  <2>2. CASE SyncFire
    BY <1>1, <2>2 DEF SyncFire, SchedTypes, Coroutines
  <2>3. CASE SyncTransfer \/ Train
    BY <2>3 DEF Train, TrainStart, CollectSample, CollectEnd, TrainStep, TrainGetVal,
                TrainFinal, SyncTransfer, rollVars, schedVars
  <2>. QED  BY <2>1, <2>2, <2>3 DEF Synchronizer
<1>4. CASE TrainStep
  <2>1. \A s \in batch : s \notin trained
    BY <1>1, PlacesApart DEF FlowInv, Base, Apart
  <2>2. /\ tpc = "train" /\ trained' = trained \cup batch /\ Cardinality(batch) = Required
    BY <1>4 DEF TrainStep, FlowInv, BatchInv
  <2>3. /\ IsFiniteSet(trained) /\ IsFiniteSet(batch) /\ Cardinality(trained) \in Nat
        /\ trained \cap batch = {}
    BY <1>1, <2>1, SamplesFinite
  <2>4. Cardinality(trained') = Cardinality(trained) + Required
    <3>1. /\ Cardinality(trained \cup batch)
               = Cardinality(trained) + Cardinality(batch) - Cardinality(trained \cap batch)
          /\ Cardinality(trained \cap batch) = 0
      BY <2>3, FS_Union, FS_EmptySet
    <3>. QED  BY <1>1, <2>2, <2>3, <3>1
  <2>5. Cardinality(trained') = MaxRequired * tversion' + Required * (local' - 1)
    <3>1. CASE local < Trigger
      <4>1. local' = local + 1 /\ tversion' = tversion
        BY <1>4, <3>1 DEF TrainStep
      <4>2. Required * (local' - 1) = Required * (local - 1) + Required
        BY <1>1, <4>1
      <4>3. Required * (local - 1) \in Nat /\ MaxRequired * tversion \in Nat
        BY <1>1, NextVersion
      <4>. QED  BY <1>1, <2>4, <4>1, <4>2, <4>3 DEF QuotaInv
    <3>2. CASE ~(local < Trigger)
      <4>1. local = Trigger /\ local' = 1 /\ tversion' = tversion + 1
        BY <1>1, <1>4, <3>2 DEF TrainStep
      <4>2. /\ Required * (local - 1) = MaxRequired - Required
            /\ Required * (local' - 1) = 0
        BY <1>1, <4>1
      <4>3. MaxRequired * tversion' = MaxRequired * tversion + MaxRequired
        BY <1>1, <4>1, NextVersion
      <4>4. MaxRequired * tversion \in Nat /\ MaxRequired \in Nat
        BY <1>1, NextVersion, RolloutAssumption
      <4>. QED  BY <1>1, <2>4, <4>2, <4>3, <4>4 DEF QuotaInv
    <3>. QED  BY <3>1, <3>2
  <2>6. QuotaInv'
    BY <1>2, <1>3, <2>5 DEF QuotaInv
  <2>. QED  BY <1>2, <2>2, <2>6
<1>5. CASE ~TrainStep
  <2>1. UNCHANGED <<trained, local, tversion>>
    BY <1>5 DEF Train, TrainStart, CollectSample, CollectEnd, TrainGetVal, TrainFinal,
                Synchronizer, SyncStart, SyncTransfer, SyncFire, trainVars, Over
  <2>. QED  BY <1>2, <1>3, <2>1, QuotaSame
<1>. QED  BY <1>4, <1>5

LEMMA SyncInvStep ==
  ASSUME FlowInv, Base', SyncInv, MaxRequired = Required * Trigger, [Next]_vars
  PROVE  SyncInv'
<1>. SUFFICES ASSUME tpc' \notin Over PROVE QuotaInv' /\ FreshInv'
  BY DEF SyncInv
<1>1. /\ tpc \notin Over /\ QuotaInv /\ FreshInv /\ SchedTypes
      /\ taken \in Nat /\ taken' \in Nat
  BY OverStays DEF FlowInv, SyncInv, Base, TypeOK, InputTypes
<1>2. CASE Processor /\ UNCHANGED <<trainVars, syncVars>>
  BY <1>1, <1>2, QuotaProcessor, FreshStep
<1>3. CASE Update(syncVersion, syncValidate) /\ UNCHANGED <<trainVars, syncVars>>
  BY <1>1, <1>3, QuotaUpdate
<1>4. CASE Train \/ Synchronizer
  BY <1>1, <1>4, QuotaTrain, FreshStep
<1>5. CASE /\ ~(Processor /\ UNCHANGED <<trainVars, syncVars>>)
           /\ ~(Update(syncVersion, syncValidate) /\ UNCHANGED <<trainVars, syncVars>>)
           /\ ~Train /\ ~Synchronizer
  <2>1. UNCHANGED <<trained, local, tversion>>
    BY <1>5 DEF Next, Terminated, vars, trainVars
  <2>2. UNCHANGED <<version, pc["update"]>>
    BY <1>1, <1>5, NumberEffects DEF Numbers
  <2>3. UNCHANGED <<taken, staleness>> /\ pc'["proc"] \in {pc["proc"], Notified}
    <3>1. (~Processor /\ ~UpdateSet(syncVersion, syncValidate)) \/ UNCHANGED vars
      BY <1>5 DEF Next, RollouterStep, Terminated, Update
    <3>2. CASE UNCHANGED vars
      BY <3>2 DEF vars, inputVars, freshVars, schedVars
    <3>. QED  BY <1>1, <3>1, <3>2, TakenEffects
  <2>4. pc'["proc"] = "get" => pc["proc"] = "get"
    BY <2>3 DEF Notified
  <2>5. QuotaInv'
    BY <1>1, <2>1, <2>2, <2>3, <2>4, QuotaSame
  <2>. QED  BY <1>1, <2>1, <2>2, <2>3, <2>5, FreshStep
<1>. QED  BY <1>2, <1>3, <1>4, <1>5

LEMMA SyncInvInit == Init => SyncInv
<1>. SUFFICES ASSUME Init PROVE QuotaInv /\ FreshInv
  BY DEF SyncInv
<1>1. /\ trained = {} /\ tversion = 0 /\ local = 1 /\ taken = 0 /\ version = 0
      /\ staleness = 0 /\ pc["proc"] = "check" /\ pc["update"] = "returned"
      /\ \A s \in Samples : startV[s] = -1 /\ endV[s] = -1
  BY DEF Init, RollInit, TrainerInit
<1>2. Required \in Nat /\ MaxRequired \in Nat \ {0}
  BY RolloutAssumption, TrainerAssumption
<1>3. QuotaInv
  BY <1>1, <1>2, FS_EmptySet DEF QuotaInv
<1>. QED  BY <1>1, <1>3 DEF FreshInv

(* A sample of the batch was generated by the version the Trainer is at.   *)
LEMMA BatchFresh ==
  ASSUME FlowInv, Stamps, SyncInv PROVE OnPolicy
<1>. SUFFICES ASSUME NEW s \in batch PROVE startV[s] = tversion /\ endV[s] = tversion
  BY DEF OnPolicy
<1>1. /\ tpc \in {"collect", "train"} /\ QuotaInv /\ FreshInv /\ version \in Nat
      /\ tversion \in Nat /\ s \in Samples /\ taken \in Nat /\ MaxRequired \in Nat
      /\ local \in Nat \ {0} /\ Required \in Nat
  BY RolloutAssumption, TrainerAssumption
     DEF FlowInv, BatchInv, SyncInv, Over, Base, TypeOK, TrainTypes, FlagTypes, InputTypes,
         Done
<1>2. s \notin trained /\ ~(s > taken)
  BY <1>1, PlacesApart DEF FlowInv, Base, Apart
<1>3. startV[s] = version /\ endV[s] = version
  <2>1. startV[s] \in Int /\ endV[s] \in Int
    BY <1>1 DEF FlowInv, Base, TypeOK, FlagTypes
  <2>2. s \in Delivered
    BY <1>1 DEF Delivered
  <2>3. 0 <= startV[s] /\ startV[s] <= endV[s]
    BY <2>2 DEF Stamps
  <2>. QED  BY <1>1, <1>2, <2>1, <2>3 DEF FreshInv
<1>4. tversion = version
  <2>1. SUFFICES ASSUME tversion # version PROVE FALSE
    OBVIOUS
  <2>2. tversion = version + 1
    BY <1>1, <2>1 DEF FlowInv, VersionPhases
  <2>3. /\ MaxRequired * tversion = MaxRequired * version + MaxRequired
        /\ MaxRequired * version \in Nat /\ Required * (local - 1) \in Nat
    BY <1>1, <2>2, NextVersion
  <2>4. taken = Cardinality(trained)
    BY <1>1, <2>3, TrainedTaken DEF QuotaInv
  <2>. QED  BY <1>1, <1>2, <2>4, TrainedTaken
<1>. QED  BY <1>3, <1>4

(* The invariant: the quota and the stamps hold together, step by step.    *)
SyncParts == FlowInv /\ Stamps /\ SyncInv

LEMMA SyncPartsStep ==
  ASSUME MaxRequired = Required * Trigger, Base, Base', SyncParts, [Next]_vars
  PROVE  SyncParts'
<1>1. FlowInv /\ Stamps /\ SyncInv /\ VersionPhases
  BY DEF SyncParts, FlowInv
<1>2. FlowInv'
  BY <1>1, FlowInvStep
<1>3. version <= version' /\ version' \in Nat
  BY <1>1, PhasesStep DEF Base, TypeOK, FlagTypes
<1>. QED  BY <1>1, <1>2, <1>3, StampsStep, SyncInvStep DEF SyncParts

LEMMA SyncPartsInit == Init => SyncParts
BY FlowInit, SyncInvInit
   DEF Init, RollInit, TrainerInit, Stamps, Delivered, Range, None, Samples, SyncParts

(* With staleness_threshold 0 every step of the Trainer is on-policy: it   *)
(* uses only samples generated, from start to end, by the version it is at.*)
(* The limit of max_required_samples (fully_async_rollouter.py:158-181,    *)
(* 195-203 and 572-594) and the steps between two synchronisations         *)
(* (fully_async_trainer.py:331-356) keep pace, however pauses, tasks and   *)
(* deliveries interleave.                                                  *)
THEOREM SpecOnPolicy == MaxRequired = Required * Trigger => (SafetySpec => []OnPolicy)
<1>. SUFFICES ASSUME MaxRequired = Required * Trigger PROVE SafetySpec => []OnPolicy
  OBVIOUS
<1>1. Init => SyncParts
  BY SyncPartsInit
<1>2. Base /\ Base' /\ SyncParts /\ [Next]_vars => SyncParts'
  BY SyncPartsStep
<1>3. SyncParts => OnPolicy
  BY BatchFresh DEF SyncParts
<1>. QED  BY <1>1, <1>2, <1>3, SpecTypes, PTL DEF SafetySpec, Base

-----------------------------------------------------------------------------
(* How many samples are on their way.                                      *)

(* A task is a task of a sample that was taken.  The end marker comes when *)
(* the processor has ended, and the Trainer leaves its loop when it        *)
(* fetches the end marker.                                                 *)
FlightInv ==
  /\ \A s \in Samples : task[s] # "none" => ~(s > taken)
  /\ pc["main"] \in Ended \cup {"join", "putEnd"} => pc["proc"] \in {"finished", "failed"}
  /\ tpc \in Over => pc["main"] \in Ended

(* A processor that has ended does nothing any more.                       *)
LEMMA ProcessorEnds ==
  ASSUME pc["proc"] \in {"finished", "failed"} PROVE ~Processor
BY DEF Processor, ProcPause, ProcTakeCancelled, ProcTake, ProcAwaitPending, ProcGot,
       ProcSetPaused, ProcAwaitResume, ProcSubmit, ProcWake, ProcReap, ProcNothingToReap,
       Loops, InLock, At

LEMMA TakenGrows ==
  ASSUME Base, [Next]_vars PROVE taken <= taken'
<1>1. SchedTypes /\ taken \in Nat
  BY DEF Base, TypeOK, InputTypes
<1>2. CASE Processor
  BY <1>1, <1>2
     DEF Processor, ProcPause, ProcTakeCancelled, ProcTake, TakePending, ProcAwaitPending,
         ProcGot, ProcSetPaused, ProcAwaitResume, ProcSubmit, ProcWake, ProcReap,
         ProcNothingToReap, inputVars
<1>3. CASE UpdateSet(syncVersion, syncValidate)
  BY <1>1, <1>3 DEF UpdateSet, inputVars
<1>. QED  BY <1>1, <1>2, <1>3, TakenEffects

(* Only the processor gives a sample its first task.                       *)
LEMMA NoneEffects ==
  ASSUME Base, [Next]_vars, NEW s \in Samples
  PROVE  \/ task'[s] # "none" <=> task[s] # "none"
         \/ ProcSubmit /\ hand = s /\ task'[s] # "none"
<1>1. TaskTypes
  BY DEF Base, TypeOK
<1>2. CASE UNCHANGED taskVars \/ PauseGather \/ \E at \in Loops : ProcReap(at)
  BY <1>2 DEF taskVars, PauseGather, ProcReap
<1>3. CASE ProcSubmit
  BY <1>1, <1>3 DEF ProcSubmit, taskVars, TaskTypes
<1>4. CASE PauseCancel
  BY <1>4 DEF PauseCancel
<1>5. ASSUME NEW r \in Samples, Task(r) PROVE task'[s] # "none" <=> task[s] # "none"
  BY <1>1, <1>5, TaskEffect DEF InFlight
<1>. QED  BY <1>2, <1>3, <1>4, <1>5, TaskEffects

LEMMA FlightStep ==
  ASSUME FlowInv, Base', FlightInv, [Next]_vars PROVE FlightInv'
<1>1. /\ SchedTypes /\ Base /\ OneHome /\ taken \in Nat /\ taken' \in Nat
      /\ Samples \subseteq Nat /\ OutTypes
  BY PlaceTypes DEF FlowInv, Base, TypeOK, InputTypes
<1>2. ASSUME NEW s \in Samples, task'[s] # "none" PROVE ~(s > taken')
  <2>1. ~(s > taken)
    BY <1>1, <1>2, NoneEffects, StartedTaken DEF FlightInv
  <2>. QED  BY <1>1, <2>1, TakenGrows
<1>3. tpc' \in Over => pc["main"] \in Ended
  <2>1. CASE CollectEnd
    <3>1. mq # << >> /\ Head(mq) = End
      BY <2>1 DEF CollectEnd, Channel!Take
    <3>. QED  BY <1>1, <3>1, HeadTail DEF FlowInv, EndInv
  <2>2. CASE ~CollectEnd
    <3>1. tpc' \in Over => tpc \in Over
      BY <2>2
         DEF Next, Terminated, vars, trainVars, Train, TrainStart, CollectSample,
             TrainStep, TrainGetVal, TrainFinal, Synchronizer, SyncStart, SyncTransfer,
             SyncFire, FlowInv, VersionPhases, Over
    <3>. QED  BY <3>1 DEF FlightInv
  <2>. QED  BY <2>1, <2>2
<1>. DEFINE Late == Ended \cup {"join", "putEnd"}
<1>4. /\ pc["main"] \in Ended => pc'["main"] \in Ended
      /\ \/ pc'["main"] = pc["main"] \/ pc["main"] \in Late \/ pc'["main"] \notin Late
         \/ pc["proc"] \in {"finished", "failed"}
  <2>1. CASE MainFeedDone \/ MainProcDone
    <3>1. /\ pc["main"] \in {"awaitFeed", "awaitProc"}
          /\ pc'["main"] = "awaitProc" \/ pc["proc"] = "finished"
      BY <1>1, <2>1, OnlyMoves DEF MainFeedDone, MainProcDone, At, Coroutines
    <3>. QED  BY <3>1 DEF Ended
  <2>2. CASE MainCancelWorkers
    BY <1>1, <2>2 DEF MainCancelWorkers, SchedTypes, Coroutines, Ended
  <2>3. CASE MainPutEnd \/ MainStop \/ MainStopped
    BY <1>1, <2>3, OnlyMoves DEF MainPutEnd, MainStop, MainStopped, At, InLock, Coroutines,
                                 Ended
  <2>4. CASE Consumer
    BY <1>1, <2>4, OnlyMoves DEF Consumer, ConsumerTake, ConsumerPut, Coroutines
  <2>5. CASE CollectSample \/ CollectEnd
    BY <2>5 DEF CollectSample, CollectEnd, rollVars, schedVars
  <2>. QED  BY <1>1, <2>1, <2>2, <2>3, <2>4, <2>5, QueueEffects DEF Main
<1>5. pc["proc"] \in {"finished", "failed"} => pc'["proc"] = pc["proc"]
  <2>1. CASE UpdateSet(syncVersion, syncValidate)
    BY <1>1, <2>1, OnlyMoves DEF UpdateSet, Coroutines
  <2>. QED  BY <1>1, <2>1, TakenEffects, ProcessorEnds DEF Notified
<1>. QED  BY <1>2, <1>3, <1>4, <1>5 DEF FlightInv

(* In the loop no more than a version's samples are on their way.          *)
LEMMA FlightBound ==
  ASSUME FlowInv, FlightInv, QuotaInv, tpc \notin Over
  PROVE  InFlightBound
<1>. DEFINE F == {s \in Samples \ Fetched : task[s] # "none"}
<1>0. /\ tversion \in Nat /\ version \in Nat /\ local \in Nat \ {0} /\ Required \in Nat
      /\ MaxRequired \in Nat
  BY RolloutAssumption, TrainerAssumption DEF FlowInv, Base, TypeOK, TrainTypes, FlagTypes
<1>1. /\ taken \in Nat /\ trained \subseteq Samples /\ F \subseteq Samples
      /\ \A s \in Samples : s \in Nat /\ s # 0
  BY PlaceTypes, RolloutAssumption DEF FlowInv, Base, TypeOK, TrainTypes, Samples
<1>2. F \cup trained \in SUBSET (1 .. taken) /\ F \cap trained = {}
  <2>1. \A s \in F \cup trained : ~(s > taken)
    BY <1>1, PlacesApart DEF FlowInv, Base, Apart, FlightInv
  <2>2. F \cap trained = {}
    BY DEF Fetched
  <2>. HIDE DEF F
  <2>. QED  BY <1>1, <2>1, <2>2
<1>3. Cardinality(F \cup trained) <= taken
  <2>1. IsFiniteSet(1 .. taken) /\ Cardinality(1 .. taken) = taken
    BY <1>1, FS_Interval
  <2>2. Cardinality(F \cup trained) <= Cardinality(1 .. taken)
    BY <1>2, <2>1, FS_Subset
  <2>. QED  BY <2>1, <2>2
<1>4. /\ IsFiniteSet(F) /\ IsFiniteSet(trained)
      /\ Cardinality(F) \in Nat /\ Cardinality(trained) \in Nat
  BY <1>1, SamplesFinite
<1>5. Cardinality(F \cup trained) = Cardinality(F) + Cardinality(trained)
  <2>1. /\ Cardinality(F \cup trained)
             = Cardinality(F) + Cardinality(trained) - Cardinality(F \cap trained)
        /\ Cardinality(F \cap trained) = 0
    BY <1>2, <1>4, FS_Union, FS_EmptySet
  <2>. QED  BY <1>4, <2>1
<1>6. MaxRequired * version <= Cardinality(trained) /\ MaxRequired * version \in Nat
  <2>1. tversion \in {version, version + 1, version + 2}
    BY <1>0 DEF FlowInv, VersionPhases
  <2>2. /\ MaxRequired * (version + 1) = MaxRequired * version + MaxRequired
        /\ MaxRequired * (version + 2) = MaxRequired * version + MaxRequired + MaxRequired
        /\ MaxRequired * version \in Nat /\ Required * (local - 1) \in Nat
    BY <1>0
  <2>. QED  BY <1>0, <1>4, <2>1, <2>2 DEF QuotaInv
<1>7. Cardinality(F) <= MaxRequired
  <2>. HIDE DEF F
  <2>. QED  BY <1>0, <1>1, <1>3, <1>4, <1>5, <1>6 DEF QuotaInv
<1>. QED  BY <1>7 DEF InFlightBound

(* Out of it none is added to them.                                        *)
LEMMA FlightStays ==
  ASSUME FlowInv, FlightInv, FlightInv', InFlightBound, [Next]_vars, tpc' \in Over
  PROVE  InFlightBound'
<1>1. Base
  BY DEF FlowInv
<1>2. Fetched' = Fetched
  <2>1. CASE tpc \in Over
    BY <2>1, OverStays DEF FlowInv, Fetched
  <2>2. CASE CollectEnd
    <3>1. /\ discarded = {} /\ discarded' = batch /\ batch' = {} /\ trained' = trained
      BY <2>2 DEF CollectEnd, FlowInv, HandsEmpty
    <3>. QED  BY <3>1 DEF Fetched
  <2>3. CASE tpc \notin Over /\ ~CollectEnd
    <3>1. FALSE
      BY <2>3
         DEF Next, Terminated, vars, trainVars, Train, TrainStart, CollectSample,
             TrainStep, TrainGetVal, TrainFinal, Synchronizer, SyncStart, SyncTransfer,
             SyncFire, FlowInv, VersionPhases, Over
    <3>. QED  BY <3>1
  <2>. QED  BY <2>1, <2>2, <2>3
<1>3. \A s \in Samples : task'[s] # "none" <=> task[s] # "none"
  <2>1. ~ProcSubmit
    <3>1. pc'["proc"] \in {"finished", "failed"}
      BY DEF FlightInv
    <3>2. ASSUME ProcSubmit PROVE FALSE
      <4>1. pc'["proc"] \in {"parkedSubmit", "check"}
        BY <1>1, <3>2, OnlyMoves DEF ProcSubmit, Base, TypeOK, Coroutines
      <4>. QED  BY <3>1, <4>1
    <3>. QED  BY <3>2
  <2>. QED  BY <1>1, <2>1, NoneEffects
<1>4. {s \in Samples \ Fetched' : task'[s] # "none"} = {s \in Samples \ Fetched : task[s] # "none"}
  BY <1>2, <1>3
<1>. QED  BY <1>4 DEF InFlightBound

(* With staleness_threshold 0 the samples in generation or generated and   *)
(* not fetched are never more than one version of the Trainer uses         *)
(* (fully_async_rollouter.py:158-181, 195-203 and 572-594), to the end of  *)
(* fit().                                                                  *)
THEOREM SpecInFlightBound ==
  MaxRequired = Required * Trigger => (SafetySpec => []InFlightBound)
<1>. SUFFICES ASSUME MaxRequired = Required * Trigger PROVE SafetySpec => []InFlightBound
  OBVIOUS
<1>1. Init => SyncParts /\ FlightInv /\ ~(tpc \in Over)
  BY SyncPartsInit DEF Init, RollInit, TrainerInit, FlightInv, Ended, Over
<1>2. Base /\ Base' /\ SyncParts /\ FlightInv /\ [Next]_vars => SyncParts' /\ FlightInv'
  BY SyncPartsStep, FlightStep DEF SyncParts
<1>3. SyncParts /\ FlightInv => InFlightBound \/ tpc \in Over
  BY FlightBound DEF SyncParts, SyncInv
<1>4. SyncParts /\ FlightInv /\ FlightInv' /\ InFlightBound /\ [Next]_vars /\ (tpc \in Over)'
        => InFlightBound'
  BY FlightStays DEF SyncParts
<1>. QED  BY <1>1, <1>2, <1>3, <1>4, SpecTypes, PTL DEF SafetySpec, Base
=============================================================================
