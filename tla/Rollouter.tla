------------------------------ MODULE Rollouter ------------------------------
(***************************************************************************)
(* The Rollouter actor of recipe/fully_async_policy: one event loop on     *)
(* which these coroutines take turns                                       *)
(*                                                                         *)
(*   feeder    _feed_samples: prompts into pending_queue, then "DONE"      *)
(*   proc      _processor_worker: starts one task per prompt               *)
(*   tasks     _process_single_sample_streaming, one per active sample     *)
(*   consumer  _consumer_worker: results into the MessageQueue             *)
(*   main      _streaming_generation_main                                  *)
(*   monitor   _async_monitor_loop                                         *)
(*   pause, update, resume   the calls of the ParameterSynchronizer        *)
(*                                                                         *)
(* The event loop is cooperative: a coroutine runs until it really waits.  *)
(* cpu names the coroutine that is in the middle of such a run, Idle when  *)
(* the loop may pick any ready one.  Taking a free lock, or an item from a *)
(* queue that has one, does not yield; waiting for a held lock does.  The  *)
(* lock is a FIFO: the head of lockQ holds it.                             *)
(***************************************************************************)
EXTENDS Integers, Sequences, FiniteSets

CONSTANTS
  Total,          \* total_rollout_steps: prompts to generate
  MaxRequired,    \* max_required_samples = int(required*(staleness+1)*trigger)
  MaxConcurrent,  \* max_concurrent_samples = min(16*servers, max_required)
  PendingCap,     \* maxsize of pending_queue (128 in the code)
  Partial,        \* async_training.partial_rollout
  TestFreq        \* rollout.test_freq; 0 turns periodic validation off

MaxQueue == MaxRequired   \* max_queue_size

ASSUME RolloutAssumption ==
  /\ Total \in Nat \ {0} /\ MaxRequired \in Nat \ {0}
  /\ MaxConcurrent \in 1 .. MaxRequired
  /\ PendingCap \in Nat \ {0}
  /\ Partial \in BOOLEAN /\ TestFreq \in Nat

Samples == 1 .. Total
Done == Total + 1      \* "DONE", fed after the last sample
None == 0              \* no sample in hand
End == Total + 2       \* the None that tells the Trainer to stop

VARIABLES
  cpu,        \* the coroutine running without having yielded, or Idle
  lockQ,      \* Rollouter.lock: holder first, then the waiters in order
  pc,         \* where each coroutine is
  fed,        \* items put into pending_queue so far, "DONE" included
  taken,      \* items taken from it: pending_queue holds taken+1 .. fed
  hand,       \* the processor's rollout_sample
  doneBound,  \* the processor's local done_tasks has been assigned
  active,     \* active_tasks, named by their samples
  task,       \* the task of each sample
  cancelQ, resultQ,
  chand,      \* the consumer's rollout_sample
  paused, trigger, running,
  version,    \* current_param_version
  staleness,  \* staleness_samples
  count,      \* the sum update_param_version is computing
  serverPaused,   \* paused of the vLLM servers
  startV, endV,   \* param_version_start and param_version of each sample
  mq,         \* MessageQueue.queue
  dropped,    \* samples a full MessageQueue pushed out
  valQ        \* MessageQueue.val_queue

schedVars == <<cpu, lockQ, pc>>
inputVars == <<fed, taken>>
procVars == <<hand, doneBound>>
taskVars == <<active, task>>
outVars == <<cancelQ, resultQ, chand>>
flagVars == <<paused, trigger, running>>
freshVars == <<version, staleness, count>>
stampVars == <<serverPaused, startV, endV>>
queueVars == <<mq, dropped, valQ>>

Channel == INSTANCE SampleChannel WITH Items <- Samples \cup {End}

-----------------------------------------------------------------------------
(* The event loop, the lock and the condition.                             *)

Idle == "idle"
Runs(c) == cpu \in {Idle, c}
At(c, l) == pc[c] = l /\ Runs(c)

Holds(c) == lockQ # << >> /\ Head(lockQ) = c
InLock(c, l) == At(c, l) /\ Holds(c)

Goto(c, l) == pc' = [pc EXCEPT ![c] = l]

(* `async with self.lock` when the lock's queue is q: continue at l, at    *)
(* once if nobody holds the lock.                                          *)
Acquire(c, q, l) == /\ lockQ' = Append(q, c)
                    /\ Goto(c, l)
                    /\ cpu' = IF q = << >> THEN c ELSE Idle

(* The same where the body first of all waits for a task to end.           *)
AcquireAndWait(c, q, l) == /\ lockQ' = Append(q, c)
                           /\ Goto(c, l)
                           /\ cpu' = Idle

(* Leave the lock for l and yield.                                         *)
Leave(c, l) == /\ lockQ' = Tail(lockQ)
               /\ Goto(c, l)
               /\ cpu' = Idle

(* Mutant: only the wait of the pause branch is notified.                  *)
NotifiedInPauseBranch == IF pc["proc"] = "parked" THEN "notified" ELSE pc["proc"]

(* condition.notify_all(): only the processor ever waits on it.            *)
Notified == CASE pc["proc"] = "parked" -> "notified"
              [] pc["proc"] = "parkedSubmit" -> "notifiedSubmit"
              [] OTHER -> pc["proc"]

-----------------------------------------------------------------------------

(* Mutant: one sample beyond max_required_samples is still taken.          *)
ShouldPauseLate == Len(mq) >= MaxQueue \/ staleness > MaxRequired

(* _should_pause_generation, evaluated without yielding.                   *)
ShouldPause == Len(mq) >= MaxQueue \/ staleness >= MaxRequired

(* _feed_samples puts without yielding until pending_queue is full or      *)
(* everything, "DONE" last, has been put.                                  *)
Feed ==
  /\ At("feeder", "put")
  /\ fed - taken < PendingCap
  /\ fed' = IF taken + PendingCap < Done THEN taken + PendingCap ELSE Done
  /\ Goto("feeder", IF fed' = Done THEN "finished" ELSE "put")
  /\ UNCHANGED <<taken, procVars, taskVars, outVars, flagVars, freshVars,
                 stampVars, cpu, lockQ, queueVars>>

-----------------------------------------------------------------------------
(* _processor_worker *)

(* Mutant: the limit on concurrent tasks is exceeded by one.               *)
AwaitSlotLate(q, rem) ==
  IF Cardinality(rem) > MaxConcurrent
    THEN AcquireAndWait("proc", q, "slot")
    ELSE Acquire("proc", q, "submit")

(* What the processor does with the sample it took: wait for a slot, or    *)
(* submit.                                                                 *)
AwaitSlot(q, rem) ==
  IF Cardinality(rem) >= MaxConcurrent
    THEN AcquireAndWait("proc", q, "slot")
    ELSE Acquire("proc", q, "submit")

ProcPause ==
  /\ At("proc", "check")
  /\ paused \/ ShouldPause
  /\ Acquire("proc", lockQ, "setPaused")
  /\ UNCHANGED <<inputVars, procVars, taskVars, outVars, flagVars, freshVars,
                 stampVars, queueVars>>

ProcTakeCancelled ==
  /\ At("proc", "check")
  /\ ~paused /\ ~ShouldPause /\ cancelQ # << >>
  /\ hand' = Head(cancelQ)
  /\ cancelQ' = Tail(cancelQ)
  /\ AwaitSlot(lockQ, active)
  /\ UNCHANGED <<inputVars, doneBound, taskVars, resultQ, chand, flagVars,
                 freshVars, stampVars, queueVars>>

(* pending_queue.get() returns an item; "DONE" is counted as well.         *)
TakePending ==
  /\ taken < fed
  /\ taken' = taken + 1
  /\ staleness' = staleness + 1
  /\ IF taken' = Done
       THEN /\ hand' = None
            /\ IF active # {} THEN AcquireAndWait("proc", lockQ, "lastTasks")
                              ELSE /\ Goto("proc", "finished")
                                   /\ cpu' = Idle
                                   /\ UNCHANGED lockQ
       ELSE /\ hand' = taken'
            /\ AwaitSlot(lockQ, active)
  /\ UNCHANGED <<fed, doneBound, taskVars, outVars, flagVars, version, count,
                 stampVars, queueVars>>

ProcTake == /\ At("proc", "check")
            /\ ~paused /\ ~ShouldPause /\ cancelQ = << >>
            /\ TakePending

(* pending_queue.get() blocks ...                                          *)
ProcAwaitPending ==
  /\ At("proc", "check")
  /\ ~paused /\ ~ShouldPause /\ cancelQ = << >> /\ taken = fed
  /\ Goto("proc", "get") /\ cpu' = Idle
  /\ UNCHANGED <<inputVars, procVars, taskVars, outVars, flagVars, freshVars,
                 stampVars, lockQ, queueVars>>

(* ... and returns when the feeder has put something.                      *)
ProcGot == At("proc", "get") /\ TakePending

(* The branch that found the rollout paused sets paused itself.            *)
ProcSetPaused ==
  /\ InLock("proc", "setPaused")
  /\ paused' = TRUE
  /\ IF active # {} THEN AcquireAndWait("proc", Tail(lockQ), "drain")
                    ELSE Acquire("proc", Tail(lockQ), "awaitResume")
  /\ UNCHANGED <<inputVars, procVars, taskVars, outVars, trigger, running,
                 freshVars, stampVars, queueVars>>

(* Where the three loops on active_tasks go when rem is left of it.        *)
AfterReap(at, q, rem) ==
  \/ at = "slot" /\ AwaitSlot(q, rem)
  \/ at # "slot" /\ rem # {} /\ AcquireAndWait("proc", q, at)
  \/ at = "drain" /\ rem = {} /\ Acquire("proc", q, "awaitResume")
  \/ at = "lastTasks" /\ rem = {} /\ Leave("proc", "finished")

(* asyncio.wait(active_tasks, FIRST_COMPLETED) under the lock.             *)
ProcReap(at) ==
  /\ InLock("proc", at)
  /\ \E s \in active : task[s] = "finished"
  /\ active' = {s \in active : task[s] # "finished"}
  /\ doneBound' = TRUE
  /\ AfterReap(at, Tail(lockQ), active')
  /\ UNCHANGED <<inputVars, hand, task, outVars, flagVars, freshVars,
                 stampVars, queueVars>>

(* pause() emptied active_tasks while the processor waited for the lock:   *)
(* `for task in done_tasks` runs over the tasks of an earlier turn, or     *)
(* fails when there was none.                                              *)
ProcNothingToReap(at) ==
  /\ InLock("proc", at)
  /\ active = {}
  /\ IF doneBound THEN AfterReap(at, Tail(lockQ), {})
                  ELSE Leave("proc", "failed")
  /\ UNCHANGED <<inputVars, procVars, taskVars, outVars, flagVars, freshVars,
                 stampVars, queueVars>>

(* `while self.paused: await self.condition.wait()` in the pause branch    *)
ProcAwaitResume ==
  /\ InLock("proc", "awaitResume")
  /\ lockQ' = Tail(lockQ)
  /\ IF paused THEN Goto("proc", "parked") /\ cpu' = Idle
               ELSE Goto("proc", "check") /\ cpu' = "proc"
  /\ UNCHANGED <<inputVars, procVars, taskVars, outVars, flagVars, freshVars,
                 stampVars, queueVars>>

(* ... and in the submission, which creates the task otherwise.            *)
ProcSubmit ==
  /\ InLock("proc", "submit")
  /\ lockQ' = Tail(lockQ)
  /\ IF paused
       THEN /\ Goto("proc", "parkedSubmit") /\ cpu' = Idle
            /\ UNCHANGED <<hand, taskVars>>
       ELSE /\ Goto("proc", "check") /\ cpu' = "proc"
            /\ active' = active \cup {hand}
            /\ task' = [task EXCEPT ![hand] = "created"]
            /\ hand' = None
  /\ UNCHANGED <<inputVars, doneBound, outVars, flagVars, freshVars,
                 stampVars, queueVars>>

(* A notified condition.wait() takes the lock again.                       *)
ProcWake ==
  /\ Runs("proc")
  /\ \/ pc["proc"] = "notified" /\ Acquire("proc", lockQ, "awaitResume")
     \/ pc["proc"] = "notifiedSubmit" /\ Acquire("proc", lockQ, "submit")
  /\ UNCHANGED <<inputVars, procVars, taskVars, outVars, flagVars, freshVars,
                 stampVars, queueVars>>

Loops == {"drain", "lastTasks", "slot"}

Processor == \/ ProcPause \/ ProcTakeCancelled \/ ProcTake
             \/ ProcAwaitPending \/ ProcGot
             \/ ProcSetPaused \/ ProcAwaitResume \/ ProcSubmit \/ ProcWake
             \/ \E at \in Loops : ProcReap(at) \/ ProcNothingToReap(at)

-----------------------------------------------------------------------------
(* _process_single_sample_streaming and the servers behind it.  A task is  *)
(* "running" while its requests are out, "interrupted" when the servers    *)
(* were cancelled meanwhile.                                               *)

(* Stamp the version and send the requests.  A resumed sample keeps the    *)
(* version it was first started with.                                      *)
TaskStart(s) ==
  /\ cpu = Idle /\ task[s] = "created"
  /\ task' = [task EXCEPT ![s] = "running"]
  /\ startV' = [startV EXCEPT ![s] = IF @ = -1 THEN version ELSE @]
  /\ UNCHANGED <<inputVars, procVars, active, outVars, flagVars, freshVars,
                 serverPaused, endV, schedVars, queueVars>>

(* The output is complete: the server was not paused when the request      *)
(* reached it, or had finished before it was.                              *)
TaskFinish(s) ==
  /\ cpu = Idle
  /\ \/ task[s] = "interrupted"
     \/ task[s] = "running" /\ ~serverPaused
  /\ task' = [task EXCEPT ![s] = "finished"]
  /\ endV' = [endV EXCEPT ![s] = version]
  /\ resultQ' = Append(resultQ, s)
  /\ UNCHANGED <<inputVars, procVars, active, cancelQ, chand, flagVars,
                 freshVars, serverPaused, startV, schedVars, queueVars>>

(* Mutant: a cancelled sample is delivered as well.                        *)
TaskCancelledTwice(s) ==
  /\ cpu = Idle
  /\ \/ task[s] = "interrupted"
     \/ task[s] = "running" /\ serverPaused
  /\ task' = [task EXCEPT ![s] = "finished"]
  /\ cancelQ' = Append(cancelQ, s)
  /\ resultQ' = Append(resultQ, s)
  /\ UNCHANGED <<inputVars, procVars, active, chand, flagVars, freshVars,
                 stampVars, schedVars, queueVars>>

(* Some output came back with is_cancel.                                   *)
TaskCancelled(s) ==
  /\ cpu = Idle
  /\ \/ task[s] = "interrupted"
     \/ task[s] = "running" /\ serverPaused
  /\ task' = [task EXCEPT ![s] = "finished"]
  /\ cancelQ' = Append(cancelQ, s)
  /\ UNCHANGED <<inputVars, procVars, active, resultQ, chand, flagVars,
                 freshVars, stampVars, schedVars, queueVars>>

Task(s) == TaskStart(s) \/ TaskFinish(s) \/ TaskCancelled(s)

-----------------------------------------------------------------------------
(* _consumer_worker *)

ConsumerTake ==
  /\ At("consumer", "get") /\ resultQ # << >>
  /\ chand' = Head(resultQ)
  /\ resultQ' = Tail(resultQ)
  /\ Goto("consumer", "put") /\ cpu' = Idle
  /\ UNCHANGED <<inputVars, procVars, taskVars, cancelQ, flagVars, freshVars,
                 stampVars, lockQ, queueVars>>

(* The MessageQueue executes put_sample; it does so as well for a consumer *)
(* that was cancelled meanwhile.                                           *)
ConsumerPut ==
  /\ pc["consumer"] \in {"put", "orphan"}
  /\ Channel!Put(chand)
  /\ dropped' = dropped \cup Channel!Evicted(mq)
  /\ chand' = None
  /\ Goto("consumer", IF pc["consumer"] = "put" THEN "get" ELSE "cancelled")
  /\ UNCHANGED <<inputVars, procVars, taskVars, cancelQ, resultQ, flagVars,
                 freshVars, stampVars, cpu, lockQ, valQ>>

Consumer == ConsumerTake \/ ConsumerPut

-----------------------------------------------------------------------------
(* _streaming_generation_main: the feeder first, then the processor, then  *)
(* result_queue.join(); whatever happened, the workers are cancelled and   *)
(* the end marker is sent.                                                 *)

MainFeedDone ==
  /\ At("main", "awaitFeed") /\ pc["feeder"] = "finished"
  /\ Goto("main", "awaitProc")
  /\ UNCHANGED <<inputVars, procVars, taskVars, outVars, flagVars, freshVars,
                 stampVars, cpu, lockQ, queueVars>>

MainProcDone ==
  /\ At("main", "awaitProc") /\ pc["proc"] = "finished"
  /\ Goto("main", "join")
  /\ UNCHANGED <<inputVars, procVars, taskVars, outVars, flagVars, freshVars,
                 stampVars, cpu, lockQ, queueVars>>

(* Mutant: the result the consumer still holds is not waited for.          *)
JoinedEarly == resultQ = << >>

(* result_queue.join(): every result was taken and put into the            *)
(* MessageQueue, which task_done() reports.                                *)
Joined == resultQ = << >> /\ pc["consumer"] = "get"

(* The workers are cancelled when all is done or the processor failed.     *)
MainCancelWorkers ==
  /\ Runs("main")
  /\ \/ pc["main"] = "join" /\ Joined
     \/ pc["main"] = "awaitProc" /\ pc["proc"] = "failed"
  /\ pc' = [pc EXCEPT !["main"] = "putEnd",
                      !["consumer"] = IF @ = "put" THEN "orphan" ELSE "cancelled"]
  /\ UNCHANGED <<inputVars, procVars, taskVars, outVars, flagVars, freshVars,
                 stampVars, cpu, lockQ, queueVars>>

MainPutEnd ==
  /\ pc["main"] = "putEnd"
  /\ Channel!Put(End)
  /\ dropped' = dropped \cup Channel!Evicted(mq)
  /\ Goto("main", "ended")
  /\ UNCHANGED <<inputVars, procVars, taskVars, outVars, flagVars, freshVars,
                 stampVars, cpu, lockQ, valQ>>

MainStop ==
  /\ At("main", "ended")
  /\ Acquire("main", lockQ, "stop")
  /\ UNCHANGED <<inputVars, procVars, taskVars, outVars, flagVars, freshVars,
                 stampVars, queueVars>>

MainStopped ==
  /\ InLock("main", "stop")
  /\ running' = FALSE
  /\ Leave("main", "finished")
  /\ UNCHANGED <<inputVars, procVars, taskVars, outVars, paused, trigger,
                 freshVars, stampVars, queueVars>>

Main == \/ MainFeedDone \/ MainProcDone \/ MainCancelWorkers
        \/ MainPutEnd \/ MainStop \/ MainStopped

-----------------------------------------------------------------------------
(* _async_monitor_loop: sleep, and unless a synchronisation or the limits  *)
(* forbid it, lift the pause.  The test is made before the lock is taken.  *)

MonitorTick ==
  /\ At("monitor", "sleep")
  /\ Acquire("monitor", lockQ,
             IF trigger /\ ~ShouldPause THEN "lift" ELSE "check")
  /\ UNCHANGED <<inputVars, procVars, taskVars, outVars, flagVars, freshVars,
                 stampVars, queueVars>>

MonitorLift ==
  /\ InLock("monitor", "lift")
  /\ paused' = FALSE
  /\ lockQ' = Append(Tail(lockQ), "monitor")
  /\ pc' = [pc EXCEPT !["monitor"] = "check", !["proc"] = Notified]
  /\ cpu' = IF Tail(lockQ) = << >> THEN "monitor" ELSE Idle
  /\ UNCHANGED <<inputVars, procVars, taskVars, outVars, trigger, running,
                 freshVars, stampVars, queueVars>>

MonitorCheck ==
  /\ InLock("monitor", "check")
  /\ Leave("monitor", IF running THEN "sleep" ELSE "finished")
  /\ UNCHANGED <<inputVars, procVars, taskVars, outVars, flagVars, freshVars,
                 stampVars, queueVars>>

Monitor == MonitorTick \/ MonitorLift \/ MonitorCheck

-----------------------------------------------------------------------------
(* pause(), called by the ParameterSynchronizer: "called" is set by the    *)
(* caller, "returned" is what ends its ray.get.                            *)

PauseCall ==
  /\ At("pause", "called")
  /\ Acquire("pause", lockQ, "begin")
  /\ UNCHANGED <<inputVars, procVars, taskVars, outVars, flagVars, freshVars,
                 stampVars, queueVars>>

PauseBegin ==
  /\ InLock("pause", "begin")
  /\ paused' = TRUE
  /\ Goto("pause", IF Partial THEN "cancel" ELSE "gather") /\ cpu' = Idle
  /\ UNCHANGED <<inputVars, procVars, taskVars, outVars, trigger, running,
                 freshVars, stampVars, lockQ, queueVars>>

(* Mutant: the servers interrupt what they work on and accept new requests.*)
PauseCancelOpen ==
  /\ At("pause", "cancel")
  /\ task' = [s \in Samples |->
                IF task[s] = "running" THEN "interrupted" ELSE task[s]]
  /\ Goto("pause", "gather") /\ cpu' = Idle
  /\ UNCHANGED <<inputVars, procVars, active, outVars, flagVars, freshVars,
                 stampVars, lockQ, queueVars>>

(* Every server refuses new requests and interrupts those it works on.     *)
PauseCancel ==
  /\ At("pause", "cancel")
  /\ serverPaused' = TRUE
  /\ task' = [s \in Samples |->
                IF task[s] = "running" THEN "interrupted" ELSE task[s]]
  /\ Goto("pause", "gather") /\ cpu' = Idle
  /\ UNCHANGED <<inputVars, procVars, active, outVars, flagVars, freshVars,
                 startV, endV, lockQ, queueVars>>

(* gather(active_tasks), clear, and on to the prefix caches.               *)
PauseGather ==
  /\ At("pause", "gather")
  /\ \A s \in active : task[s] = "finished"
  /\ active' = {}
  /\ Goto("pause", "resetCache") /\ cpu' = Idle
  /\ UNCHANGED <<inputVars, procVars, task, outVars, flagVars, freshVars,
                 stampVars, lockQ, queueVars>>

PauseEnd ==
  /\ InLock("pause", "resetCache")
  /\ trigger' = FALSE
  /\ Leave("pause", "returned")
  /\ UNCHANGED <<inputVars, procVars, taskVars, outVars, paused, running,
                 freshVars, stampVars, queueVars>>

Pause == PauseCall \/ PauseBegin \/ PauseCancel \/ PauseGather \/ PauseEnd

-----------------------------------------------------------------------------
(* update_param_version(v, validate)                                       *)

UpdateCall ==
  /\ At("update", "called")
  /\ Acquire("update", lockQ, "begin")
  /\ UNCHANGED <<inputVars, procVars, taskVars, outVars, flagVars, freshVars,
                 stampVars, queueVars>>

(* The new version, and the part of the sum that is evaluated before the   *)
(* size of the MessageQueue is awaited.                                    *)
UpdateBegin(v) ==
  /\ InLock("update", "begin")
  /\ version' = v
  /\ count' = Cardinality(active) + Len(resultQ) + Len(cancelQ)
  /\ Goto("update", "askSize") /\ cpu' = Idle
  /\ UNCHANGED <<inputVars, procVars, taskVars, outVars, flagVars, staleness,
                 stampVars, lockQ, queueVars>>

(* The MessageQueue answers get_queue_size.                                *)
UpdateSize ==
  /\ pc["update"] = "askSize"
  /\ count' = count + Len(mq)
  /\ Goto("update", "set")
  /\ UNCHANGED <<inputVars, procVars, taskVars, outVars, flagVars, version,
                 staleness, stampVars, cpu, lockQ, queueVars>>

Validates(v, validate) ==
  validate \/ (TestFreq > 0 /\ v > 0 /\ v % TestFreq = 0)

(* Set staleness_samples; validate, which blocks the event loop.           *)
UpdateSet(v, validate) ==
  /\ At("update", "set")
  /\ staleness' = count
  /\ Goto("update", "putValidate")
  /\ cpu' = IF Validates(v, validate) THEN "update" ELSE Idle
  /\ UNCHANGED <<inputVars, procVars, taskVars, outVars, flagVars, version,
                 count, stampVars, lockQ, queueVars>>

UpdateEnd(v, validate) ==
  /\ InLock("update", "putValidate")
  /\ valQ' = Append(valQ, IF Validates(v, validate) THEN "metrics" ELSE "plain")
  /\ Leave("update", "returned")
  /\ UNCHANGED <<inputVars, procVars, taskVars, outVars, flagVars, freshVars,
                 stampVars, mq, dropped>>

Update(v, validate) ==
  \/ UpdateCall \/ UpdateBegin(v) \/ UpdateSize
  \/ UpdateSet(v, validate) \/ UpdateEnd(v, validate)

-----------------------------------------------------------------------------
(* resume(wait_last_update): Ray starts it when the update has returned.   *)

ResumeCall ==
  /\ At("resume", "called") /\ pc["update"] = "returned"
  /\ Acquire("resume", lockQ, "begin")
  /\ UNCHANGED <<inputVars, procVars, taskVars, outVars, flagVars, freshVars,
                 stampVars, queueVars>>

ResumeBegin ==
  /\ InLock("resume", "begin")
  /\ paused' = FALSE
  /\ trigger' = TRUE
  /\ pc' = [pc EXCEPT !["resume"] = IF Partial THEN "resumeServers" ELSE "returned",
                      !["proc"] = Notified]
  /\ lockQ' = IF Partial THEN lockQ ELSE Tail(lockQ)
  /\ cpu' = Idle
  /\ UNCHANGED <<inputVars, procVars, taskVars, outVars, running, freshVars,
                 stampVars, queueVars>>

ResumeServers ==
  /\ InLock("resume", "resumeServers")
  /\ serverPaused' = FALSE
  /\ Leave("resume", "returned")
  /\ UNCHANGED <<inputVars, procVars, taskVars, outVars, flagVars, freshVars,
                 startV, endV, queueVars>>

Resume == ResumeCall \/ ResumeBegin \/ ResumeServers

-----------------------------------------------------------------------------

Coroutines == {"feeder", "proc", "consumer", "main", "monitor",
               "pause", "update", "resume"}

(* Where a coroutine can be: waiting to run from there on.                 *)
Labels == {"put", "finished",                                  \* feeder
           "check", "get", "setPaused", "drain", "lastTasks",  \* proc
           "slot", "submit", "awaitResume", "parked", "parkedSubmit",
           "notified", "notifiedSubmit", "failed",
           "orphan", "cancelled",                              \* consumer
           "awaitFeed", "awaitProc", "join", "putEnd", "ended", "stop",
           "sleep", "lift",                                    \* monitor
           "called", "begin", "returned",                      \* the calls
           "cancel", "gather", "resetCache", "askSize", "set",
           "putValidate", "resumeServers"}

(* main() has synchronised version 0 before fit() is called: that pause,   *)
(* update and resume have returned, and left their validation result.      *)
RollInit(valBefore) ==
  /\ cpu = Idle /\ lockQ = << >>
  /\ pc = [feeder |-> "put", proc |-> "check", consumer |-> "get",
            main |-> "awaitFeed", monitor |-> "sleep", pause |-> "returned",
            update |-> "returned", resume |-> "returned"]
  /\ fed = 0 /\ taken = 0 /\ hand = None /\ doneBound = FALSE
  /\ active = {} /\ task = [s \in Samples |-> "none"]
  /\ cancelQ = << >> /\ resultQ = << >> /\ chand = None
  /\ paused = FALSE /\ trigger = TRUE /\ running = TRUE
  /\ version = 0 /\ staleness = 0 /\ count = 0 /\ serverPaused = FALSE
  /\ startV = [s \in Samples |-> -1] /\ endV = [s \in Samples |-> -1]
  /\ mq = << >> /\ dropped = {} /\ valQ = <<IF valBefore THEN "metrics" ELSE "plain">>
=============================================================================
