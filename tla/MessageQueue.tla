---------------------------- MODULE MessageQueue ----------------------------
(***************************************************************************)
(* The Ray actor recipe/fully_async_policy/message_queue.py.               *)
(*                                                                         *)
(* Every method runs its body under one asyncio lock and awaits nothing    *)
(* inside it but the consumer condition, so a body is one atomic step and  *)
(* the only thing two calls can see of each other is a get_sample parked   *)
(* on the condition.  A parked call gives the lock up; notify_all makes it *)
(* "woken", and a later step, possibly after other calls, lets it test the *)
(* queue again.  The actor serves at most Slots calls at a time            *)
(* (max_concurrency), and a parked call keeps its slot.                    *)
(***************************************************************************)
EXTENDS Naturals, Sequences, FiniteSets

CONSTANTS Items,      \* samples
          Getters,    \* the clients that may call get_sample
          Slots,      \* max_concurrency of the actor
          MaxQueue,   \* max_queue_size
          PutBound    \* bound of the model on total_produced

ASSUME MQAssumption == /\ MaxQueue \in Nat \ {0}
                       /\ Slots \in Nat \ {0}
                       /\ PutBound \in Nat

VARIABLES queue,      \* the deque
          call,       \* where the get_sample call of each getter is
          running,
          produced,   \* total_produced
          consumed,   \* total_consumed
          dropped,    \* dropped_samples
          cleared     \* samples clear_queue removed; the code only logs it

vars == <<queue, call, running, produced, consumed, dropped, cleared>>

(* The promise that module SampleChannel states.                           *)
Channel == INSTANCE SampleChannel WITH mq <- queue

-----------------------------------------------------------------------------

Parked == {g \in Getters : call[g] = "waiting"}
InActor == {g \in Getters : call[g] \in {"waiting", "woken"}}

(* A call enters the actor only while a concurrency slot is free.          *)
SlotFree == Cardinality(InActor) < Slots

(* Mutant: put_sample and shutdown wake nobody.                            *)
NotifyNobody == UNCHANGED call

(* _consumer_condition.notify_all() *)
NotifyAll == call' = [g \in Getters |->
                        IF call[g] = "waiting" THEN "woken" ELSE call[g]]

Init == /\ queue = << >>
        /\ call = [g \in Getters |-> "idle"]
        /\ running = TRUE
        /\ produced = 0 /\ consumed = 0 /\ dropped = 0 /\ cleared = 0

(* Mutant: pop() for popleft(), the newest sample makes room.              *)
PutSamplePopsNewest(x) ==
  /\ SlotFree
  /\ produced < PutBound
  /\ queue' = Append(SubSeq(queue, 1, IF Len(queue) >= MaxQueue
                                        THEN Len(queue) - 1 ELSE Len(queue)), x)
  /\ dropped' = dropped + (IF Len(queue) >= MaxQueue THEN 1 ELSE 0)
  /\ produced' = produced + 1
  /\ NotifyAll
  /\ UNCHANGED <<running, consumed, cleared>>

(* put_sample: a full queue loses its oldest sample first.                 *)
PutSample(x) ==
  /\ SlotFree
  /\ produced < PutBound
  /\ queue' = Append(IF Len(queue) >= MaxQueue THEN Tail(queue) ELSE queue, x)
  /\ dropped' = dropped + (IF Len(queue) >= MaxQueue THEN 1 ELSE 0)
  /\ produced' = produced + 1
  /\ NotifyAll
  /\ UNCHANGED <<running, consumed, cleared>>

(* The body of get_sample from the test of the queue on: park, or report   *)
(* the closed queue, or hand out the oldest sample.                        *)
TestQueue(g) ==
  \/ /\ queue = << >> /\ running
     /\ call' = [call EXCEPT ![g] = "waiting"]
     /\ UNCHANGED <<queue, consumed>>
  \/ /\ queue = << >> /\ ~running
     /\ call' = [call EXCEPT ![g] = "closed"]
     /\ UNCHANGED <<queue, consumed>>
  \/ /\ queue # << >>
     /\ queue' = Tail(queue)
     /\ consumed' = consumed + 1
     /\ call' = [call EXCEPT ![g] = "got"]

GetSample(g) ==
  /\ call[g] = "idle" /\ SlotFree
  /\ TestQueue(g)
  /\ UNCHANGED <<running, produced, dropped, cleared>>

(* The condition lets a notified call run; it tests the queue again.       *)
Wake(g) ==
  /\ call[g] = "woken"
  /\ TestQueue(g)
  /\ UNCHANGED <<running, produced, dropped, cleared>>

(* The client receives its sample and may call again.                      *)
Return(g) ==
  /\ call[g] = "got"
  /\ call' = [call EXCEPT ![g] = "idle"]
  /\ UNCHANGED <<queue, running, produced, consumed, dropped, cleared>>

ClearQueue ==
  /\ SlotFree
  /\ cleared' = cleared + Len(queue)
  /\ queue' = << >>
  /\ UNCHANGED <<call, running, produced, consumed, dropped>>

(* shutdown: what is queued can still be fetched.                          *)
Shutdown ==
  /\ SlotFree
  /\ running' = FALSE
  /\ NotifyAll
  /\ UNCHANGED <<queue, produced, consumed, dropped, cleared>>

Next == \/ \E x \in Items : PutSample(x)
        \/ \E g \in Getters : GetSample(g) \/ Wake(g) \/ Return(g)
        \/ ClearQueue
        \/ Shutdown

(* A notified coroutine is run by the event loop, and a client that got    *)
(* its sample goes on.  Nobody is bound to put, clear or shut down.        *)
Fairness == \A g \in Getters : WF_vars(Wake(g)) /\ WF_vars(Return(g))

Spec == Init /\ [][Next]_vars /\ Fairness

-----------------------------------------------------------------------------

(* Every variable holds values of its type; the deque never outgrows its   *)
(* max_queue_size (message_queue.py:36-41).                                *)
TypeOK == /\ queue \in Seq(Items)
          /\ Len(queue) <= MaxQueue
          /\ call \in [Getters -> {"idle", "waiting", "woken", "got", "closed"}]
          /\ running \in BOOLEAN
          /\ produced \in Nat /\ consumed \in Nat
          /\ dropped \in Nat /\ cleared \in Nat

(* No wakeup is lost: while the queue holds a sample, or once it is shut   *)
(* down, no get_sample stays parked on the condition, however many calls   *)
(* were parked or woken in between (put_sample, get_sample, shutdown).     *)
NoLostWakeup == queue # << >> \/ ~running => Parked = {}

(* The statistics account for every sample: whatever was produced is in    *)
(* the queue, was consumed, was pushed out by put_sample or was cleared.   *)
Accounting == produced = consumed + dropped + cleared + Len(queue)

(* A call that reports the closed queue leaves no sample behind it: step   *)
(* by step, a getter ends with "closed" only on an empty queue.            *)
DrainsBeforeClosing ==
  [][\A g \in Getters :
       call[g] # "closed" /\ call'[g] = "closed" => queue = << >> /\ ~running]_vars

(* The actor behaves as the bounded FIFO its users rely on.                *)
ImplementsChannel == Channel!ChannelSpec

=============================================================================
