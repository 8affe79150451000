-------------------------- MODULE MessageQueueProofs --------------------------
(***************************************************************************)
(* Proofs about module MessageQueue, for every set of items and getters,   *)
(* every capacity and every number of actor slots.                         *)
(***************************************************************************)
EXTENDS MessageQueue, SequenceTheorems, TLAPS

(* A put keeps the deque a sequence of items within its capacity, and its  *)
(* length is accounted for by at most one dropped sample (put_sample).     *)
LEMMA PutKeepsQueue ==
  ASSUME NEW q \in Seq(Items), NEW x \in Items, Len(q) <= MaxQueue,
         MaxQueue \in Nat \ {0}
  PROVE  LET r == Append(IF Len(q) >= MaxQueue THEN Tail(q) ELSE q, x)
             d == IF Len(q) >= MaxQueue THEN 1 ELSE 0
         IN  /\ r \in Seq(Items) /\ r # << >>
             /\ Len(r) <= MaxQueue /\ Len(q) + 1 = Len(r) + d
<1>1. CASE Len(q) >= MaxQueue
  <2>1. q # << >> /\ Tail(q) \in Seq(Items) /\ Len(Tail(q)) = Len(q) - 1
    BY <1>1
  <2>. QED  BY <1>1, <2>1
<1>2. CASE ~(Len(q) >= MaxQueue)
  BY <1>2
<1>. QED  BY <1>1, <1>2

(* The head leaves a sequence of items one shorter.                        *)
LEMMA TakeKeepsQueue ==
  ASSUME NEW q \in Seq(Items), q # << >>
  PROVE  Tail(q) \in Seq(Items) /\ Len(Tail(q)) = Len(q) - 1 /\ Len(q) > 0
OBVIOUS

(* The types of message_queue.py hold throughout, and the deque never      *)
(* exceeds max_queue_size.                                                 *)
THEOREM SpecTypeOK == Spec => []TypeOK
<1>1. Init => TypeOK
  BY MQAssumption DEF Init, TypeOK
<1>2. TypeOK /\ [Next]_vars => TypeOK'
  <2>. SUFFICES ASSUME TypeOK, [Next]_vars PROVE TypeOK'
    OBVIOUS
  <2>. USE MQAssumption DEF TypeOK
  <2>1. ASSUME NEW x \in Items, PutSample(x) PROVE TypeOK'
    <3>1. queue' \in Seq(Items) /\ Len(queue') <= MaxQueue
      BY <2>1, PutKeepsQueue DEF PutSample
    <3>2. dropped' \in Nat /\ produced' \in Nat
      BY <2>1 DEF PutSample
    <3>. QED  BY <2>1, <3>1, <3>2 DEF PutSample, NotifyAll
  <2>2. ASSUME NEW g \in Getters, GetSample(g) \/ Wake(g) PROVE TypeOK'
    <3>1. CASE queue = << >>
      BY <2>2, <3>1 DEF GetSample, Wake, TestQueue
    <3>2. CASE queue # << >>
      <4>1. /\ queue' = Tail(queue)
            /\ consumed' = consumed + 1
            /\ call' = [call EXCEPT ![g] = "got"]
        BY <2>2, <3>2 DEF GetSample, Wake, TestQueue
      <4>2. queue' \in Seq(Items) /\ Len(queue') <= MaxQueue
        BY <3>2, <4>1, TakeKeepsQueue
      <4>. QED  BY <2>2, <4>1, <4>2 DEF GetSample, Wake
    <3>. QED  BY <3>1, <3>2
  <2>3. ASSUME NEW g \in Getters, Return(g) PROVE TypeOK'
    BY <2>3 DEF Return
  <2>4. CASE ClearQueue
    BY <2>4 DEF ClearQueue
  <2>5. CASE Shutdown
    BY <2>5 DEF Shutdown, NotifyAll
  <2>6. CASE UNCHANGED vars
    BY <2>6 DEF vars
  <2>. QED  BY <2>1, <2>2, <2>3, <2>4, <2>5, <2>6 DEF Next
<1>. QED  BY <1>1, <1>2, PTL DEF Spec

(* No wakeup is lost: no get_sample is parked on the condition while there *)
(* is a sample to hand out or the queue is shut down.                      *)
THEOREM SpecNoLostWakeup == Spec => []NoLostWakeup
<1>1. Init => NoLostWakeup
  BY DEF Init, NoLostWakeup, Parked
<1>2. TypeOK /\ NoLostWakeup /\ [Next]_vars => NoLostWakeup'
  <2>. SUFFICES ASSUME TypeOK, NoLostWakeup, [Next]_vars PROVE NoLostWakeup'
    OBVIOUS
  <2>. USE DEF TypeOK, NoLostWakeup, Parked
  <2>1. ASSUME NEW x \in Items, PutSample(x) PROVE NoLostWakeup'
    BY <2>1 DEF PutSample, NotifyAll
  <2>2. ASSUME NEW g \in Getters, GetSample(g) \/ Wake(g) PROVE NoLostWakeup'
    BY <2>2 DEF GetSample, Wake, TestQueue
  <2>3. ASSUME NEW g \in Getters, Return(g) PROVE NoLostWakeup'
    BY <2>3 DEF Return
  <2>4. CASE ClearQueue
    BY <2>4 DEF ClearQueue
  <2>5. CASE Shutdown
    BY <2>5 DEF Shutdown, NotifyAll
  <2>6. CASE UNCHANGED vars
    BY <2>6 DEF vars
  <2>. QED  BY <2>1, <2>2, <2>3, <2>4, <2>5, <2>6 DEF Next
<1>. QED  BY <1>1, <1>2, SpecTypeOK, PTL DEF Spec

(* The counters of get_statistics account for every sample ever produced.  *)
THEOREM SpecAccounting == Spec => []Accounting
<1>1. Init => Accounting
  BY DEF Init, Accounting
<1>2. TypeOK /\ Accounting /\ [Next]_vars => Accounting'
  <2>. SUFFICES ASSUME TypeOK, Accounting, [Next]_vars PROVE Accounting'
    OBVIOUS
  <2>. USE MQAssumption DEF TypeOK, Accounting
  <2>1. ASSUME NEW x \in Items, PutSample(x) PROVE Accounting'
    <3>. DEFINE d == IF Len(queue) >= MaxQueue THEN 1 ELSE 0
    <3>1. Len(queue) + 1 = Len(queue') + d /\ dropped' = dropped + d
      BY <2>1, PutKeepsQueue DEF PutSample
    <3>2. /\ produced' = produced + 1
          /\ consumed' = consumed /\ cleared' = cleared
      BY <2>1 DEF PutSample
    <3>3. Len(queue') \in Nat /\ Len(queue) \in Nat /\ d \in Nat
      BY <2>1, PutKeepsQueue DEF PutSample
    <3>. HIDE DEF d
    <3>. QED  BY <3>1, <3>2, <3>3
  <2>2. ASSUME NEW g \in Getters, GetSample(g) \/ Wake(g) PROVE Accounting'
    <3>1. /\ produced' = produced /\ dropped' = dropped /\ cleared' = cleared
      BY <2>2 DEF GetSample, Wake
    <3>2. CASE queue = << >>
      BY <2>2, <3>1, <3>2 DEF GetSample, Wake, TestQueue
    <3>3. CASE queue # << >>
      <4>1. queue' = Tail(queue)
        BY <2>2, <3>3 DEF GetSample, Wake, TestQueue
      <4>2. consumed' = consumed + 1
        BY <2>2, <3>3 DEF GetSample, Wake, TestQueue
      <4>3. Len(queue') = Len(queue) - 1 /\ Len(queue) \in Nat
        BY <3>3, <4>1, TakeKeepsQueue
      <4>. QED  BY <3>1, <4>2, <4>3
    <3>. QED  BY <3>2, <3>3
  <2>3. ASSUME NEW g \in Getters, Return(g) PROVE Accounting'
    BY <2>3 DEF Return
  <2>4. CASE ClearQueue
    BY <2>4 DEF ClearQueue
  <2>5. CASE Shutdown
    BY <2>5 DEF Shutdown
  <2>6. CASE UNCHANGED vars
    BY <2>6 DEF vars
  <2>. QED  BY <2>1, <2>2, <2>3, <2>4, <2>5, <2>6 DEF Next
<1>. QED  BY <1>1, <1>2, SpecTypeOK, PTL DEF Spec

(* get_sample never reports a closed queue that still holds a sample.      *)
THEOREM SpecDrainsBeforeClosing == Spec => DrainsBeforeClosing
<1>. DEFINE Drains == \A g \in Getters :
               call[g] # "closed" /\ call'[g] = "closed" => queue = << >> /\ ~running
<1>1. TypeOK /\ [Next]_vars => [Drains]_vars
  <2>. SUFFICES ASSUME TypeOK, Next PROVE Drains
    OBVIOUS
  <2>. USE DEF TypeOK
  <2>1. ASSUME NEW x \in Items, PutSample(x) PROVE Drains
    BY <2>1 DEF PutSample, NotifyAll
  <2>2. ASSUME NEW g \in Getters, GetSample(g) \/ Wake(g) PROVE Drains
    BY <2>2 DEF GetSample, Wake, TestQueue
  <2>3. ASSUME NEW g \in Getters, Return(g) PROVE Drains
    BY <2>3 DEF Return
  <2>4. CASE ClearQueue
    BY <2>4 DEF ClearQueue
  <2>5. CASE Shutdown
    BY <2>5 DEF Shutdown, NotifyAll
  <2>. QED  BY <2>1, <2>2, <2>3, <2>4, <2>5 DEF Next
<1>. QED  BY <1>1, SpecTypeOK, PTL DEF Spec, DrainsBeforeClosing

(* The actor implements the bounded FIFO of module SampleChannel: its      *)
(* initial state is the channel's, and each of its steps is a put, a take, *)
(* a clear or a step that leaves the queue alone.                          *)
THEOREM SpecImplementsChannel == Spec => ImplementsChannel
<1>1. Init => Channel!ChannelInit
  BY DEF Init, Channel!ChannelInit
<1>2. [Next]_vars => [Channel!ChannelNext]_queue
  <2>. SUFFICES ASSUME [Next]_vars PROVE [Channel!ChannelNext]_queue
    OBVIOUS
  <2>1. ASSUME NEW x \in Items, PutSample(x) PROVE Channel!Put(x)
    BY <2>1 DEF PutSample, Channel!Put, Channel!Pushed, Channel!Full
  <2>2. ASSUME NEW g \in Getters, GetSample(g) \/ Wake(g)
        PROVE  Channel!Take \/ UNCHANGED queue
    BY <2>2 DEF GetSample, Wake, TestQueue, Channel!Take
  <2>3. ASSUME NEW g \in Getters, Return(g) PROVE UNCHANGED queue
    BY <2>3 DEF Return
  <2>4. CASE ClearQueue
    BY <2>4 DEF ClearQueue, Channel!Clear, Channel!ChannelNext
  <2>5. CASE Shutdown
    BY <2>5 DEF Shutdown
  <2>6. CASE UNCHANGED vars
    BY <2>6 DEF vars
  <2>. QED
    BY <2>1, <2>2, <2>3, <2>4, <2>5, <2>6 DEF Next, Channel!ChannelNext
<1>. QED  BY <1>1, <1>2, PTL DEF Spec, ImplementsChannel, Channel!ChannelSpec
=============================================================================
