--------------------------- MODULE SampleChannel ---------------------------
(***************************************************************************)
(* What the message queue between Rollouter and Trainer promises its       *)
(* users: a bounded FIFO that never refuses a sample.  A sample that       *)
(* arrives at a full queue pushes the oldest one out.  Everything else the *)
(* actor does (coroutines, condition variable, counters) is in module      *)
(* MessageQueue, which implements this one.                                *)
(***************************************************************************)
EXTENDS Naturals, Sequences

CONSTANTS Items,     \* what travels: samples and the end marker
          MaxQueue   \* max_queue_size

VARIABLE mq          \* the samples in the queue, oldest first

-----------------------------------------------------------------------------

(* Mutant: one sample more than max_queue_size.                            *)
FullLate(q) == Len(q) > MaxQueue

Full(q) == Len(q) >= MaxQueue

(* The queue after put_sample: a full queue loses its head first.          *)
Pushed(q, x) == Append(IF Full(q) THEN Tail(q) ELSE q, x)

(* What put_sample pushes out of the queue.                                *)
Evicted(q) == IF Full(q) THEN {Head(q)} ELSE {}

-----------------------------------------------------------------------------

ChannelInit == mq = << >>

Put(x) == mq' = Pushed(mq, x)

Take == /\ mq # << >>
        /\ mq' = Tail(mq)

Clear == mq' = << >>

ChannelNext == \/ \E x \in Items : Put(x)
               \/ Take
               \/ Clear

ChannelSpec == ChannelInit /\ [][ChannelNext]_mq
=============================================================================
