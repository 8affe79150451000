----------------------------- MODULE BatchFlow -----------------------------
(***************************************************************************)
(* The way of a batch through the workers: the driver balances the rows    *)
(* over the workers (_balance_batch), sends each data-parallel rank its    *)
(* chunk (single_controller/base/decorator.py), every worker cuts its      *)
(* chunk into micro-batches (rearrange_micro_batches) and runs the model   *)
(* on them, first for the old log probabilities, then for the update       *)
(* (workers/actor/dp_actor.py), and the driver puts the results back.      *)
(*                                                                         *)
(* The workers run one model together: a forward pass, the reduction of a  *)
(* number and an optimizer step are collectives, which nobody leaves       *)
(* before all have entered them.                                           *)
(*                                                                         *)
(* A row is its number in the batch before it is balanced; the log         *)
(* probabilities of a row are its number, too.                             *)
(***************************************************************************)
EXTENDS SeqlenBalance, Slqp, SequencesExt

CONSTANTS Shapes,     \* that are tried: rows of a batch, the lengths they
                      \* may have, data and sequence parallel sizes
          MaxTokens,  \* ppo_max_token_len_per_gpu
          Minis,      \* ppo_mini_batch_size that are tried, in rows
          Micro,      \* ppo_micro_batch_size_per_gpu
          PromptLen,  \* tokens of a row that are not its response's
          MinTokens   \* min_response_tokens

ASSUME BatchAssumption ==
  /\ {MaxTokens, PromptLen, MinTokens} \subseteq Nat /\ Minis \subseteq Nat /\ Micro \in Nat \ {0}
  /\ \A s \in Shapes : /\ s.rows \in Nat /\ s.dp \in Nat \ {0} /\ s.sp \in Nat \ {0}
                       /\ s.rows % (s.dp * s.sp) = 0
                       /\ s.lens \subseteq PromptLen + 1 .. MaxTokens * s.sp

VARIABLES
  config,  \* shape of the run and its options
  len,     \* effective length of each row
  order,   \* the rows of the batch as they are ordered now
  old,     \* old_log_probs of the batch; 0 where they are zeros
  heap,    \* states of karmarkar_karp, of the driver (0) and each worker
  phase,   \* where the driver is
  pc,      \* where a worker is
  slices,  \* what it still has to run: its chunk, or mini-batches of it
  ops,     \* collectives it has entered during this call
  micros,  \* micro-batches it still has to run, of the first slice
  index,   \* batch_idx_list, flattened
  out,     \* log_probs_lst; of an update, what it used of each row
  steps    \* the rows of every optimizer step: the old log prob that was
           \* used or, with the quality loss alone, the share of the gradient

driver == <<order, old, phase>>
call == <<pc, slices, ops, micros, index, out, steps>>
vars == <<config, len, heap, driver, call>>

World == config.dp * config.sp
Workers == 1 .. World

-----------------------------------------------------------------------------

(* [::2] and [1::2]                                                        *)
Odds(s) == [i \in 1 .. (Len(s) + 1) \div 2 |-> s[2 * i - 1]]
Evens(s) == [i \in 1 .. Len(s) \div 2 |-> s[2 * i]]

(* Mutant: only whole parts.                                               *)
SplitWhole(s, n) ==
  [i \in 1 .. (IF Len(s) < n THEN 1 ELSE Len(s) \div n) |->
     SubSeq(s, (i - 1) * n + 1, IF i * n <= Len(s) THEN i * n ELSE Len(s))]

(* DataProto.split                                                         *)
Split(s, n) ==
  [i \in 1 .. (Len(s) + n - 1) \div n |->
     SubSeq(s, (i - 1) * n + 1, IF i * n <= Len(s) THEN i * n ELSE Len(s))]

Total(S, f) == MapThenSumSet(LAMBDA i : f[i], S)

Init ==
  /\ \E s \in Shapes, m \in Minis, b, d \in BOOLEAN, l \in {"ppo", "opd", "slqp"} :
       /\ m <= s.rows /\ m \div s.dp > 0 /\ (m \div s.dp) % Micro = 0
       /\ l = "opd" => m = s.rows
       /\ config = [rows |-> s.rows, dp |-> s.dp, sp |-> s.sp, mini |-> m,
                    balance |-> b, dynamic |-> d, loss |-> l]
       /\ len \in [1 .. s.rows -> s.lens]
  /\ order = [i \in 1 .. config.rows |-> i]
  /\ old = [i \in 1 .. config.rows |-> 0]
  /\ heap = [p \in 0 .. World |-> {}]
  /\ phase = "balance"
  /\ pc = [w \in Workers |-> "idle"]
  /\ slices = [w \in Workers |-> << >>] /\ ops = [w \in Workers |-> << >>]
  /\ micros = [w \in Workers |-> << >>] /\ index = [w \in Workers |-> << >>]
  /\ out = [w \in Workers |-> << >>] /\ steps = [w \in Workers |-> << >>]

-----------------------------------------------------------------------------

Loads == [i \in 1 .. config.rows |-> Workload(len[i])]

(* _balance_batch, when balance_batch is set: as many parts of equal size  *)
(* as there are workers,                                                   *)
Balance ==
  /\ phase = "balance"
  /\ IF config.balance
     THEN heap' = [heap EXCEPT ![0] = Groups(Loads, World)] /\ phase' = "balancing"
     ELSE phase' = "log_prob" /\ UNCHANGED heap
  /\ UNCHANGED <<config, len, order, old, call>>

MergeDriver ==
  /\ phase = "balancing" /\ Cardinality(heap[0]) > 1
  /\ \E h \in Merges(heap[0], World) : heap' = [heap EXCEPT ![0] = h]
  /\ UNCHANGED <<config, len, driver, call>>

(* A part with its small rows at both ends.                                *)
SmallAtEnds(part) ==
  LET rows == InOrder(part, ByLoad(part, Loads))
  IN  Odds(rows) \o Reverse(Evens(rows))

(* and the batch is ordered by them.                                       *)
Reorder ==
  /\ phase = "balancing" /\ Cardinality(heap[0]) = 1
  /\ LET parts == Parts(heap[0], World)
     IN  order' = FlattenSeq([w \in Workers |-> SmallAtEnds(parts[w])])
  /\ phase' = "log_prob"
  /\ UNCHANGED <<config, len, old, heap, call>>

-----------------------------------------------------------------------------

(* Workers of the same data-parallel rank, sp of them, get the same chunk, *)
(* and only the first of them is listened to.                              *)
DpRank(w) == (w - 1) \div config.sp

IsCollect(w) == (w - 1) % config.sp = 0

(* The chunk of a worker: rows with their old log probs.                   *)
Chunk(w) ==
  LET size == config.rows \div config.dp
  IN  [i \in 1 .. size |-> LET at == DpRank(w) * size + i
                           IN  [id |-> order[at], old |-> old[at]]]

(* How micro-batches are cut; with the quality loss alone, behind the sum  *)
(* of all valid tokens.                                                    *)
Cutting == IF config.dynamic THEN "count" ELSE "split"
Begin == IF config.loss = "slqp" THEN "tokens" ELSE Cutting

(* A call goes out to all workers.                                         *)
Dispatch(work) ==
  /\ slices' = work
  /\ pc' = [w \in Workers |-> Begin]
  /\ ops' = [w \in Workers |-> << >>]
  /\ out' = [w \in Workers |-> << >>]
  /\ UNCHANGED <<config, len, order, old, heap, micros, index, steps>>

(* fit(): when the update uses no old log probs, or is one mini-batch that *)
(* uses its own, they are not computed before.                             *)
SkipsReplay == \/ config.loss = "slqp"
               \/ config.loss = "opd" /\ config.mini = config.rows

CallLogProb ==
  /\ phase = "log_prob"
  /\ IF SkipsReplay
     THEN phase' = "update" /\ UNCHANGED <<config, len, order, old, heap, call>>
     ELSE phase' = "computing" /\ Dispatch([w \in Workers |-> <<Chunk(w)>>])

AllReplied == \A w \in Workers : pc[w] = "replied"

(* The results are put together and become a column of the batch.          *)
Collect ==
  /\ phase = "computing" /\ AllReplied
  /\ old' = FlattenSeq([w \in Workers |-> IF IsCollect(w) THEN out[w] ELSE << >>])
  /\ phase' = "update"
  /\ UNCHANGED <<config, len, order, heap, call>>

(* ppo_mini_batch_size as every worker normalizes it.                      *)
Mini == config.mini \div config.dp

CallUpdate ==
  /\ phase = "update"
  /\ phase' = "updating"
  /\ Dispatch([w \in Workers |-> Split(Chunk(w), Mini)])

Finish ==
  /\ phase = "updating" /\ AllReplied
  /\ phase' = "done"
  /\ UNCHANGED <<config, len, order, old, heap, call>>

-----------------------------------------------------------------------------

(* A worker enters a collective, and leaves it when all have entered.      *)
Enter(w, op, n) == ops' = [ops EXCEPT ![w] = Append(@, [op |-> op, n |-> n])]
Passed(w) == \A v \in Workers : Len(ops[v]) >= Len(ops[w])

Slice(w) == slices[w][1]
SliceLen(w) == [i \in 1 .. Len(Slice(w)) |-> len[Slice(w)[i].id]]
SliceLoad(w) == [i \in 1 .. Len(Slice(w)) |-> Workload(SliceLen(w)[i])]

(* _slqp_valid_token_count, of rows.                                       *)
Tokens(i) == Weight(len[i] - PromptLen, MinTokens)
TokensOf(rows) == Total(DOMAIN rows, [i \in DOMAIN rows |-> Tokens(rows[i].id)])

(* update_policy with slqp_only: the tokens of the mini-batch are summed   *)
(* over all workers.                                                       *)
CountTokens(w) ==
  /\ pc[w] = "tokens"
  /\ Enter(w, "sum", TokensOf(Slice(w)))
  /\ pc' = [pc EXCEPT ![w] = "summing"]
  /\ UNCHANGED <<config, len, heap, driver, slices, micros, index, out, steps>>

SumTokens(w) ==
  /\ pc[w] = "summing" /\ Passed(w)
  /\ pc' = [pc EXCEPT ![w] = Cutting]
  /\ UNCHANGED <<config, len, heap, driver, slices, ops, micros, index, out, steps>>

(* Mutant: every worker divides by its own tokens.                         *)
AllTokensOwn(w) ==
  LET at == Max({i \in DOMAIN ops[w] : ops[w][i].op = "sum"}) IN ops[w][at].n

(* slqp_global_token_count, of the mini-batch w is at.                     *)
AllTokens(w) ==
  LET at == Max({i \in DOMAIN ops[w] : ops[w][i].op = "sum"})
  IN  Total(Workers, [v \in Workers |-> ops[v][at].n])

Ceil(a, b) == (a + b - 1) \div b
Limit == MaxTokens * config.sp

(* Mutant: enough for the longest row.                                     *)
NeededLongest(w) == Ceil(Max(Range(SliceLen(w))), Limit)

(* rearrange_micro_batches: how many micro-batches a worker needs, no more *)
(* than it has rows,                                                       *)
Needed(w) ==
  LET parts == Ceil(Total(DOMAIN SliceLen(w), SliceLen(w)), Limit)
  IN  IF parts < Len(Slice(w)) THEN parts ELSE Len(Slice(w))

Count(w) ==
  /\ pc[w] = "count"
  /\ Enter(w, "max", Needed(w))
  /\ pc' = [pc EXCEPT ![w] = "reduce"]
  /\ UNCHANGED <<config, len, heap, driver, slices, micros, index, out, steps>>

(* Mutant: every worker cuts as it needs.                                  *)
AgreedAlone(w) == ops[w][Len(ops[w])].n

(* and how many all of them take.                                          *)
Agreed(w) == Max({ops[v][Len(ops[w])].n : v \in Workers})

Reduce(w) ==
  /\ pc[w] = "reduce" /\ Passed(w)
  /\ heap' = [heap EXCEPT ![w] = Singles(SliceLoad(w), Agreed(w))]
  /\ pc' = [pc EXCEPT ![w] = "merge"]
  /\ UNCHANGED <<config, len, driver, slices, ops, micros, index, out, steps>>

Merge(w) ==
  /\ pc[w] = "merge" /\ Cardinality(heap[w]) > 1
  /\ \E h \in Merges(heap[w], Agreed(w)) : heap' = [heap EXCEPT ![w] = h]
  /\ UNCHANGED <<config, len, driver, call>>

(* The parts by decreasing load, the smaller ones moved to both ends.      *)
Arranged(parts, load) ==
  LET cost(p) == Total(p, load)
      larger == {p \in parts \X parts : \/ cost(p[1]) > cost(p[2])
                                        \/ cost(p[1]) = cost(p[2]) /\ Min(p[1]) > Min(p[2])}
      sorted == InOrder(parts, larger)
  IN  Reverse(Odds(sorted)) \o Evens(sorted)

Ascending(part) == InOrder(part, {p \in part \X part : p[1] < p[2]})

Cut(w) ==
  /\ pc[w] = "merge" /\ Cardinality(heap[w]) = 1
  /\ LET arranged == Arranged(Range(Parts(heap[w], Agreed(w))), SliceLoad(w))
         lists == [m \in DOMAIN arranged |-> Ascending(arranged[m])]
     IN  /\ index' = [index EXCEPT ![w] = FlattenSeq(lists)]
         /\ micros' = [micros EXCEPT ![w] =
                         [m \in DOMAIN lists |->
                            [i \in DOMAIN lists[m] |-> Slice(w)[lists[m][i]]]]]
  /\ heap' = [heap EXCEPT ![w] = {}]
  /\ pc' = [pc EXCEPT ![w] = "forward"]
  /\ UNCHANGED <<config, len, driver, slices, ops, out, steps>>

(* Without use_dynamic_bsz.                                                *)
SplitMicro(w) ==
  /\ pc[w] = "split"
  /\ micros' = [micros EXCEPT ![w] = Split(Slice(w), Micro)]
  /\ index' = [index EXCEPT ![w] = [i \in DOMAIN Slice(w) |-> i]]
  /\ pc' = [pc EXCEPT ![w] = "forward"]
  /\ UNCHANGED <<config, len, heap, driver, slices, ops, out, steps>>

-----------------------------------------------------------------------------

Forward(w) ==
  /\ pc[w] = "forward"
  /\ Enter(w, "forward", 0)
  /\ pc' = [pc EXCEPT ![w] = "run"]
  /\ UNCHANGED <<config, len, heap, driver, slices, micros, index, out, steps>>

(* The update is one mini-batch: log_prob.detach() is the old policy.      *)
OnPolicy == Mini * config.dp >= config.rows

(* What a micro-batch yields: the log probs of its rows; in an update, its *)
(* rows with the old log probs they were compared with or their share of   *)
(* the gradient.                                                           *)
Yield(w, micro) ==
  [i \in DOMAIN micro |->
     IF phase = "computing" THEN micro[i].id
     ELSE IF config.loss = "slqp"
     THEN [id |-> micro[i].id,
           share |-> Share(Tokens(micro[i].id), TokensOf(micro), AllTokens(w), World)]
     ELSE [id |-> micro[i].id, old |-> IF OnPolicy THEN micro[i].id ELSE micro[i].old]]

Run(w) ==
  /\ pc[w] = "run" /\ Passed(w)
  /\ out' = [out EXCEPT ![w] = @ \o Yield(w, micros[w][1])]
  /\ micros' = [micros EXCEPT ![w] = Tail(@)]
  /\ pc' = [pc EXCEPT ![w] = IF Len(micros[w]) > 1 THEN "forward"
                             ELSE IF phase = "computing" THEN "restore" ELSE "step"]
  /\ UNCHANGED <<config, len, heap, driver, slices, ops, index, steps>>

(* Mutant: the index is applied as it is.                                  *)
RestoredAsIs(w) == [i \in DOMAIN out[w] |-> out[w][index[w][i]]]

(* restore_dynamic_batch                                                   *)
Restored(w) ==
  [i \in DOMAIN out[w] |-> out[w][CHOOSE j \in DOMAIN index[w] : index[w][j] = i]]

Restore(w) ==
  /\ pc[w] = "restore"
  /\ out' = [out EXCEPT ![w] = Restored(w)]
  /\ pc' = [pc EXCEPT ![w] = "replied"]
  /\ UNCHANGED <<config, len, heap, driver, slices, ops, micros, index, steps>>

(* The gradients of the micro-batches are applied together.                *)
EnterStep(w) ==
  /\ pc[w] = "step"
  /\ Enter(w, "step", 0)
  /\ pc' = [pc EXCEPT ![w] = "stepping"]
  /\ UNCHANGED <<config, len, heap, driver, slices, micros, index, out, steps>>

OptimizerStep(w) ==
  /\ pc[w] = "stepping" /\ Passed(w)
  /\ steps' = [steps EXCEPT ![w] = Append(@, Range(out[w]))]
  /\ out' = [out EXCEPT ![w] = << >>]
  /\ slices' = [slices EXCEPT ![w] = Tail(@)]
  /\ pc' = [pc EXCEPT ![w] = IF Len(slices[w]) > 1 THEN Begin ELSE "replied"]
  /\ UNCHANGED <<config, len, heap, driver, ops, micros, index>>

-----------------------------------------------------------------------------

Done == phase = "done" /\ UNCHANGED vars

Work(w) == \/ CountTokens(w) \/ SumTokens(w) \/ Count(w) \/ Reduce(w) \/ Merge(w) \/ Cut(w)
           \/ SplitMicro(w) \/ Forward(w) \/ Run(w) \/ Restore(w) \/ EnterStep(w) \/ OptimizerStep(w)

Drive == \/ Balance \/ MergeDriver \/ Reorder \/ CallLogProb \/ Collect
         \/ CallUpdate \/ Finish

Next == Drive \/ (\E w \in Workers : Work(w)) \/ Done

(* Every behaviour ends in Done: no state is repeated, and TLC finds no    *)
(* deadlock.                                                               *)
Spec == Init /\ [][Next]_vars

-----------------------------------------------------------------------------

Rows == 1 .. config.rows
Record == [id : Rows, old : Rows \cup {0}]
Used == IF config.loss = "slqp" THEN [id : Rows, share : [up : Nat, down : Nat]] ELSE Record

TypeOK ==
  /\ config.rows % World = 0 /\ len \in [Rows -> 1 .. Limit]
  /\ order \in [Rows -> Rows] /\ old \in [Rows -> Rows \cup {0}]
  /\ phase \in {"balance", "balancing", "log_prob", "computing", "update", "updating", "done"}
  /\ pc \in [Workers -> {"idle", "count", "split", "reduce", "merge", "forward", "run",
                         "restore", "step", "stepping", "tokens", "summing", "replied"}]
  /\ DOMAIN heap = 0 .. World
  /\ \A w \in Workers :
       /\ slices[w] \in Seq(Seq(Record)) /\ micros[w] \in Seq(Seq(Record))
       /\ ops[w] \in Seq([op : {"sum", "max", "forward", "step"}, n : Nat])
       /\ index[w] \in Seq(Rows)
       /\ out[w] \in IF phase = "updating" THEN Seq(Used) ELSE Seq(Rows)
       /\ \A s \in DOMAIN steps[w] : steps[w][s] \subseteq Used

(* Through balancing, chunks, micro-batches, restore_dynamic_batch and the *)
(* collection every result stays with its row: the old log prob an update  *)
(* compares a row with is the row's own, and zeros are never used.         *)
Aligned ==
  /\ phase \in {"update", "updating", "done"} => old = order \/ SkipsReplay
  /\ config.loss # "slqp" =>
       \A w \in Workers : \A s \in DOMAIN steps[w] : \A r \in steps[w][s] : r.old = r.id

(* Workers enter the same collectives in the same order: as many forward   *)
(* passes between two reductions or optimizer steps, whatever rows they    *)
(* got.  Else they would wait for each other for ever.                     *)
SameCollectives ==
  \A v, w \in Workers : \A i \in DOMAIN ops[v] \cap DOMAIN ops[w] :
    ops[v][i].op = ops[w][i].op

Length(micro) == Total(DOMAIN micro, [i \in DOMAIN micro |-> len[micro[i].id]])

(* The assertions of seqlen_balancing.py hold: the parts of the driver are *)
(* of equal size; no worker is made to cut more micro-batches than it has  *)
(* rows, none of its parts is empty, every row is in exactly one.          *)
AssertsHold ==
  /\ phase = "balancing" /\ Cardinality(heap[0]) = 1 =>
       \A p \in Range(Parts(heap[0], World)) : Cardinality(p) * World = config.rows
  /\ \A w \in Workers : pc[w] = "merge" =>
       /\ Agreed(w) <= Len(Slice(w))
       /\ Cardinality(heap[w]) = 1 => \A p \in Range(Parts(heap[w], Agreed(w))) : p # {}
       /\ \A i \in DOMAIN Slice(w) :
            \E s \in heap[w], k \in 1 .. Agreed(w) :
              \A t \in heap[w], l \in 1 .. Agreed(w) : i \in t[l].items <=> t = s /\ l = k

(* Micro-batches are balanced by load, 24576 n + n * n for a row of n       *)
(* tokens, and limited by tokens.  A dynamic micro-batch exceeds the limit *)
(* by less than its longest row and what the squares can make of it: the   *)
(* limit for each 24576 tokens of the longest row of the slice.            *)
LittleExcess ==
  \A w \in Workers :
    config.dynamic /\ pc[w] = "forward" =>
      \A m \in DOMAIN micros[w] :
        LET excess == Length(micros[w][m]) - Limit
        IN  24576 * (excess - Max({len[r.id] : r \in Range(micros[w][m])}))
              < Limit * Max(Range(SliceLen(w)))

(* The balanced batch gives every worker as many rows as the others and    *)
(* about their load: the loads differ by no more than those of some rows   *)
(* that are neighbours by length, one for each worker.                     *)
EvenBatch ==
  (config.balance /\ phase = "log_prob") =>
    LET size == config.rows \div World
        load(w) == Total((w - 1) * size + 1 .. w * size,
                         [i \in Rows |-> Loads[order[i]]])
        place == [i \in Rows |-> Place(i, Loads)]
        near == {p \in Rows \X Rows : (place[p[1]] - 1) \div World = (place[p[2]] - 1) \div World}
        gap == Max({Loads[p[1]] - Loads[p[2]] : p \in near})
    IN  /\ Range(order) = Rows
        /\ \A v, w \in Workers : load(v) - load(w) <= gap

(* Both partitions are even, the driver's and the workers'.                *)
EvenLoads == EvenBatch /\ LittleExcess

(* seqlen_balancing.py:275: the sum of a micro-batch is at most the limit. *)
(* It may be more; no run checks this, README, Disagreements without a run.*)
TokenLimit ==
  config.dynamic =>
    \A w \in Workers : \A m \in DOMAIN micros[w] : Length(micros[w][m]) <= Limit

(* An update uses every row once: the steps are the same in number on all  *)
(* workers, none exceeds its mini-batch, workers of one rank agree, and    *)
(* the ranks share the rows between them.                                  *)
EachRowOnce ==
  phase = "done" =>
    /\ \A v, w \in Workers : /\ Len(steps[v]) = Len(steps[w])
                             /\ DpRank(v) = DpRank(w) => steps[v] = steps[w]
    /\ \A w \in Workers : \A s \in DOMAIN steps[w] : Cardinality(steps[w][s]) \in 1 .. Mini
    /\ \A i \in Rows :
         Cardinality({p \in {v \in Workers : IsCollect(v)} \X Rows :
                        p[2] <= Len(steps[p[1]]) /\ \E r \in steps[p[1]][p[2]] : r.id = i}) = 1

(* dp_actor.py:581-583: the averaged gradient is exactly the one weighted  *)
(* by tokens over the whole mini-batch: however rows are spread over       *)
(* workers and micro-batches of any size, the share of a row is its valid  *)
(* tokens by those of all rows.                                            *)
TokenWeighted ==
  config.loss = "slqp" =>
    \A s \in 1 .. config.rows :
      (\A w \in Workers : s <= Len(steps[w])) =>
        LET ids == {r.id : r \in UNION {steps[w][s] : w \in Workers}}
            all == Total(ids, [i \in ids |-> Tokens(i)])
        IN  \A w \in Workers : \A r \in steps[w][s] :
              r.share.up * config.sp * all = Tokens(r.id) * r.share.down * World

(* slqp.py:95-97: calibration and training geometry are identical even if  *)
(* excluded tokens appear inside a response: for every row an update with  *)
(* the quality loss uses, whichever of its tokens are excluded.            *)
SameGeometry ==
  config.loss = "slqp" /\ phase = "update" =>
    \A i \in Rows : \A included \in [1 .. len[i] -> {0, 1}] :
      TrainedSteps(included) = CollectedSteps(included)
=============================================================================
