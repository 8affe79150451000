--------------------------- MODULE RayTrainerProofs ---------------------------
(***************************************************************************)
(* Proofs about module RayTrainer, for every number of steps, ranks and    *)
(* kills, every save frequency and every limit on checkpoints but one: its *)
(* types, the completeness of the checkpoint the tracker names, the        *)
(* distance of generation and training, and that files, ranks and tracker  *)
(* implement the atomic checkpoints of module TrainingRun.                 *)
(***************************************************************************)
EXTENDS RayTrainer, SequenceTheorems, TLAPS

Saving == {"rotate", "shards", "data", "open", "number"}
Running == PCs \ {"down", "finished"}

-----------------------------------------------------------------------------
(* The types, the order of the steps and the distance of generation and    *)
(* training, which hold with every limit on checkpoints.                   *)

(* The step in training is behind the one the tracker names, and a kill    *)
(* makes a run at most one step longer.                                    *)
Steps ==
  /\ tracker.state = "none" <=> tracker.step = 0
  /\ pc \in Running => step >= 1 /\ step <= TotalSteps + crashes
  /\ pc = "finished" => step >= 1 /\ step <= TotalSteps + crashes + 1
  /\ pc \in Running \ {"number", "advance"} => tracker.step < step
  /\ pc \in {"number", "advance"} => tracker.step <= step
  /\ pc = "down" /\ tracker.state # "none" => tracker.step + 1 <= TotalSteps + crashes

(* The batch in training and the one in flight, by the weights that        *)
(* generate them.                                                          *)
Distance == Len(weights["actor"])
Prefetching == trainer = "one_step_off" /\ next # NoBatch

Generations ==
  /\ pc = "loop" /\ Prefetching => Distance - next.by \in {0, 1}
  /\ pc = "train" =>
       /\ Distance - batch.by \in (IF trainer = "sync" THEN {0} ELSE {0, 1})
       /\ Prefetching /\ ~IsLast => next.by = Distance
  /\ pc \in Saving \cup {"advance"} /\ Prefetching /\ ~IsLast =>
       Distance - next.by \in {0, 1}

JobInv == TypeOK /\ Steps /\ Generations

LEMMA EpochsType == epochLen \in EpochLens => Epochs \in Nat
  BY TrainerAssumption DEF Epochs

LEMMA RankType == (CHOOSE k \in Ranks : TRUE) \in Ranks
  BY TrainerAssumption

(* The types by the parts that the steps change.                           *)
ManagerType == /\ shard \in [Roles -> [1 .. MaxStep -> [Ranks -> Files]]]
               /\ saved \in [Roles -> Seq(1 .. MaxStep)]
               /\ left \subseteq Ranks /\ keep \in [Roles -> Nat]
FilesType == /\ data \in [1 .. MaxStep -> [state : {"none", "torn", "whole"}, of : Nat]]
             /\ tracker \in [state : {"none", "empty", "whole"}, step : 0 .. MaxStep]
JobType == /\ trainer \in {"sync", "one_step_off"} /\ epochLen \in EpochLens
           /\ pc \in PCs /\ role \in Roles
LoopType == /\ step \in 0 .. MaxStep + 1 /\ weights \in [Roles -> Seq(Nat)]
            /\ used \in Nat /\ epoch \in 0 .. Epochs
            /\ batch \in Batches /\ next \in Batches
            /\ crashes \in 0 .. MaxCrashes

LEMMA TypeParts == TypeOK <=> ManagerType /\ FilesType /\ JobType /\ LoopType
  BY DEF TypeOK, ManagerType, FilesType, JobType, LoopType

(* The files of a step, and those of a role.                               *)
StepShards == [Ranks -> Files]
RoleShards == [1 .. MaxStep -> StepShards]

LEMMA ShardType ==
  TypeOK => /\ shard \in [Roles -> RoleShards]
            /\ \A r \in Roles : /\ shard[r] \in RoleShards
                                /\ \A s \in 1 .. MaxStep : shard[r][s] \in StepShards
<1>1. TypeOK => shard \in [Roles -> RoleShards]
  BY DEF TypeOK, RoleShards, StepShards
<1>2. shard \in [Roles -> RoleShards] => \A r \in Roles : shard[r] \in RoleShards
  OBVIOUS
<1>3. \A t \in RoleShards : \A s \in 1 .. MaxStep : t[s] \in StepShards
  BY DEF RoleShards
<1>. QED  BY <1>1, <1>2, <1>3

(* The content of a checkpoint is a sequence of batches.                   *)
LEMMA ContentType ==
  ASSUME TypeOK, NEW r \in Roles, NEW s \in 1 .. MaxStep
  PROVE  Content(r, s) \in Seq(Nat)
<1>1. shard[r][s] \in StepShards
  BY ShardType
<1>2. \A t \in StepShards : \A k \in Ranks : t[k].of \in Seq(Nat)
  BY DEF StepShards, Files
<1>. QED  BY <1>1, <1>2, RankType DEF Content

LEMMA InitJob == Init => JobInv
<1>. SUFFICES ASSUME Init PROVE JobInv
  OBVIOUS
<1>. USE TrainerAssumption DEF Init, ManagerInit
<1>1. TypeOK
  <2>1. shard \in [Roles -> [1 .. MaxStep -> [Ranks -> Files]]]
    BY DEF None, Files
  <2>2. << >> \in Seq(1 .. MaxStep) /\ << >> \in Seq(Nat)
    OBVIOUS
  <2>7. /\ saved \in [Roles -> Seq(1 .. MaxStep)] /\ weights \in [Roles -> Seq(Nat)]
        /\ left \subseteq Ranks
    BY <2>2
  <2>8. keep \in [Roles -> Nat]
    OBVIOUS
  <2>3. data \in [1 .. MaxStep -> [state : {"none", "torn", "whole"}, of : Nat]]
    OBVIOUS
  <2>4. tracker \in [state : {"none", "empty", "whole"}, step : 0 .. MaxStep]
    OBVIOUS
  <2>5. batch \in Batches /\ next \in Batches
    BY DEF Batches, NoBatch
  <2>6. Epochs \in Nat
    BY EpochsType
  <2>. QED  BY <2>1, <2>3, <2>4, <2>5, <2>6, <2>7, <2>8 DEF TypeOK, PCs
<1>2. Steps /\ Generations
  BY DEF Steps, Generations, Running, Saving, PCs
<1>. QED  BY <1>1, <1>2 DEF JobInv

(* A sequence without its first n elements.                                *)
LEMMA DropFirst ==
  ASSUME NEW S, NEW q \in Seq(S), NEW n \in Nat
  PROVE  /\ SubSeq(q, n + 1, Len(q)) \in Seq(S)
         /\ Len(SubSeq(q, n + 1, Len(q))) = IF n <= Len(q) THEN Len(q) - n ELSE 0
         /\ \A i \in 1 .. Len(q) - n : SubSeq(q, n + 1, Len(q))[i] = q[n + i]
<1>1. n + 1 \in Int /\ Len(q) \in Int
  OBVIOUS
<1>2. \A i \in n + 1 .. Len(q) : q[i] \in S
  OBVIOUS
<1>3. /\ SubSeq(q, n + 1, Len(q)) \in Seq(S)
      /\ Len(SubSeq(q, n + 1, Len(q))) =
           IF n + 1 <= Len(q) THEN Len(q) - (n + 1) + 1 ELSE 0
      /\ \A i \in 1 .. Len(q) - (n + 1) + 1 :
           SubSeq(q, n + 1, Len(q))[i] = q[n + 1 + i - 1]
  BY <1>1, <1>2, SubSeqProperties
<1>. DEFINE t == SubSeq(q, n + 1, Len(q))
<1>. HIDE DEF t
<1>4. \A i \in 1 .. Len(q) - n : i \in 1 .. Len(q) - (n + 1) + 1 /\ n + 1 + i - 1 = n + i
  BY <1>1
<1>5. Len(t) = IF n <= Len(q) THEN Len(q) - n ELSE 0
  BY <1>1, <1>3 DEF t
<1>. QED  BY <1>3, <1>4, <1>5 DEF t

(* What the steps write to the files is of the type of the files.          *)
LEMMA RotateType ==
  ASSUME TypeOK, NEW r \in Roles, Rotate(r)
  PROVE  /\ shard' \in [Roles -> RoleShards] /\ saved' \in [Roles -> Seq(1 .. MaxStep)]
         /\ left' = Ranks /\ keep' = keep
<1>1. saved[r] \in Seq(1 .. MaxStep) /\ shard[r] \in RoleShards
  BY ShardType DEF TypeOK
<1>2. [k \in Ranks |-> None] \in StepShards
  BY DEF None, Files, StepShards
<1>3. Excess(r) \in Nat
  BY <1>1 DEF TypeOK, Excess
<1>4. SubSeq(saved[r], Excess(r) + 1, Len(saved[r])) \in Seq(1 .. MaxStep)
  BY <1>1, <1>3, DropFirst
<1>5. saved' \in [Roles -> Seq(1 .. MaxStep)]
  BY <1>4 DEF TypeOK, Rotate
<1>. DEFINE gone == {saved[r][i] : i \in 1 .. Excess(r)}
            kept == [s \in 1 .. MaxStep |->
                       IF s \in gone THEN [k \in Ranks |-> None] ELSE shard[r][s]]
<1>6. shard' = [shard EXCEPT ![r] = kept]
  BY DEF Rotate
<1>7. kept \in RoleShards
  BY <1>1, <1>2 DEF RoleShards
<1>. HIDE DEF kept
<1>8. shard' \in [Roles -> RoleShards]
  BY <1>6, <1>7, ShardType
<1>. QED  BY <1>5, <1>8 DEF Rotate

(* One shard, or all of a step, is replaced.                               *)
LEMMA ReplaceShards ==
  ASSUME NEW f \in [Roles -> RoleShards], NEW r \in Roles, NEW s \in 1 .. MaxStep
  PROVE  /\ \A t \in StepShards : [f EXCEPT ![r][s] = t] \in [Roles -> RoleShards]
         /\ \A k \in Ranks : \A x \in Files :
              [f EXCEPT ![r][s][k] = x] \in [Roles -> RoleShards]
<1>1. f[r] \in RoleShards
  OBVIOUS
<1>2. ASSUME NEW t \in StepShards PROVE [f EXCEPT ![r][s] = t] \in [Roles -> RoleShards]
  <2>1. [f[r] EXCEPT ![s] = t] \in RoleShards
    BY <1>1 DEF RoleShards
  <2>. QED  BY <2>1
<1>3. ASSUME NEW k \in Ranks, NEW x \in Files
      PROVE  [f EXCEPT ![r][s][k] = x] \in [Roles -> RoleShards]
  <2>1. f[r][s] \in StepShards
    BY <1>1 DEF RoleShards
  <2>2. [f[r][s] EXCEPT ![k] = x] \in StepShards
    BY <2>1 DEF StepShards
  <2>3. [f[r] EXCEPT ![s][k] = x] \in RoleShards
    BY <1>1, <2>2 DEF RoleShards
  <2>. QED  BY <2>3
<1>. QED  BY <1>2, <1>3

LEMMA WriteShardType ==
  ASSUME TypeOK, NEW r \in Roles, NEW s \in 1 .. MaxStep, NEW k \in Ranks,
         NEW of \in Seq(Nat), WriteShard(r, s, k, of)
  PROVE  /\ shard' \in [Roles -> RoleShards]
         /\ left' \subseteq Ranks /\ saved' = saved /\ keep' = keep
<1>1. Whole(of) \in Files
  BY DEF Whole, Files
<1>2. shard' \in [Roles -> RoleShards]
  BY <1>1, ShardType, ReplaceShards DEF WriteShard
<1>. QED  BY <1>2 DEF TypeOK, WriteShard

LEMMA CrashType ==
  ASSUME TypeOK, NEW r \in Roles, NEW s \in 1 .. MaxStep, NEW writing,
         ManagerCrash(r, s, writing)
  PROVE  /\ shard' \in [Roles -> RoleShards]
         /\ saved' = [q \in Roles |-> << >>] /\ left' = {} /\ keep' = keep
<1>1. PICK half \in SUBSET writing :
         shard' = [shard EXCEPT ![r][s] =
                     [k \in Ranks |-> IF k \in half THEN Torn ELSE shard[r][s][k]]]
  BY DEF ManagerCrash
<1>2. Torn \in Files /\ shard[r][s] \in StepShards
  BY ShardType DEF Torn, Files
<1>3. [k \in Ranks |-> IF k \in half THEN Torn ELSE shard[r][s][k]] \in StepShards
  BY <1>2 DEF StepShards
<1>4. shard' \in [Roles -> RoleShards]
  BY <1>1, <1>3, ShardType, ReplaceShards
<1>. QED  BY <1>4 DEF ManagerCrash

-----------------------------------------------------------------------------
(* The steps of the loop, which leave the files alone.                     *)

LEMMA FilesSame ==
  TypeOK /\ UNCHANGED <<managerVars, files, job>> =>
    /\ ManagerType' /\ FilesType' /\ trainer' \in {"sync", "one_step_off"}
    /\ epochLen' \in EpochLens /\ Epochs' = Epochs
  BY TypeParts DEF managerVars, files, job, ManagerType, FilesType, JobType, Epochs

LEMMA ConsumeType ==
  TypeOK /\ More /\ Consume /\ Epochs' = Epochs =>
    /\ used' = used + 1 /\ used' \in Nat /\ epoch' \in 0 .. Epochs'
    /\ Read \in Batches /\ Read.id = used + 1 /\ Read.by = Distance
<1>. SUFFICES ASSUME TypeOK, More, Consume, Epochs' = Epochs
              PROVE  /\ used' = used + 1 /\ used' \in Nat /\ epoch' \in 0 .. Epochs'
                     /\ Read \in Batches /\ Read.id = used + 1 /\ Read.by = Distance
  OBVIOUS
<1>1. Epochs \in Nat /\ used \in Nat /\ epoch \in 0 .. Epochs
  BY EpochsType DEF TypeOK
<1>2. weights["actor"] \in Seq(Nat)
  BY TrainerAssumption DEF TypeOK
<1>3. epoch' \in 0 .. Epochs
  BY <1>1 DEF More, Consume
<1>4. Read \in Batches
  BY <1>1, <1>2 DEF Read, Batches
<1>. QED  BY <1>1, <1>3, <1>4 DEF Consume, Read, Distance

LEMMA PrefetchType ==
  TypeOK /\ Prefetch /\ Epochs' = Epochs =>
    /\ used' \in Nat /\ epoch' \in 0 .. Epochs' /\ next' \in Batches
    /\ next' # NoBatch => next'.by = Distance /\ next'.id = used'
    /\ next' # NoBatch => used' = used + 1
    /\ next' = NoBatch => used' = used
<1>. SUFFICES ASSUME TypeOK, Prefetch, Epochs' = Epochs
              PROVE  /\ used' \in Nat /\ epoch' \in 0 .. Epochs' /\ next' \in Batches
                     /\ next' # NoBatch => next'.by = Distance /\ next'.id = used'
                     /\ next' # NoBatch => used' = used + 1
                     /\ next' = NoBatch => used' = used
  OBVIOUS
<1>1. CASE More
  <2>1. Consume /\ next' = Read
    BY <1>1 DEF Prefetch
  <2>2. /\ used' = used + 1 /\ used' \in Nat /\ epoch' \in 0 .. Epochs'
        /\ Read \in Batches /\ Read.id = used + 1 /\ Read.by = Distance
    BY <1>1, <2>1, ConsumeType
  <2>3. Read # NoBatch
    BY <2>2 DEF NoBatch, TypeOK
  <2>. QED  BY <2>1, <2>2, <2>3
<1>2. CASE ~More
  <2>1. next' = NoBatch /\ used' = used /\ epoch' = epoch
    BY <1>2 DEF Prefetch
  <2>. QED  BY <2>1 DEF TypeOK, NoBatch, Batches
<1>. QED  BY <1>1, <1>2

LEMMA JobStart == JobInv /\ Start => JobInv'
<1>. SUFFICES ASSUME JobInv, Start PROVE JobInv'
  OBVIOUS
<1>. USE DEF JobInv
<1>1. /\ ManagerType' /\ FilesType' /\ trainer' \in {"sync", "one_step_off"}
      /\ epochLen' \in EpochLens /\ Epochs' = Epochs
  BY FilesSame DEF Start
<1>2. tracker.step \in 0 .. MaxStep /\ crashes \in 0 .. MaxCrashes
  BY DEF TypeOK
<1>3. step' \in 1 .. MaxStep + 1 /\ step' <= TotalSteps + crashes
  <2>1. tracker.state = "none" => tracker.step = 0
    BY DEF Steps
  <2>2. tracker.state # "none" => tracker.step + 1 <= TotalSteps + crashes
    BY DEF Steps, Start
  <2>. QED  BY <1>2, <2>1, <2>2, TrainerAssumption DEF Start
<1>4. weights' \in [Roles -> Seq(Nat)] /\ used' \in Nat
  <2>1. CASE tracker.state = "none"
    <3>1. << >> \in Seq(Nat)
      OBVIOUS
    <3>2. weights' = [r \in Roles |-> << >>] /\ used' = 0
      BY <2>1 DEF Start
    <3>. QED  BY <3>1, <3>2
  <2>2. CASE tracker.state # "none"
    <3>1. tracker.step \in 1 .. MaxStep
      BY <1>2, <2>2 DEF Steps
    <3>2. \A r \in Roles : Content(r, tracker.step) \in Seq(Nat)
      BY <3>1, ContentType
    <3>3. data[tracker.step].of \in Nat
      BY <3>1 DEF TypeOK
    <3>. QED  BY <2>2, <3>2, <3>3 DEF Start
  <2>. QED  BY <2>1, <2>2
<1>5. LoopType'
  <2>1. epoch' = 0 /\ batch' = NoBatch /\ next' = NoBatch /\ crashes' = crashes
    BY DEF Start
  <2>2. Epochs' \in Nat
    BY <1>1, EpochsType DEF TypeOK
  <2>3. NoBatch \in Batches
    BY DEF NoBatch, Batches
  <2>. QED  BY <1>2, <1>3, <1>4, <2>1, <2>2, <2>3 DEF LoopType, TypeOK
<1>6. JobType' /\ pc' \in {"loop", "first"} /\ next' = NoBatch
  BY <1>1 DEF Start, Enter, JobType, TypeOK, PCs
<1>7. Steps'
  <2>1. tracker' = tracker /\ crashes' = crashes /\ step' = tracker.step + 1
    BY DEF Start, files
  <2>. QED  BY <1>2, <1>3, <1>6, <2>1 DEF Steps, Running, PCs
<1>8. Generations'
  BY <1>6 DEF Generations, Prefetching, Saving
<1>. QED  BY <1>1, <1>5, <1>6, <1>7, <1>8, TypeParts, PTL

LEMMA JobGenerate == JobInv /\ Generate => JobInv'
<1>. SUFFICES ASSUME JobInv, Generate PROVE JobInv'
  OBVIOUS
<1>. USE DEF JobInv
<1>1. /\ ManagerType' /\ FilesType' /\ trainer' \in {"sync", "one_step_off"}
      /\ epochLen' \in EpochLens /\ Epochs' = Epochs
  BY FilesSame DEF Generate
<1>2. /\ step' = step /\ weights' = weights /\ next' = next /\ crashes' = crashes
      /\ role' = role /\ tracker' = tracker /\ trainer' = trainer
  BY DEF Generate, files, job
<1>3. /\ used' \in Nat /\ epoch' \in 0 .. Epochs' /\ batch' \in Batches
      /\ pc' \in {"train", "finished"}
      /\ pc' = "train" => batch'.by = Distance
  <2>1. CASE More
    BY <1>1, <2>1, ConsumeType DEF Generate
  <2>2. CASE ~More
    BY <1>1, <2>2 DEF Generate, TypeOK
  <2>. QED  BY <2>1, <2>2
<1>4. JobType' /\ LoopType'
  BY <1>1, <1>2, <1>3 DEF JobType, LoopType, TypeOK, PCs
<1>5. Steps'
  <2>1. pc = "loop"
    BY DEF Generate
  <2>2. /\ step >= 1 /\ step <= TotalSteps + crashes /\ tracker.step < step
        /\ tracker.state = "none" <=> tracker.step = 0
    BY <2>1 DEF Steps, Running, PCs
  <2>3. step <= TotalSteps + crashes + 1
    BY <2>2, TrainerAssumption DEF TypeOK
  <2>. QED  BY <1>2, <1>3, <2>2, <2>3 DEF Steps, Running, PCs
<1>6. Generations'
  <2>1. trainer' = "sync" /\ ~Prefetching' /\ Distance' = Distance
    BY <1>2 DEF Generate, Prefetching, Distance
  <2>2. Distance \in Nat
    BY TrainerAssumption DEF Distance, TypeOK
  <2>. QED  BY <1>3, <2>1, <2>2 DEF Generations, Saving
<1>. QED  BY <1>1, <1>4, <1>5, <1>6, TypeParts, PTL

LEMMA JobFirst == JobInv /\ First => JobInv'
<1>. SUFFICES ASSUME JobInv, First PROVE JobInv'
  OBVIOUS
<1>. USE DEF JobInv
<1>1. /\ ManagerType' /\ FilesType' /\ trainer' \in {"sync", "one_step_off"}
      /\ epochLen' \in EpochLens /\ Epochs' = Epochs
  BY FilesSame DEF First
<1>2. /\ step' = step /\ weights' = weights /\ batch' = batch /\ crashes' = crashes
      /\ role' = role /\ tracker' = tracker /\ pc = "first" /\ pc' = "loop"
  BY DEF First, files
<1>3. /\ used' \in Nat /\ epoch' \in 0 .. Epochs' /\ next' \in Batches
      /\ next' # NoBatch => next'.by = Distance
  BY <1>1, PrefetchType DEF First
<1>4. JobType' /\ LoopType'
  BY <1>1, <1>2, <1>3 DEF JobType, LoopType, TypeOK, PCs
<1>5. Steps'
  BY <1>2 DEF Steps, Running, PCs
<1>6. Generations'
  <2>1. Distance' = Distance /\ Distance \in Nat
    BY <1>2, TrainerAssumption DEF Distance, TypeOK
  <2>. QED  BY <1>2, <1>3, <2>1 DEF Generations, Saving, Prefetching
<1>. QED  BY <1>1, <1>4, <1>5, <1>6, TypeParts, PTL

LEMMA JobTake == JobInv /\ Take => JobInv'
<1>. SUFFICES ASSUME JobInv, Take PROVE JobInv'
  OBVIOUS
<1>. USE DEF JobInv
<1>1. /\ ManagerType' /\ FilesType' /\ trainer' \in {"sync", "one_step_off"}
      /\ epochLen' \in EpochLens /\ Epochs' = Epochs
  BY FilesSame DEF Take
<1>2. /\ step' = step /\ weights' = weights /\ crashes' = crashes
      /\ role' = role /\ tracker' = tracker /\ trainer' = trainer
      /\ pc = "loop" /\ trainer = "one_step_off"
  BY DEF Take, files, job
<1>3. /\ used' \in Nat /\ epoch' \in 0 .. Epochs' /\ next' \in Batches
      /\ batch' \in Batches /\ pc' \in {"train", "finished"}
      /\ pc' = "train" => next # NoBatch /\ batch' = next
      /\ pc' = "train" => (~IsLast /\ next' # NoBatch => next'.by = Distance)
  <2>1. CASE next = NoBatch
    BY <1>1, <2>1 DEF Take, TypeOK
  <2>2. CASE next # NoBatch /\ IsLast
    BY <1>1, <2>2 DEF Take, TypeOK
  <2>3. CASE next # NoBatch /\ ~IsLast
    BY <1>1, <2>3, PrefetchType DEF Take, TypeOK
  <2>. QED  BY <2>1, <2>2, <2>3
<1>4. JobType' /\ LoopType'
  BY <1>1, <1>2, <1>3 DEF JobType, LoopType, TypeOK, PCs
<1>5. Steps'
  <2>2. /\ step >= 1 /\ step <= TotalSteps + crashes /\ tracker.step < step
        /\ tracker.state = "none" <=> tracker.step = 0
    BY <1>2 DEF Steps, Running, PCs
  <2>3. step <= TotalSteps + crashes + 1
    BY <2>2, TrainerAssumption DEF TypeOK
  <2>. QED  BY <1>2, <1>3, <2>2, <2>3 DEF Steps, Running, PCs
<1>6. Generations'
  <2>1. Distance' = Distance /\ IsLast' = IsLast
    BY <1>2 DEF Distance, IsLast
  <2>2. Prefetching => Distance - next.by \in {0, 1}
    BY <1>2 DEF Generations
  <2>5. pc' = "train" => Prefetching
    BY <1>2, <1>3 DEF Prefetching
  <2>3. pc' = "train" => Distance' - (batch').by \in {0, 1}
    BY <1>3, <2>1, <2>2, <2>5
  <2>4. pc' = "train" /\ Prefetching' /\ ~IsLast' => next'.by = Distance'
    BY <1>3, <2>1 DEF Prefetching
  <2>. QED  BY <1>2, <1>3, <2>3, <2>4 DEF Generations, Saving
<1>. QED  BY <1>1, <1>4, <1>5, <1>6, TypeParts, PTL

(* A step of training adds the batch to the critic, and to the actor       *)
(* behind the warmup.                                                      *)
LEMMA TrainEffect ==
  TypeOK /\ Train =>
    /\ weights' \in [Roles -> Seq(Nat)]
    /\ weights'["critic"] = Append(weights["critic"], batch.id)
    /\ weights'["actor"] = IF step < Warmup THEN weights["actor"]
                          ELSE Append(weights["actor"], batch.id)
    /\ Distance \in Nat
    /\ Distance' = IF step < Warmup THEN Distance ELSE Distance + 1
<1>. SUFFICES ASSUME TypeOK, Train
              PROVE  /\ weights' \in [Roles -> Seq(Nat)]
                     /\ weights'["critic"] = Append(weights["critic"], batch.id)
                     /\ weights'["actor"] = IF step < Warmup THEN weights["actor"]
                                           ELSE Append(weights["actor"], batch.id)
                     /\ Distance \in Nat
                     /\ Distance' = IF step < Warmup THEN Distance ELSE Distance + 1
  OBVIOUS
<1>1. /\ weights["actor"] \in Seq(Nat) /\ weights["critic"] \in Seq(Nat)
      /\ batch.id \in Nat /\ Roles = {"actor", "critic"}
  BY TrainerAssumption DEF TypeOK, Batches
<1>2. /\ weights'["critic"] = Append(weights["critic"], batch.id)
      /\ weights'["actor"] = IF step < Warmup THEN weights["actor"]
                            ELSE Append(weights["actor"], batch.id)
      /\ weights' = [r \in Roles |-> weights'[r]]
  BY <1>1 DEF Train
<1>3. weights'["critic"] \in Seq(Nat) /\ weights'["actor"] \in Seq(Nat)
  BY <1>1, <1>2
<1>4. weights' \in [Roles -> Seq(Nat)]
  BY <1>1, <1>2, <1>3
<1>5. Distance \in Nat /\ Distance' = IF step < Warmup THEN Distance ELSE Distance + 1
  BY <1>1, <1>2 DEF Distance
<1>. QED  BY <1>2, <1>4, <1>5

LEMMA JobTrain == JobInv /\ Train => JobInv'
<1>. SUFFICES ASSUME JobInv, Train PROVE JobInv'
  OBVIOUS
<1>. USE DEF JobInv
<1>1. /\ ManagerType' /\ FilesType' /\ trainer' \in {"sync", "one_step_off"}
      /\ epochLen' \in EpochLens /\ Epochs' = Epochs
  BY FilesSame DEF Train
<1>2. /\ step' = step /\ crashes' = crashes /\ tracker' = tracker /\ trainer' = trainer
      /\ used' = used /\ epoch' = epoch /\ batch' = batch /\ next' = next
      /\ pc = "train" /\ pc' \in {"rotate", "advance"} /\ role' = "actor"
  BY DEF Train, files, job
<1>3. JobType' /\ LoopType'
  BY <1>1, <1>2, TrainEffect, TrainerAssumption DEF JobType, LoopType, TypeOK, PCs
<1>4. Steps'
  <2>1. step \in Nat /\ tracker.step \in Nat
    BY DEF TypeOK
  <2>. QED  BY <1>2, <2>1 DEF Steps, Running, PCs
<1>5. Generations'
  <2>1. Prefetching' = Prefetching /\ IsLast' = IsLast
    BY <1>2 DEF Prefetching, IsLast
  <2>2. Prefetching /\ ~IsLast => next.by = Distance
    BY <1>2 DEF Generations
  <2>. QED  BY <1>2, <2>1, <2>2, TrainEffect DEF Generations, Saving
<1>. QED  BY <1>1, <1>3, <1>4, <1>5, TypeParts, PTL

LEMMA JobAdvance == JobInv /\ Advance => JobInv'
<1>. SUFFICES ASSUME JobInv, Advance PROVE JobInv'
  OBVIOUS
<1>. USE DEF JobInv
<1>1. /\ ManagerType' /\ FilesType' /\ trainer' \in {"sync", "one_step_off"}
      /\ epochLen' \in EpochLens /\ Epochs' = Epochs
  BY FilesSame DEF Advance
<1>2. /\ step' = step + 1 /\ crashes' = crashes /\ tracker' = tracker
      /\ trainer' = trainer /\ used' = used /\ epoch' = epoch /\ batch' = batch
      /\ next' = next /\ weights' = weights /\ role' = role /\ pc = "advance"
      /\ pc' = IF IsLast THEN "finished" ELSE "loop"
  BY DEF Advance, files, job
<1>3. /\ step \in Nat /\ tracker.step \in Nat /\ crashes \in 0 .. MaxCrashes
      /\ step >= 1 /\ step <= TotalSteps + crashes /\ tracker.step <= step
      /\ tracker.state = "none" <=> tracker.step = 0
  BY <1>2 DEF Steps, Running, PCs, TypeOK
<1>4. step + 1 \in 0 .. MaxStep + 1
  BY <1>3, TrainerAssumption
<1>5. JobType' /\ LoopType'
  BY <1>1, <1>2, <1>4 DEF JobType, LoopType, TypeOK, PCs
<1>6. Steps'
  <2>1. ~IsLast => step + 1 <= TotalSteps + crashes
    BY <1>3, TrainerAssumption DEF IsLast
  <2>2. step + 1 >= 1 /\ step + 1 <= TotalSteps + crashes + 1 /\ tracker.step < step + 1
    BY <1>3, TrainerAssumption
  <2>. QED  BY <1>2, <1>3, <2>1, <2>2 DEF Steps, Running, PCs
<1>7. Generations'
  <2>1. Prefetching' = Prefetching /\ Distance' = Distance
    BY <1>2 DEF Prefetching, Distance
  <2>. QED  BY <1>2, <2>1 DEF Generations, Saving
<1>. QED  BY <1>1, <1>5, <1>6, <1>7, TypeParts, PTL

-----------------------------------------------------------------------------
(* The steps of a save and the kill.                                       *)

(* The loop and the tracker are as they were.                              *)
LEMMA LoopSame ==
  TypeOK /\ UNCHANGED <<job, loop, crashes>> =>
    /\ LoopType' /\ trainer' \in {"sync", "one_step_off"} /\ epochLen' \in EpochLens
    /\ trainer' = trainer /\ step' = step /\ crashes' = crashes
    /\ Distance' = Distance /\ Prefetching' = Prefetching /\ next' = next
    /\ IsLast' = IsLast
  BY TypeParts DEF job, loop, LoopType, JobType, Epochs, Distance, Prefetching, IsLast

(* A save goes on with the same step.                                      *)
LEMMA SaveSteps ==
  JobInv /\ UNCHANGED <<job, loop, crashes, tracker>> /\ pc \in Saving
    /\ pc' \in Saving \cup {"advance"}
    /\ (pc \in {"number"} => pc' \in {"number", "advance"})
    /\ (pc' = "advance" => pc = "number") =>
    Steps' /\ Generations'
<1>. SUFFICES ASSUME JobInv, UNCHANGED <<job, loop, crashes, tracker>>, pc \in Saving,
                     pc' \in Saving \cup {"advance"},
                     pc \in {"number"} => pc' \in {"number", "advance"},
                     pc' = "advance" => pc = "number"
              PROVE  Steps' /\ Generations'
  OBVIOUS
<1>1. tracker' = tracker /\ step' = step /\ crashes' = crashes
  BY LoopSame DEF JobInv
<1>2. step \in Nat /\ tracker.step \in Nat
  BY DEF JobInv, TypeOK
<1>3. Steps'
  BY <1>1, <1>2 DEF JobInv, Steps, Running, Saving, PCs
<1>4. Generations'
  BY LoopSame DEF JobInv, Generations, Saving
<1>. QED  BY <1>3, <1>4

LEMMA StepType == JobInv /\ pc \in Saving => step \in 1 .. MaxStep
<1>. SUFFICES ASSUME JobInv, pc \in Saving PROVE step \in 1 .. MaxStep
  OBVIOUS
<1>1. step \in Nat /\ crashes \in 0 .. MaxCrashes /\ step >= 1 /\ step <= TotalSteps + crashes
  BY DEF JobInv, TypeOK, Steps, Saving, Running, PCs
<1>. QED  BY <1>1, TrainerAssumption

LEMMA JobRotate == JobInv /\ SaveRotate => JobInv'
<1>. SUFFICES ASSUME JobInv, SaveRotate PROVE JobInv'
  OBVIOUS
<1>. USE DEF JobInv
<1>1. ManagerType'
  BY RotateType DEF SaveRotate, ManagerType, RoleShards, StepShards, TypeOK
<1>2. FilesType' /\ tracker' = tracker
  BY TypeParts DEF SaveRotate, FilesType, files
<1>3. JobType' /\ LoopType'
  BY LoopSame DEF SaveRotate, JobType, TypeOK, PCs
<1>4. Steps' /\ Generations'
  BY <1>2, SaveSteps DEF SaveRotate, Saving
<1>. QED  BY <1>1, <1>2, <1>3, <1>4, TypeParts, PTL

LEMMA JobShard == JobInv /\ (\E k \in Ranks : SaveShard(k)) => JobInv'
<1>. SUFFICES ASSUME JobInv, NEW k \in Ranks, SaveShard(k) PROVE JobInv'
  OBVIOUS
<1>. USE DEF JobInv
<1>1. ManagerType'
  <2>1. pc = "shards" /\ step \in 1 .. MaxStep /\ weights[role] \in Seq(Nat) /\ role \in Roles
    BY StepType DEF SaveShard, Saving, TypeOK
  <2>2. WriteShard(role, step, k, weights[role])
    BY DEF SaveShard
  <2>. QED  BY <2>1, <2>2, WriteShardType DEF ManagerType, RoleShards, StepShards, TypeOK
<1>2. FilesType' /\ tracker' = tracker
  BY TypeParts DEF SaveShard, FilesType, files
<1>3. JobType' /\ LoopType'
  BY LoopSame DEF SaveShard, JobType, TypeOK, PCs
<1>4. Steps' /\ Generations'
  BY <1>2, SaveSteps DEF SaveShard, Saving
<1>. QED  BY <1>1, <1>2, <1>3, <1>4, TypeParts, PTL

LEMMA JobRole == JobInv /\ SaveRole => JobInv'
<1>. SUFFICES ASSUME JobInv, SaveRole PROVE JobInv'
  OBVIOUS
<1>. USE DEF JobInv
<1>1. ManagerType'
  <2>1. step \in 1 .. MaxStep /\ role \in Roles /\ saved[role] \in Seq(1 .. MaxStep)
    BY StepType DEF SaveRole, Saving, TypeOK
  <2>2. Append(saved[role], step) \in Seq(1 .. MaxStep)
    BY <2>1
  <2>3. saved' = [saved EXCEPT ![role] = Append(saved[role], step)]
    BY DEF SaveRole, Saved
  <2>4. saved' \in [Roles -> Seq(1 .. MaxStep)]
    BY <2>2, <2>3 DEF TypeOK
  <2>. QED  BY <2>4 DEF SaveRole, Saved, ManagerType, TypeOK
<1>2. FilesType' /\ tracker' = tracker
  BY TypeParts DEF SaveRole, FilesType, files
<1>3. JobType' /\ LoopType'
  BY LoopSame, TrainerAssumption DEF SaveRole, JobType, TypeOK, PCs
<1>4. Steps' /\ Generations'
  BY <1>2, SaveSteps DEF SaveRole, Saving
<1>. QED  BY <1>1, <1>2, <1>3, <1>4, TypeParts, PTL

LEMMA JobData == JobInv /\ SaveData => JobInv'
<1>. SUFFICES ASSUME JobInv, SaveData PROVE JobInv'
  OBVIOUS
<1>. USE DEF JobInv
<1>1. ManagerType'
  BY TypeParts DEF SaveData, managerVars, ManagerType
<1>2. FilesType' /\ tracker' = tracker
  <2>1. [state |-> "whole", of |-> used] \in [state : {"none", "torn", "whole"}, of : Nat]
    BY DEF TypeOK
  <2>. QED  BY <2>1 DEF SaveData, FilesType, TypeOK
<1>3. JobType' /\ LoopType'
  BY LoopSame DEF SaveData, JobType, TypeOK, PCs
<1>4. Steps' /\ Generations'
  BY <1>2, SaveSteps DEF SaveData, Saving
<1>. QED  BY <1>1, <1>2, <1>3, <1>4, TypeParts, PTL

LEMMA JobOpen == JobInv /\ OpenTracker => JobInv'
<1>. SUFFICES ASSUME JobInv, OpenTracker PROVE JobInv'
  OBVIOUS
<1>. USE DEF JobInv
<1>1. ManagerType'
  BY TypeParts DEF OpenTracker, managerVars, ManagerType
<1>2. step \in 1 .. MaxStep
  BY StepType DEF OpenTracker, Saving
<1>3. FilesType'
  BY <1>2 DEF OpenTracker, FilesType, TypeOK
<1>4. JobType' /\ LoopType'
  BY LoopSame DEF OpenTracker, JobType, TypeOK, PCs
<1>5. Steps'
  <2>1. /\ step' = step /\ crashes' = crashes /\ tracker'.step = step
        /\ tracker'.state = "empty" /\ pc = "open" /\ pc' = "number"
    BY LoopSame DEF OpenTracker
  <2>. QED  BY <1>2, <2>1 DEF Steps, Running, PCs
<1>6. Generations'
  BY LoopSame DEF OpenTracker, Generations, Saving
<1>. QED  BY <1>1, <1>3, <1>4, <1>5, <1>6, TypeParts, PTL

LEMMA JobNumber == JobInv /\ WriteTracker => JobInv'
<1>. SUFFICES ASSUME JobInv, WriteTracker PROVE JobInv'
  OBVIOUS
<1>. USE DEF JobInv
<1>1. ManagerType'
  BY TypeParts DEF WriteTracker, managerVars, ManagerType
<1>2. step \in 1 .. MaxStep
  BY StepType DEF WriteTracker, Saving
<1>3. FilesType'
  BY <1>2 DEF WriteTracker, FilesType, TypeOK
<1>4. JobType' /\ LoopType'
  BY LoopSame DEF WriteTracker, JobType, TypeOK, PCs
<1>5. Steps'
  <2>1. /\ step' = step /\ crashes' = crashes /\ tracker'.step = step
        /\ tracker'.state = "whole" /\ pc = "number" /\ pc' = "advance"
    BY LoopSame DEF WriteTracker
  <2>. QED  BY <1>2, <2>1 DEF Steps, Running, PCs
<1>6. Generations'
  BY LoopSame DEF WriteTracker, Generations, Saving
<1>. QED  BY <1>1, <1>3, <1>4, <1>5, <1>6, TypeParts, PTL

(* What a kill leaves of the files, whichever they were writing.           *)
LEMMA CrashEffect ==
  JobInv /\ Crash =>
    /\ \E s \in 1 .. MaxStep : \E writing :
         ManagerCrash(role, s, writing) /\ ((s = step /\ pc = "shards") \/ writing = {})
    /\ \/ data' = data
       \/ pc = "data" /\ data' = [data EXCEPT ![step] = [state |-> "torn", of |-> 0]]
<1>. SUFFICES ASSUME JobInv, Crash
              PROVE  \E s \in 1 .. MaxStep : \E writing :
                        /\ ManagerCrash(role, s, writing)
                        /\ (s = step /\ pc = "shards") \/ writing = {}
  BY DEF Crash
<1>1. CASE pc = "shards"
  <2>1. step \in 1 .. MaxStep
    BY <1>1, StepType DEF Saving
  <2>. QED  BY <1>1, <2>1 DEF Crash
<1>2. CASE pc # "shards"
  <2>1. 1 \in 1 .. MaxStep
    BY TrainerAssumption
  <2>. QED  BY <1>2, <2>1 DEF Crash
<1>. QED  BY <1>1, <1>2

LEMMA JobCrash == JobInv /\ Crash => JobInv'
<1>. SUFFICES ASSUME JobInv, Crash PROVE JobInv'
  OBVIOUS
<1>. USE DEF JobInv
<1>1. ManagerType'
  <2>1. PICK s \in 1 .. MaxStep : \E writing : ManagerCrash(role, s, writing)
    BY CrashEffect
  <2>2. PICK writing : ManagerCrash(role, s, writing)
    BY <2>1
  <2>3. << >> \in Seq(1 .. MaxStep) /\ role \in Roles
    BY DEF TypeOK
  <2>. QED  BY <2>2, <2>3, CrashType DEF ManagerType, RoleShards, StepShards, TypeOK
<1>2. FilesType' /\ tracker' = tracker
  <2>1. [state |-> "torn", of |-> 0] \in [state : {"none", "torn", "whole"}, of : Nat]
    OBVIOUS
  <2>. QED  BY <2>1, CrashEffect DEF Crash, FilesType, TypeOK
<1>3. /\ pc \notin {"down", "finished"} /\ pc' = "down" /\ crashes' = crashes + 1
      /\ crashes' \in 0 .. MaxCrashes /\ role' = role /\ trainer' = trainer
      /\ epochLen' = epochLen /\ step' = 0 /\ used' = 0 /\ epoch' = 0
      /\ batch' = NoBatch /\ next' = NoBatch /\ weights' = [r \in Roles |-> << >>]
  BY TrainerAssumption DEF Crash, job, TypeOK
<1>4. JobType'
  BY <1>3 DEF JobType, TypeOK, PCs
<1>5. LoopType'
  <2>1. NoBatch \in Batches /\ << >> \in Seq(Nat)
    BY DEF NoBatch, Batches
  <2>2. Epochs' \in Nat
    BY <1>3, EpochsType DEF Epochs, TypeOK
  <2>. QED  BY <1>3, <2>1, <2>2, TrainerAssumption DEF LoopType
<1>6. Steps'
  <2>1. /\ step \in Nat /\ tracker.step \in Nat /\ crashes \in Nat
        /\ step <= TotalSteps + crashes /\ tracker.step <= step
        /\ tracker.state = "none" <=> tracker.step = 0
    BY <1>3 DEF Steps, Running, PCs, TypeOK
  <2>2. tracker.step + 1 <= TotalSteps + (crashes + 1)
    BY <2>1, TrainerAssumption
  <2>. QED  BY <1>2, <1>3, <2>1, <2>2 DEF Steps, Running
<1>7. Generations'
  BY <1>3 DEF Generations, Saving
<1>. QED  BY <1>1, <1>2, <1>4, <1>5, <1>6, <1>7, TypeParts, PTL

LEMMA JobStep == JobInv /\ [Next]_vars => JobInv'
<1>1. ASSUME JobInv, UNCHANGED vars PROVE JobInv'
  <2>1. TypeOK'
    BY <1>1 DEF JobInv, TypeOK, vars, managerVars, files, job, loop, Epochs
  <2>2. Steps' /\ Generations'
    BY <1>1 DEF JobInv, Steps, Generations, vars, files, job, loop, Distance, Prefetching,
                IsLast
  <2>. QED  BY <2>1, <2>2 DEF JobInv
<1>. QED  BY <1>1, JobStart, JobGenerate, JobFirst, JobTake, JobTrain, JobRotate, JobShard,
             JobRole, JobData, JobOpen, JobNumber, JobAdvance, JobCrash
          DEF Next, Step, Stuck, Finished

LEMMA SafetyJob == SafetySpec => []JobInv
  BY InitJob, JobStep, PTL DEF SafetySpec

(* The types of every state of a run, in every configuration.              *)
THEOREM SpecTypeOK == SafetySpec => []TypeOK
<1>1. JobInv => TypeOK
  BY DEF JobInv
<1>. QED  BY <1>1, SafetyJob, PTL

(* Generation and training stay as far apart as the trainer promises,      *)
(* wherever the run is killed and resumed and whatever is left of its      *)
(* checkpoints: _async_gen_next_batch of OneStepOffRayTrainer is never     *)
(* more than one update ahead of the weights it sent.                      *)
THEOREM SpecOneStepOff == SafetySpec => []OneStepOff
<1>1. JobInv => OneStepOff
  BY DEF JobInv, Generations, Distance, OneStepOff
<1>. QED  BY <1>1, SafetyJob, PTL

-----------------------------------------------------------------------------
(* The checkpoints, when none or at least two are kept.                    *)

(* Every rank of a role has written what the role was trained on.          *)
Complete(r) == \A k \in Ranks : shard[r][step][k] = Whole(weights[r])

(* The role was saved in this step, behind its second barrier, and the     *)
(* tracker does not name the step yet.                                     *)
Ready(r) == \/ pc \in {"data", "open"}
            \/ pc \in {"rotate", "shards"} /\ role = "critic" /\ r = "actor"

(* The files of the step in training, as far as they are written.          *)
StepFiles ==
  /\ \A r \in Roles : Ready(r) => Complete(r)
  /\ pc = "shards" => \A k \in Ranks \ left : shard[role][step][k] = Whole(weights[role])
  /\ pc = "open" => data[step] = [state |-> "whole", of |-> used]
  /\ pc = "number" => tracker.step = step

(* How far the dataloader is ahead of the weights.                         *)
Ahead(n, w) == n - Atomic!Last(w) \in (IF trainer = "sync" THEN {0} ELSE {0, 1})

(* The files of the step the tracker names, whether it names it in full or *)
(* was only opened.                                                        *)
Checkpoint(s) ==
  /\ \A r \in Roles : /\ Loadable(r, s) /\ SameState(r, s)
                      /\ Len(Content(r, s)) = Updates(r, s)
  /\ data[s].state = "whole"
  /\ Ahead(data[s].of, Content("critic", s))
TrackerFiles == tracker.state # "none" => Checkpoint(tracker.step)

(* What rank 0 remembers of a role is in the order of the steps and ends   *)
(* with the step of the tracker, or with the step just saved: so the       *)
(* rotation, which leaves one at least, never removes it.                  *)
Remembered ==
  \A r \in Roles :
    /\ \A i, j \in 1 .. Len(saved[r]) : i < j => saved[r][i] < saved[r][j]
    /\ Len(saved[r]) > 0 =>
         saved[r][Len(saved[r])] = IF Ready(r) THEN step ELSE tracker.step
    /\ pc = "down" => saved[r] = << >>

(* The updates of the weights in memory.                                   *)
Updated ==
  \A r \in Roles :
    /\ pc \in {"first", "loop", "train", "finished"} =>
         Len(weights[r]) = Updates(r, step - 1)
    /\ pc \in Saving \cup {"advance"} => Len(weights[r]) = Updates(r, step)

(* The batch in training and the one in flight, by their place behind the  *)
(* last one trained on.                                                    *)
LastTrained == Atomic!Last(weights["critic"])

Order ==
  /\ pc = "first" => trainer = "one_step_off"
  /\ pc \in Saving \cup {"first", "advance"} \/ (pc = "loop" /\ trainer = "sync") =>
       Ahead(used, weights["critic"])
  /\ pc = "loop" /\ Prefetching => next.id = used /\ used - LastTrained \in {1, 2}
  /\ pc = "train" =>
       /\ batch.id - LastTrained \in (IF trainer = "sync" THEN {1} ELSE {1, 2})
       /\ used - batch.id \in (IF trainer = "sync" THEN {0} ELSE {0, 1})
       /\ Prefetching /\ ~IsLast => next.id = used /\ used = batch.id + 1
  /\ pc \in Saving \cup {"advance"} /\ Prefetching /\ ~IsLast =>
       next.id = used /\ used = LastTrained + 1

RunInv == /\ JobInv /\ \A r \in Roles : keep[r] # 1
          /\ StepFiles /\ TrackerFiles /\ Remembered /\ Updated /\ Order

-----------------------------------------------------------------------------

LEMMA LastType == \A s \in Seq(Nat) : Atomic!Last(s) \in Nat
<1>1. ASSUME NEW s \in Seq(Nat), s # << >> PROVE s[Len(s)] \in Nat
  <2>1. Len(s) \in 1 .. Len(s)
    BY <1>1, EmptySeq
  <2>. QED  BY <2>1, ElementOfSeq
<1>. QED  BY <1>1 DEF Atomic!Last

LEMMA LastAppend == \A s \in Seq(Nat), n \in Nat : Atomic!Last(Append(s, n)) = n
<1>. SUFFICES ASSUME NEW s \in Seq(Nat), NEW n \in Nat PROVE Atomic!Last(Append(s, n)) = n
  OBVIOUS
<1>1. Len(Append(s, n)) = Len(s) + 1 /\ Append(s, n)[Len(s) + 1] = n /\ Append(s, n) # << >>
  OBVIOUS
<1>. QED  BY <1>1 DEF Atomic!Last

(* A checkpoint that no step touches.                                      *)
LEMMA CheckpointSame ==
  \A s : /\ trainer' = trainer /\ data'[s] = data[s]
         /\ \A r \in Roles : shard'[r][s] = shard[r][s]
         => /\ Checkpoint(s) => (Checkpoint(s))'
            /\ \A r \in Roles : (Content(r, s))' = Content(r, s)
<1>. SUFFICES ASSUME NEW s, trainer' = trainer, data'[s] = data[s],
                     \A r \in Roles : shard'[r][s] = shard[r][s]
              PROVE  /\ Checkpoint(s) => (Checkpoint(s))'
                     /\ \A r \in Roles : (Content(r, s))' = Content(r, s)
  OBVIOUS
<1>1. \A r \in Roles : (Content(r, s))' = Content(r, s)
  BY DEF Content
<1>2. \A r \in Roles : /\ (Loadable(r, s))' = Loadable(r, s)
                       /\ (SameState(r, s))' = SameState(r, s)
                       /\ (Updates(r, s))' = Updates(r, s)
  BY DEF Loadable, SameState, Updates
<1>3. (Ahead(data[s].of, Content("critic", s)))' = Ahead(data[s].of, Content("critic", s))
  BY <1>1, TrainerAssumption DEF Ahead
<1>. QED  BY <1>1, <1>2, <1>3 DEF Checkpoint

LEMMA TrackerSame ==
  /\ JobInv /\ trainer' = trainer /\ tracker' = tracker
  /\ tracker.state # "none" => /\ data'[tracker.step] = data[tracker.step]
                              /\ \A r \in Roles : shard'[r][tracker.step] = shard[r][tracker.step]
  => /\ TrackerFiles => TrackerFiles'
     /\ Kept' = Kept
<1>. SUFFICES ASSUME JobInv, trainer' = trainer, tracker' = tracker,
                     tracker.state # "none" =>
                       /\ data'[tracker.step] = data[tracker.step]
                       /\ \A r \in Roles : shard'[r][tracker.step] = shard[r][tracker.step]
              PROVE  (TrackerFiles => TrackerFiles') /\ Kept' = Kept
  OBVIOUS
<1>1. CASE tracker.state = "none"
  BY <1>1 DEF TrackerFiles, Kept
<1>2. CASE tracker.state # "none"
  <2>1. PICK s : s = tracker.step
    OBVIOUS
  <2>2. /\ Checkpoint(s) => (Checkpoint(s))'
        /\ \A r \in Roles : (Content(r, s))' = Content(r, s)
    BY <1>2, <2>1, CheckpointSame
  <2>3. tracker'.step = s
    BY <2>1
  <2>4. Checkpoint(tracker.step) = Checkpoint(s) /\ (Checkpoint(tracker.step))' = (Checkpoint(s))'
    BY <2>1, <2>3 DEF Checkpoint, Loadable, SameState, Content, Ahead, Updates
  <2>5. /\ Content("critic", tracker.step) = Content("critic", s)
        /\ (Content("critic", tracker.step))' = (Content("critic", s))'
    BY <2>1, <2>3 DEF Content
  <2>. QED  BY <1>2, <2>2, <2>4, <2>5, TrainerAssumption DEF TrackerFiles, Kept
<1>. QED  BY <1>1, <1>2

(* A complete role is a checkpoint of what it was trained on.              *)
LEMMA CompleteIsCheckpoint ==
  \A r \in Roles : Complete(r) => /\ Loadable(r, step) /\ SameState(r, step)
                                 /\ Content(r, step) = weights[r]
<1>. SUFFICES ASSUME NEW r \in Roles, Complete(r)
              PROVE  /\ Loadable(r, step) /\ SameState(r, step)
                     /\ Content(r, step) = weights[r]
  OBVIOUS
<1>1. \A k \in Ranks : shard[r][step][k] = Whole(weights[r])
  BY DEF Complete
<1>2. Whole(weights[r]).state = "whole" /\ Whole(weights[r]).of = weights[r]
  BY DEF Whole
<1>. QED  BY <1>1, <1>2, RankType DEF Loadable, SameState, Content

LEMMA InitRun == 1 \notin Keeps /\ Init => RunInv
<1>. SUFFICES ASSUME 1 \notin Keeps, Init PROVE RunInv
  OBVIOUS
<1>1. JobInv /\ (\A r \in Roles : keep[r] # 1)
  BY InitJob DEF Init
<1>2. StepFiles /\ TrackerFiles
  BY DEF Init, StepFiles, Ready, TrackerFiles
<1>3. Remembered
  BY DEF Init, ManagerInit, Remembered
<1>4. Updated /\ Order
  BY DEF Init, Updated, Order, Saving
<1>. QED  BY <1>1, <1>2, <1>3, <1>4 DEF RunInv

-----------------------------------------------------------------------------
(* The steps of the loop.                                                  *)

LEMMA UpdatesNext ==
  ASSUME NEW n \in Nat \ {0}
  PROVE  /\ Updates("critic", n) = n /\ Updates("critic", n - 1) = n - 1
         /\ Updates("actor", n) = IF n < Warmup THEN Updates("actor", n - 1)
                                 ELSE Updates("actor", n - 1) + 1
  BY TrainerAssumption DEF Updates

LEMMA UpdatesFirst == \A r \in Roles : Updates(r, 0) = 0
  BY TrainerAssumption DEF Updates

(* Between two saves nothing changes on disk, and rank 0 remembers the     *)
(* step of the tracker last.                                               *)
LEMMA FilesKept ==
  /\ RunInv /\ UNCHANGED <<managerVars, files, job>>
  /\ pc \notin Saving /\ pc' \notin {"down", "shards", "data", "open", "number"}
  /\ pc' = "rotate" => role' = "actor"
  => StepFiles' /\ TrackerFiles' /\ Remembered' /\ Kept' = Kept /\ (\A r \in Roles : keep'[r] # 1)
<1>. SUFFICES ASSUME RunInv, UNCHANGED <<managerVars, files, job>>, pc \notin Saving,
                     pc' \notin {"down", "shards", "data", "open", "number"},
                     pc' = "rotate" => role' = "actor"
              PROVE  /\ StepFiles' /\ TrackerFiles' /\ Remembered' /\ Kept' = Kept
                     /\ \A r \in Roles : keep'[r] # 1
  OBVIOUS
<1>. USE DEF RunInv
<1>1. /\ shard' = shard /\ saved' = saved /\ keep' = keep /\ data' = data
      /\ tracker' = tracker /\ trainer' = trainer
  BY DEF managerVars, files, job
<1>2. TrackerFiles' /\ Kept' = Kept
  BY <1>1, TrackerSame
<1>3. \A r \in Roles : ~Ready(r) /\ ~(Ready(r))'
  BY TrainerAssumption DEF Ready, Saving
<1>4. StepFiles'
  BY <1>3 DEF StepFiles
<1>5. Remembered'
  BY <1>1, <1>3 DEF Remembered
<1>. QED  BY <1>1, <1>2, <1>4, <1>5

LEMMA RunStart == RunInv /\ Start => RunInv' /\ Kept' = Kept /\ weights'["critic"] = Kept
<1>. SUFFICES ASSUME RunInv, Start
              PROVE  RunInv' /\ Kept' = Kept /\ weights'["critic"] = Kept
  OBVIOUS
<1>. USE DEF RunInv
<1>1. JobInv'
  BY JobStart
<1>2. /\ pc = "down" /\ pc' \in {"loop", "first"} /\ pc' = Enter
      /\ step' = tracker.step + 1 /\ next' = NoBatch /\ trainer' = trainer
  BY DEF Start, Enter, job
<1>3. /\ StepFiles' /\ TrackerFiles' /\ Remembered' /\ Kept' = Kept
      /\ \A r \in Roles : keep'[r] # 1
  BY <1>2, FilesKept DEF Start, Saving
<1>4. tracker.step \in Nat
  BY DEF JobInv, TypeOK
<1>5. /\ \A r \in Roles : Len(weights'[r]) = Updates(r, tracker.step)
      /\ Ahead(used', weights'["critic"])
      /\ weights'["critic"] = Kept
  <2>1. CASE tracker.state = "none"
    <3>1. weights' = [r \in Roles |-> << >>] /\ used' = 0 /\ tracker.step = 0
      BY <2>1 DEF Start, JobInv, Steps
    <3>2. Atomic!Last(<< >>) = 0 /\ Len(<< >>) = 0
      BY DEF Atomic!Last
    <3>. QED  BY <2>1, <3>1, <3>2, UpdatesFirst, TrainerAssumption DEF Ahead, Kept
  <2>2. CASE tracker.state # "none"
    <3>1. /\ weights' = [r \in Roles |-> Content(r, tracker.step)]
          /\ used' = data[tracker.step].of
      BY <2>2 DEF Start
    <3>. QED  BY <2>2, <3>1, TrainerAssumption DEF TrackerFiles, Checkpoint, Kept
  <2>. QED  BY <2>1, <2>2
<1>6. Updated'
  <2>1. step' - 1 = tracker.step
    BY <1>2, <1>4
  <2>2. \A r \in Roles : (Updates(r, step - 1))' = Updates(r, tracker.step)
    BY <2>1 DEF Updates
  <2>. QED  BY <1>2, <1>5, <2>2 DEF Updated, Saving
<1>7. Order'
  <2>1. (Ahead(used, weights["critic"]))'
    BY <1>2, <1>5 DEF Ahead
  <2>2. pc' = "first" => trainer = "one_step_off"
    BY <1>2 DEF Enter, JobInv, TypeOK
  <2>. QED  BY <1>2, <2>1, <2>2 DEF Order, Saving, Prefetching
<1>. QED  BY <1>1, <1>3, <1>5, <1>6, <1>7

LEMMA RunGenerate == RunInv /\ Generate => RunInv' /\ Kept' = Kept
<1>. SUFFICES ASSUME RunInv, Generate PROVE RunInv' /\ Kept' = Kept
  OBVIOUS
<1>. USE DEF RunInv
<1>1. JobInv'
  BY JobGenerate
<1>2. /\ pc = "loop" /\ pc' \in {"train", "finished"} /\ trainer = "sync"
      /\ step' = step /\ weights' = weights /\ trainer' = trainer
  BY DEF Generate, job
<1>3. /\ StepFiles' /\ TrackerFiles' /\ Remembered' /\ Kept' = Kept
      /\ \A r \in Roles : keep'[r] # 1
  BY <1>2, FilesKept DEF Generate, Saving
<1>4. Updated'
  BY <1>2 DEF Updated, Saving, Updates
<1>5. Order'
  <2>1. used - LastTrained = 0 /\ LastTrained' = LastTrained /\ LastTrained \in Nat /\ used \in Nat
    BY <1>2, LastType, TrainerAssumption DEF Order, Ahead, LastTrained, JobInv, TypeOK
  <2>2. ~Prefetching'
    BY <1>2 DEF Prefetching
  <2>3. pc' = "train" => used' = used + 1 /\ batch'.id = used + 1
    BY <1>2 DEF Generate, Consume, Read
  <2>. QED  BY <1>2, <2>1, <2>2, <2>3 DEF Order, Saving
<1>. QED  BY <1>1, <1>3, <1>4, <1>5

LEMMA RunFirst == RunInv /\ First => RunInv' /\ Kept' = Kept
<1>. SUFFICES ASSUME RunInv, First PROVE RunInv' /\ Kept' = Kept
  OBVIOUS
<1>. USE DEF RunInv
<1>1. JobInv'
  BY JobFirst
<1>2. /\ pc = "first" /\ pc' = "loop" /\ step' = step /\ weights' = weights
      /\ trainer' = trainer /\ epochLen' = epochLen
  BY DEF First, job
<1>3. /\ StepFiles' /\ TrackerFiles' /\ Remembered' /\ Kept' = Kept
      /\ \A r \in Roles : keep'[r] # 1
  BY <1>2, FilesKept DEF First, Saving
<1>4. Updated'
  BY <1>2 DEF Updated, Saving, Updates
<1>5. Order'
  <2>1. /\ used - LastTrained \in (IF trainer = "sync" THEN {0} ELSE {0, 1})
        /\ LastTrained' = LastTrained /\ LastTrained \in Nat /\ used \in Nat
    BY <1>2, LastType, TrainerAssumption DEF Order, Ahead, LastTrained, JobInv, TypeOK
  <2>2. /\ next' # NoBatch => next'.id = used' /\ used' = used + 1
        /\ next' = NoBatch => used' = used
    BY <1>2, PrefetchType DEF First, JobInv, Epochs
  <2>3. trainer = "one_step_off"
    BY <1>2 DEF Order
  <2>4. next' # NoBatch => next'.id = used' /\ used' - LastTrained' \in {1, 2}
    BY <2>1, <2>2, <2>3
  <2>. QED  BY <1>2, <2>3, <2>4 DEF Order, Saving, Prefetching
<1>. QED  BY <1>1, <1>3, <1>4, <1>5

LEMMA RunTake == RunInv /\ Take => RunInv' /\ Kept' = Kept
<1>. SUFFICES ASSUME RunInv, Take PROVE RunInv' /\ Kept' = Kept
  OBVIOUS
<1>. USE DEF RunInv
<1>1. JobInv'
  BY JobTake
<1>2. /\ pc = "loop" /\ pc' \in {"train", "finished"} /\ step' = step
      /\ weights' = weights /\ trainer' = trainer /\ epochLen' = epochLen
      /\ trainer = "one_step_off"
  BY DEF Take, job
<1>3. /\ StepFiles' /\ TrackerFiles' /\ Remembered' /\ Kept' = Kept
      /\ \A r \in Roles : keep'[r] # 1
  BY <1>2, FilesKept DEF Take, Saving
<1>4. Updated'
  BY <1>2 DEF Updated, Saving, Updates
<1>5. Order'
  <2>1. /\ LastTrained' = LastTrained /\ LastTrained \in Nat /\ used \in Nat
        /\ IsLast' = IsLast
    BY <1>2, LastType, TrainerAssumption DEF LastTrained, JobInv, TypeOK, IsLast
  <2>2. CASE next = NoBatch
    BY <1>2, <2>2 DEF Take, Order, Saving
  <2>3. CASE next # NoBatch
    <3>1. next.id = used /\ used - LastTrained \in {1, 2} /\ batch' = next /\ pc' = "train"
      BY <1>2, <2>3 DEF Order, Prefetching, Take
    <3>2. CASE IsLast
      <4>1. used' = used
        BY <2>3, <3>2 DEF Take
      <4>. QED  BY <1>2, <2>1, <3>1, <3>2, <4>1 DEF Order, Saving
    <3>3. CASE ~IsLast
      <4>1. /\ next' # NoBatch => next'.id = used' /\ used' = used + 1
            /\ next' = NoBatch => used' = used
        BY <2>3, <3>3, PrefetchType DEF Take, JobInv, Epochs, job
      <4>2. used' - used \in {0, 1} /\ (next' # NoBatch => used' = used + 1)
        BY <2>1, <4>1
      <4>. QED  BY <1>2, <2>1, <3>1, <4>1, <4>2 DEF Order, Saving, Prefetching
    <3>. QED  BY <3>2, <3>3
  <2>. QED  BY <2>2, <2>3
<1>. QED  BY <1>1, <1>3, <1>4, <1>5

LEMMA RunTrain ==
  RunInv /\ Train =>
    /\ RunInv' /\ Kept' = Kept
    /\ \E ahead \in IF trainer = "one_step_off" THEN {1, 2} ELSE {1} :
         weights'["critic"] = Append(weights["critic"], LastTrained + ahead)
<1>. SUFFICES ASSUME RunInv, Train
              PROVE  /\ RunInv' /\ Kept' = Kept
                     /\ \E ahead \in IF trainer = "one_step_off" THEN {1, 2} ELSE {1} :
                          weights'["critic"] = Append(weights["critic"], LastTrained + ahead)
  OBVIOUS
<1>. USE DEF RunInv
<1>1. JobInv'
  BY JobTrain
<1>2. /\ pc = "train" /\ pc' \in {"rotate", "advance"} /\ role' = "actor"
      /\ step' = step /\ trainer' = trainer /\ used' = used /\ batch' = batch
      /\ next' = next
  BY DEF Train, job
<1>3. /\ StepFiles' /\ TrackerFiles' /\ Remembered' /\ Kept' = Kept
      /\ \A r \in Roles : keep'[r] # 1
  BY <1>2, FilesKept DEF Train, Saving
<1>4. /\ LastTrained \in Nat /\ batch.id \in Nat /\ used \in Nat
      /\ weights["critic"] \in Seq(Nat) /\ weights["actor"] \in Seq(Nat)
      /\ step \in Nat \ {0} /\ trainer \in {"sync", "one_step_off"}
  BY <1>2, LastType, TrainerAssumption
     DEF LastTrained, JobInv, TypeOK, Batches, Steps, Running, PCs
<1>5. /\ weights'["critic"] = Append(weights["critic"], batch.id)
      /\ weights'["actor"] = IF step < Warmup THEN weights["actor"]
                            ELSE Append(weights["actor"], batch.id)
  BY TrainEffect DEF JobInv
<1>6. LastTrained' = batch.id
  BY <1>4, <1>5, LastAppend DEF LastTrained
<1>7. /\ batch.id - LastTrained \in (IF trainer = "sync" THEN {1} ELSE {1, 2})
      /\ used - batch.id \in (IF trainer = "sync" THEN {0} ELSE {0, 1})
      /\ Prefetching /\ ~IsLast => next.id = used /\ used = batch.id + 1
  BY <1>2 DEF Order
<1>8. Updated'
  <2>1. \A r \in Roles : Len(weights[r]) = Updates(r, step - 1)
    BY <1>2 DEF Updated
  <2>2. /\ Len(weights'["critic"]) = Len(weights["critic"]) + 1
        /\ Len(weights'["actor"]) = IF step < Warmup THEN Len(weights["actor"])
                                   ELSE Len(weights["actor"]) + 1
    BY <1>4, <1>5
  <2>3. \A r \in Roles : Len(weights'[r]) = Updates(r, step)
    <3>1. /\ Updates("critic", step) = step /\ Updates("critic", step - 1) = step - 1
          /\ Updates("actor", step) = IF step < Warmup THEN Updates("actor", step - 1)
                                      ELSE Updates("actor", step - 1) + 1
      BY <1>4, UpdatesNext
    <3>2. Len(weights'["critic"]) = step
      BY <1>4, <2>1, <2>2, <3>1, TrainerAssumption
    <3>3. Len(weights'["actor"]) = Updates("actor", step)
      BY <2>1, <2>2, <3>1, TrainerAssumption
    <3>. QED  BY <3>1, <3>2, <3>3, TrainerAssumption
  <2>4. \A r \in Roles : (Updates(r, step))' = Updates(r, step)
    BY <1>2 DEF Updates
  <2>. QED  BY <1>2, <2>3, <2>4 DEF Updated, Saving
<1>9. Order'
  <2>1. Prefetching' = Prefetching /\ IsLast' = IsLast
    BY <1>2 DEF Prefetching, IsLast
  <2>2. (Ahead(used, weights["critic"]))'
    BY <1>2, <1>4, <1>6, <1>7 DEF Ahead, LastTrained
  <2>. QED  BY <1>2, <1>6, <1>7, <2>1, <2>2 DEF Order, Saving
<1>10. \E ahead \in IF trainer = "one_step_off" THEN {1, 2} ELSE {1} :
         batch.id = LastTrained + ahead
  <2>1. batch.id = LastTrained + (batch.id - LastTrained)
    BY <1>4
  <2>2. batch.id - LastTrained \in IF trainer = "one_step_off" THEN {1, 2} ELSE {1}
    BY <1>4, <1>7
  <2>. QED  BY <2>1, <2>2
<1>. QED  BY <1>1, <1>3, <1>5, <1>8, <1>9, <1>10

LEMMA RunAdvance == RunInv /\ Advance => RunInv' /\ Kept' = Kept
<1>. SUFFICES ASSUME RunInv, Advance PROVE RunInv' /\ Kept' = Kept
  OBVIOUS
<1>. USE DEF RunInv
<1>1. JobInv'
  BY JobAdvance
<1>2. /\ pc = "advance" /\ pc' = IF IsLast THEN "finished" ELSE "loop"
      /\ step' = step + 1 /\ weights' = weights /\ trainer' = trainer /\ used' = used
      /\ next' = next
  BY DEF Advance, job
<1>3. /\ StepFiles' /\ TrackerFiles' /\ Remembered' /\ Kept' = Kept
      /\ \A r \in Roles : keep'[r] # 1
  BY <1>2, FilesKept DEF Advance, Saving
<1>4. Updated'
  <2>1. step' - 1 = step
    BY <1>2 DEF JobInv, TypeOK
  <2>2. \A r \in Roles : (Updates(r, step - 1))' = Updates(r, step)
    BY <2>1 DEF Updates
  <2>. QED  BY <1>2, <2>2 DEF Updated, Saving
<1>5. Order'
  <2>1. /\ LastTrained' = LastTrained /\ LastTrained \in Nat /\ used \in Nat
        /\ Prefetching' = Prefetching
    BY <1>2, LastType, TrainerAssumption DEF LastTrained, JobInv, TypeOK, Prefetching
  <2>2. Ahead(used, weights["critic"])
    BY <1>2 DEF Order
  <2>3. (Ahead(used, weights["critic"]))'
    BY <1>2, <2>2 DEF Ahead
  <2>4. Prefetching /\ ~IsLast => next.id = used /\ used - LastTrained = 1
    BY <1>2, <2>1 DEF Order
  <2>. QED  BY <1>2, <2>1, <2>3, <2>4 DEF Order, Saving
<1>. QED  BY <1>1, <1>3, <1>4, <1>5

-----------------------------------------------------------------------------
(* The steps of a save.                                                    *)

(* The loop during a save.                                                 *)
LEMMA SaveLoop ==
  RunInv /\ UNCHANGED <<job, loop, keep>> /\ pc \in Saving /\ pc' \in Saving \cup {"advance"} =>
    Updated' /\ Order' /\ (\A r \in Roles : keep'[r] # 1)
<1>. SUFFICES ASSUME RunInv, UNCHANGED <<job, loop, keep>>, pc \in Saving,
                     pc' \in Saving \cup {"advance"}
              PROVE  Updated' /\ Order' /\ (\A r \in Roles : keep'[r] # 1)
  OBVIOUS
<1>1. /\ trainer' = trainer /\ step' = step /\ weights' = weights /\ used' = used
      /\ next' = next /\ keep' = keep
  BY DEF job, loop
<1>2. Updated'
  BY <1>1 DEF RunInv, Updated, Updates, Saving
<1>3. Order'
  BY <1>1 DEF RunInv, Order, Ahead, Prefetching, IsLast, LastTrained, Saving
<1>. QED  BY <1>1, <1>2, <1>3 DEF RunInv

(* The rotation of a role takes what is before its last checkpoint, which  *)
(* is the one the tracker names.                                           *)
LEMMA RotateEffect ==
  ASSUME RunInv, SaveRotate
  PROVE  /\ \A r \in Roles \ {role} : shard'[r] = shard[r] /\ saved'[r] = saved[r]
         /\ tracker.state # "none" => shard'[role][tracker.step] = shard[role][tracker.step]
         /\ \E n \in Nat : /\ saved'[role] = SubSeq(saved[role], n + 1, Len(saved[role]))
                           /\ n = 0 \/ n < Len(saved[role])
<1>. USE DEF RunInv
<1>. DEFINE n == Excess(role)
            gone == {saved[role][i] : i \in 1 .. n}
<1>1. role \in Roles /\ saved[role] \in Seq(1 .. MaxStep) /\ keep[role] \in Nat
  BY DEF JobInv, TypeOK
<1>2. n \in Nat /\ (n = 0 \/ n < Len(saved[role]))
  BY <1>1 DEF Excess
<1>3. /\ shard' = [shard EXCEPT ![role] =
                     [s \in 1 .. MaxStep |->
                        IF s \in gone THEN [k \in Ranks |-> None] ELSE shard[role][s]]]
      /\ saved' = [saved EXCEPT ![role] = SubSeq(saved[role], n + 1, Len(saved[role]))]
  BY DEF SaveRotate, Rotate
<1>. HIDE DEF n
<1>4. tracker.step \notin gone
  <2>. SUFFICES ASSUME NEW i \in 1 .. n, saved[role][i] = tracker.step PROVE FALSE
    OBVIOUS
  <2>1. ~Ready(role)
    BY DEF SaveRotate, Ready
  <2>2. Len(saved[role]) \in 1 .. Len(saved[role]) /\ i \in 1 .. Len(saved[role])
        /\ i < Len(saved[role])
    BY <1>1, <1>2
  <2>3. /\ saved[role][Len(saved[role])] = tracker.step
        /\ saved[role][i] < saved[role][Len(saved[role])]
    BY <1>1, <2>1, <2>2 DEF Remembered
  <2>. QED  BY <2>3 DEF JobInv, TypeOK
<1>5. tracker.state # "none" => tracker.step \in 1 .. MaxStep
  BY DEF JobInv, Steps, TypeOK
<1>6. shard \in [Roles -> RoleShards] /\ saved \in [Roles -> Seq(1 .. MaxStep)]
  BY ShardType DEF JobInv, TypeOK
<1>. HIDE DEF gone
<1>7. tracker.state # "none" => shard'[role][tracker.step] = shard[role][tracker.step]
  BY <1>1, <1>3, <1>4, <1>5, <1>6
<1>8. \A r \in Roles \ {role} : shard'[r] = shard[r] /\ saved'[r] = saved[r]
  BY <1>3, <1>6
<1>9. saved'[role] = SubSeq(saved[role], n + 1, Len(saved[role]))
  BY <1>1, <1>3, <1>6
<1>. QED  BY <1>2, <1>7, <1>8, <1>9

LEMMA RunRotate == RunInv /\ SaveRotate => RunInv' /\ Kept' = Kept
<1>. SUFFICES ASSUME RunInv, SaveRotate PROVE RunInv' /\ Kept' = Kept
  OBVIOUS
<1>. USE DEF RunInv
<1>1. JobInv'
  BY JobRotate
<1>2. /\ pc = "rotate" /\ pc' = "shards" /\ role' = role /\ tracker' = tracker
      /\ data' = data /\ step' = step /\ weights' = weights /\ left' = Ranks
      /\ role \in Roles /\ trainer' = trainer
  BY DEF SaveRotate, files, loop, Rotate, JobInv, TypeOK, job
<1>3. Updated' /\ Order' /\ (\A r \in Roles : keep'[r] # 1)
  BY SaveLoop DEF SaveRotate, Rotate, Saving
<1>4. /\ \A r \in Roles \ {role} : shard'[r] = shard[r] /\ saved'[r] = saved[r]
      /\ tracker.state # "none" => shard'[role][tracker.step] = shard[role][tracker.step]
  BY RotateEffect
<1>5. TrackerFiles' /\ Kept' = Kept
  <2>1. tracker.state # "none" =>
          \A r \in Roles : shard'[r][tracker.step] = shard[r][tracker.step]
    BY <1>4
  <2>. QED  BY <1>2, <2>1, TrackerSame
<1>6. \A r \in Roles : /\ (Ready(r))' = Ready(r)
                       /\ Ready(r) => r \in Roles \ {role}
  BY <1>2 DEF Ready
<1>7. StepFiles'
  <2>1. \A r \in Roles : Ready(r) => (Complete(r))'
    BY <1>2, <1>4, <1>6 DEF StepFiles, Complete
  <2>. QED  BY <1>2, <1>6, <2>1 DEF StepFiles
<1>8. Remembered'
  <2>1. ASSUME NEW r \in Roles, r # role
        PROVE  /\ \A i, j \in 1 .. Len(saved'[r]) : i < j => saved'[r][i] < saved'[r][j]
               /\ Len(saved'[r]) > 0 =>
                    saved'[r][Len(saved'[r])] = IF Ready(r) THEN step ELSE tracker.step
    BY <1>4, <2>1 DEF Remembered
  <2>2. /\ \A i, j \in 1 .. Len(saved'[role]) : i < j => saved'[role][i] < saved'[role][j]
        /\ Len(saved'[role]) > 0 =>
             saved'[role][Len(saved'[role])] = IF Ready(role) THEN step ELSE tracker.step
    <3>1. PICK n \in Nat : /\ saved'[role] = SubSeq(saved[role], n + 1, Len(saved[role]))
                           /\ n = 0 \/ n < Len(saved[role])
      BY RotateEffect
    <3>. DEFINE q == saved[role]
                t == saved'[role]
    <3>2. q \in Seq(1 .. MaxStep) /\ Len(q) \in Nat
      BY <1>2 DEF JobInv, TypeOK
    <3>3. /\ Len(t) = Len(q) - n
          /\ \A i \in 1 .. Len(q) - n : t[i] = q[n + i]
      <4>1. /\ Len(SubSeq(q, n + 1, Len(q))) = IF n <= Len(q) THEN Len(q) - n ELSE 0
            /\ \A i \in 1 .. Len(q) - n : SubSeq(q, n + 1, Len(q))[i] = q[n + i]
        BY <3>2, DropFirst
      <4>2. n <= Len(q)
        BY <3>1, <3>2
      <4>3. t = SubSeq(q, n + 1, Len(q))
        BY <3>1
      <4>. QED  BY <4>1, <4>2, <4>3
    <3>4. /\ \A i, j \in 1 .. Len(q) : i < j => q[i] < q[j]
          /\ Len(q) > 0 => q[Len(q)] = IF Ready(role) THEN step ELSE tracker.step
      BY <1>2 DEF Remembered
    <3>. HIDE DEF q, t
    <3>5. \A i \in 1 .. Len(t) : n + i \in 1 .. Len(q) /\ t[i] = q[n + i]
      BY <3>1, <3>2, <3>3
    <3>6. \A i, j \in 1 .. Len(t) : i < j => t[i] < t[j]
      <4>. SUFFICES ASSUME NEW i \in 1 .. Len(t), NEW j \in 1 .. Len(t), i < j
                    PROVE  t[i] < t[j]
        OBVIOUS
      <4>1. n + i \in 1 .. Len(q) /\ n + j \in 1 .. Len(q) /\ n + i < n + j
        BY <3>5
      <4>2. q[n + i] < q[n + j]
        BY <3>4, <4>1
      <4>. QED  BY <3>5, <4>2
    <3>7. Len(t) > 0 => Len(t) \in 1 .. Len(t) /\ n + Len(t) = Len(q) /\ Len(q) > 0
      BY <3>1, <3>2, <3>3
    <3>8. Len(t) > 0 => t[Len(t)] = IF Ready(role) THEN step ELSE tracker.step
      BY <3>4, <3>5, <3>7
    <3>. QED  BY <3>6, <3>8 DEF t
  <2>. QED  BY <1>2, <1>6, <2>1, <2>2 DEF Remembered
<1>. QED  BY <1>1, <1>3, <1>5, <1>7, <1>8

LEMMA RunShard == RunInv /\ (\E k \in Ranks : SaveShard(k)) => RunInv' /\ Kept' = Kept
<1>. SUFFICES ASSUME RunInv, NEW k \in Ranks, SaveShard(k) PROVE RunInv' /\ Kept' = Kept
  OBVIOUS
<1>. USE DEF RunInv
<1>1. JobInv'
  BY JobShard
<1>2. /\ pc = "shards" /\ pc' = "shards" /\ role' = role /\ tracker' = tracker
      /\ data' = data /\ step' = step /\ weights' = weights /\ left' = left \ {k}
      /\ role \in Roles /\ saved' = saved /\ trainer' = trainer
      /\ shard' = [shard EXCEPT ![role][step][k] = Whole(weights[role])]
  BY DEF SaveShard, WriteShard, files, loop, job, JobInv, TypeOK
<1>3. Updated' /\ Order' /\ (\A r \in Roles : keep'[r] # 1)
  BY SaveLoop DEF SaveShard, WriteShard, Saving
<1>4. step \in 1 .. MaxStep /\ tracker.step < step /\ tracker.step \in Nat
  BY <1>2, StepType DEF JobInv, Steps, Running, Saving, PCs, TypeOK
<1>5. /\ shard \in [Roles -> RoleShards] /\ shard[role] \in RoleShards
      /\ shard[role][step] \in StepShards
  BY <1>2, <1>4, ShardType DEF JobInv
<1>6. /\ \A r \in Roles \ {role} : shard'[r] = shard[r]
      /\ shard'[role][step][k] = Whole(weights[role])
      /\ \A j \in Ranks \ {k} : shard'[role][step][j] = shard[role][step][j]
      /\ \A s \in (1 .. MaxStep) \ {step} : shard'[role][s] = shard[role][s]
  BY <1>2, <1>4, <1>5 DEF RoleShards, StepShards
<1>7. TrackerFiles' /\ Kept' = Kept
  <2>1. tracker.state # "none" => tracker.step \in (1 .. MaxStep) \ {step}
    BY <1>4 DEF JobInv, Steps, TypeOK
  <2>2. tracker.state # "none" =>
          \A r \in Roles : shard'[r][tracker.step] = shard[r][tracker.step]
    BY <1>6, <2>1
  <2>. QED  BY <1>2, <2>2, TrackerSame
<1>8. \A r \in Roles : /\ (Ready(r))' = Ready(r)
                       /\ Ready(r) => r \in Roles \ {role}
  BY <1>2 DEF Ready
<1>9. StepFiles'
  <2>1. \A r \in Roles : Ready(r) => (Complete(r))'
    BY <1>2, <1>6, <1>8 DEF StepFiles, Complete
  <2>2. \A j \in Ranks \ left' : shard'[role][step][j] = Whole(weights[role])
    BY <1>2, <1>6 DEF StepFiles
  <2>. QED  BY <1>2, <1>8, <2>1, <2>2 DEF StepFiles
<1>10. Remembered'
  BY <1>2, <1>8 DEF Remembered
<1>. QED  BY <1>1, <1>3, <1>7, <1>9, <1>10

LEMMA RunRole == RunInv /\ SaveRole => RunInv' /\ Kept' = Kept
<1>. SUFFICES ASSUME RunInv, SaveRole PROVE RunInv' /\ Kept' = Kept
  OBVIOUS
<1>. USE DEF RunInv
<1>1. JobInv'
  BY JobRole
<1>2. /\ pc = "shards" /\ left = {} /\ tracker' = tracker /\ shard' = shard
      /\ data' = data /\ step' = step /\ weights' = weights
      /\ role \in {"actor", "critic"} /\ trainer' = trainer
      /\ role = "actor" => role' = "critic" /\ pc' = "rotate"
      /\ role = "critic" => role' = "critic" /\ pc' = "data"
  BY TrainerAssumption DEF SaveRole, Saved, files, loop, job, JobInv, TypeOK
<1>3. Updated' /\ Order' /\ (\A r \in Roles : keep'[r] # 1)
  BY <1>2, SaveLoop DEF SaveRole, Saved, Saving
<1>4. step \in 1 .. MaxStep /\ tracker.step < step /\ tracker.step \in Nat
  BY <1>2, StepType DEF JobInv, Steps, Running, Saving, PCs, TypeOK
<1>5. TrackerFiles' /\ Kept' = Kept
  BY <1>2, TrackerSame
<1>6. \A r \in Roles : (Ready(r))' <=> Ready(r) \/ r = role
  BY <1>2, TrainerAssumption DEF Ready
<1>7. StepFiles'
  <2>1. \A r \in Roles : Ready(r) => Complete(r)
    BY DEF StepFiles
  <2>2. Complete(role)
    BY <1>2 DEF StepFiles, Complete
  <2>3. \A r \in Roles : (Complete(r))' = Complete(r)
    BY <1>2 DEF Complete
  <2>. QED  BY <1>2, <1>6, <2>1, <2>2, <2>3 DEF StepFiles
<1>8. Remembered'
  <2>1. saved \in [Roles -> Seq(1 .. MaxStep)] /\ role \in Roles
    BY DEF JobInv, TypeOK
  <2>2. /\ saved'[role] = Append(saved[role], step)
        /\ \A r \in Roles \ {role} : saved'[r] = saved[r]
    BY <2>1 DEF SaveRole, Saved
  <2>3. ~Ready(role)
    BY <1>2 DEF Ready
  <2>4. ASSUME NEW r \in Roles, r # role
        PROVE  /\ \A i, j \in 1 .. Len(saved'[r]) : i < j => saved'[r][i] < saved'[r][j]
               /\ Len(saved'[r]) > 0 =>
                    saved'[r][Len(saved'[r])] = IF Ready(r) THEN step ELSE tracker.step
    BY <2>2, <2>4 DEF Remembered
  <2>5. /\ \A i, j \in 1 .. Len(saved'[role]) : i < j => saved'[role][i] < saved'[role][j]
        /\ saved'[role][Len(saved'[role])] = step
    <3>. DEFINE q == saved[role]
                t == saved'[role]
    <3>1. q \in Seq(1 .. MaxStep) /\ Len(q) \in Nat
      BY <2>1
    <3>2. /\ Len(t) = Len(q) + 1 /\ t[Len(q) + 1] = step
          /\ \A i \in 1 .. Len(q) : t[i] = q[i]
      BY <1>4, <2>2, <3>1
    <3>3. /\ \A i, j \in 1 .. Len(q) : i < j => q[i] < q[j]
          /\ Len(q) > 0 => q[Len(q)] = tracker.step
      BY <2>1, <2>3 DEF Remembered
    <3>. HIDE DEF q, t
    <3>4. \A i \in 1 .. Len(q) : q[i] \in Nat
      BY <3>1, ElementOfSeq, TrainerAssumption
    <3>5. \A i \in 1 .. Len(q) : q[i] < step
      <4>. SUFFICES ASSUME NEW i \in 1 .. Len(q) PROVE q[i] < step
        OBVIOUS
      <4>1. Len(q) \in 1 .. Len(q) /\ Len(q) > 0
        BY <3>1
      <4>2. q[Len(q)] = tracker.step /\ (i = Len(q) \/ q[i] < q[Len(q)])
        BY <3>1, <3>3, <4>1
      <4>3. q[i] \in Nat
        BY <3>4
      <4>. QED  BY <1>4, <4>2, <4>3
    <3>6. ASSUME NEW i \in 1 .. Len(t), NEW j \in 1 .. Len(t), i < j PROVE t[i] < t[j]
      <4>1. i \in 1 .. Len(q) /\ t[i] = q[i]
        BY <3>1, <3>2, <3>6
      <4>2. CASE j \in 1 .. Len(q)
        BY <3>2, <3>3, <3>6, <4>1, <4>2
      <4>3. CASE j = Len(q) + 1
        BY <3>2, <3>5, <4>1, <4>3
      <4>. QED  BY <3>1, <3>2, <4>2, <4>3
    <3>. QED  BY <3>2, <3>6 DEF t
  <2>. QED  BY <1>2, <1>6, <2>4, <2>5 DEF Remembered
<1>. QED  BY <1>1, <1>3, <1>5, <1>7, <1>8

LEMMA RunData == RunInv /\ SaveData => RunInv' /\ Kept' = Kept
<1>. SUFFICES ASSUME RunInv, SaveData PROVE RunInv' /\ Kept' = Kept
  OBVIOUS
<1>. USE DEF RunInv
<1>1. JobInv'
  BY JobData
<1>2. /\ pc = "data" /\ pc' = "open" /\ tracker' = tracker /\ shard' = shard
      /\ saved' = saved /\ step' = step /\ weights' = weights /\ trainer' = trainer
      /\ used' = used /\ data' = [data EXCEPT ![step] = [state |-> "whole", of |-> used]]
  BY DEF SaveData, managerVars, loop, job
<1>3. Updated' /\ Order' /\ (\A r \in Roles : keep'[r] # 1)
  BY SaveLoop DEF SaveData, managerVars, Saving
<1>4. step \in 1 .. MaxStep /\ tracker.step < step /\ tracker.step \in Nat
  BY <1>2, StepType DEF JobInv, Steps, Running, Saving, PCs, TypeOK
<1>5. /\ data'[step] = [state |-> "whole", of |-> used]
      /\ \A s \in (1 .. MaxStep) \ {step} : data'[s] = data[s]
  BY <1>2, <1>4 DEF JobInv, TypeOK
<1>6. TrackerFiles' /\ Kept' = Kept
  <2>1. tracker.state # "none" => tracker.step \in (1 .. MaxStep) \ {step}
    BY <1>4 DEF JobInv, Steps, TypeOK
  <2>. QED  BY <1>2, <1>5, <2>1, TrackerSame
<1>7. \A r \in Roles : (Ready(r))' = Ready(r) /\ (Complete(r))' = Complete(r)
  BY <1>2 DEF Ready, Complete
<1>8. StepFiles'
  BY <1>2, <1>5, <1>7 DEF StepFiles
<1>9. Remembered'
  BY <1>2, <1>7 DEF Remembered
<1>. QED  BY <1>1, <1>3, <1>6, <1>8, <1>9

(* Opening the tracker makes the step in training the checkpoint.          *)
LEMMA RunOpen == RunInv /\ OpenTracker => RunInv' /\ Kept' = weights["critic"]
<1>. SUFFICES ASSUME RunInv, OpenTracker PROVE RunInv' /\ Kept' = weights["critic"]
  OBVIOUS
<1>. USE DEF RunInv
<1>1. JobInv'
  BY JobOpen
<1>2. /\ pc = "open" /\ pc' = "number" /\ tracker'.state = "empty" /\ tracker'.step = step
      /\ shard' = shard /\ data' = data /\ saved' = saved /\ step' = step
      /\ weights' = weights /\ trainer' = trainer /\ used' = used
  BY DEF OpenTracker, managerVars, loop, job
<1>3. Updated' /\ Order' /\ (\A r \in Roles : keep'[r] # 1)
  BY SaveLoop DEF OpenTracker, managerVars, Saving
<1>4. \A r \in Roles : /\ Loadable(r, step) /\ SameState(r, step)
                       /\ Content(r, step) = weights[r]
  BY <1>2, CompleteIsCheckpoint DEF StepFiles, Ready
<1>5. Checkpoint(step)
  <2>1. \A r \in Roles : Len(weights[r]) = Updates(r, step)
    BY <1>2 DEF Updated, Saving
  <2>2. Ahead(used, weights["critic"])
    BY <1>2 DEF Order, Saving
  <2>3. data[step].state = "whole" /\ data[step].of = used
    BY <1>2 DEF StepFiles
  <2>. QED  BY <1>4, <2>1, <2>2, <2>3, TrainerAssumption DEF Checkpoint
<1>6. TrackerFiles' /\ Kept' = weights["critic"]
  <2>1. PICK s : s = step
    OBVIOUS
  <2>2. (Checkpoint(s))' /\ (Content("critic", s))' = weights["critic"]
    BY <1>2, <1>4, <1>5, <2>1, CheckpointSame, TrainerAssumption
  <2>3. /\ (Checkpoint(tracker.step))' = (Checkpoint(s))'
        /\ (Content("critic", tracker.step))' = (Content("critic", s))'
    BY <1>2, <2>1 DEF Checkpoint, Loadable, SameState, Content, Ahead, Updates
  <2>. QED  BY <1>2, <2>2, <2>3 DEF TrackerFiles, Kept
<1>7. StepFiles'
  BY <1>2 DEF StepFiles, Ready
<1>8. Remembered'
  <2>1. \A r \in Roles : Ready(r) /\ ~(Ready(r))'
    BY <1>2 DEF Ready
  <2>. QED  BY <1>2, <2>1 DEF Remembered
<1>. QED  BY <1>1, <1>3, <1>6, <1>7, <1>8

LEMMA RunNumber == RunInv /\ WriteTracker => RunInv' /\ Kept' = Kept
<1>. SUFFICES ASSUME RunInv, WriteTracker PROVE RunInv' /\ Kept' = Kept
  OBVIOUS
<1>. USE DEF RunInv
<1>1. JobInv'
  BY JobNumber
<1>2. /\ pc = "number" /\ pc' = "advance" /\ tracker'.state = "whole"
      /\ tracker'.step = step /\ shard' = shard /\ data' = data /\ saved' = saved
      /\ step' = step /\ weights' = weights /\ trainer' = trainer
  BY DEF WriteTracker, managerVars, loop, job
<1>3. Updated' /\ Order' /\ (\A r \in Roles : keep'[r] # 1)
  BY SaveLoop DEF WriteTracker, managerVars, Saving
<1>4. tracker.step = step /\ tracker.state # "none"
  <2>1. tracker.step = step /\ step \in 1 .. MaxStep
    BY <1>2, StepType DEF StepFiles, Saving
  <2>. QED  BY <2>1 DEF JobInv, Steps
<1>5. TrackerFiles' /\ Kept' = Kept
  <2>1. PICK s : s = step
    OBVIOUS
  <2>2. /\ Checkpoint(s) => (Checkpoint(s))'
        /\ (Content("critic", s))' = Content("critic", s)
    BY <1>2, CheckpointSame, TrainerAssumption
  <2>3. /\ (Checkpoint(tracker.step))' = (Checkpoint(s))'
        /\ (Content("critic", tracker.step))' = (Content("critic", s))'
        /\ Checkpoint(tracker.step) = Checkpoint(s)
        /\ Content("critic", tracker.step) = Content("critic", s)
    BY <1>2, <1>4, <2>1 DEF Checkpoint, Loadable, SameState, Content, Ahead, Updates
  <2>. QED  BY <1>2, <1>4, <2>2, <2>3 DEF TrackerFiles, Kept
<1>6. StepFiles'
  BY <1>2 DEF StepFiles, Ready
<1>7. Remembered'
  <2>1. \A r \in Roles : ~Ready(r) /\ ~(Ready(r))'
    BY <1>2 DEF Ready
  <2>. QED  BY <1>2, <1>4, <2>1 DEF Remembered
<1>. QED  BY <1>1, <1>3, <1>5, <1>6, <1>7

(* A kill while a role was writing its shards, or its dataloader, leaves   *)
(* half a file in the step in training, which the tracker does not name.   *)
LEMMA RunCrash == RunInv /\ Crash => RunInv' /\ Kept' = Kept
<1>. SUFFICES ASSUME RunInv, Crash PROVE RunInv' /\ Kept' = Kept
  OBVIOUS
<1>. USE DEF RunInv
<1>1. JobInv'
  BY JobCrash
<1>2. pc' = "down" /\ tracker' = tracker /\ trainer' = trainer /\ role \in Roles
  BY DEF Crash, job, JobInv, TypeOK
<1>3. pc \in {"shards", "data"} =>
        step \in 1 .. MaxStep /\ tracker.step < step /\ tracker.step \in Nat
  BY StepType DEF JobInv, Steps, Running, Saving, PCs, TypeOK
<1>4. tracker.state # "none" => tracker.step \in 1 .. MaxStep
  BY DEF JobInv, Steps, TypeOK
<1>5. tracker.state # "none" => data'[tracker.step] = data[tracker.step]
  <2>1. CASE data' = data
    BY <2>1
  <2>2. CASE pc = "data" /\ data' = [data EXCEPT ![step] = [state |-> "torn", of |-> 0]]
    BY <1>3, <1>4, <2>2 DEF JobInv, TypeOK
  <2>. QED  BY <2>1, <2>2, CrashEffect
<1>6. /\ tracker.state # "none" =>
           \A r \in Roles : shard'[r][tracker.step] = shard[r][tracker.step]
      /\ saved' = [r \in Roles |-> << >>] /\ keep' = keep
  <2>1. PICK s \in 1 .. MaxStep : \E writing :
          /\ ManagerCrash(role, s, writing)
          /\ (s = step /\ pc = "shards") \/ writing = {}
    BY CrashEffect
  <2>2. PICK writing : /\ ManagerCrash(role, s, writing)
                       /\ (s = step /\ pc = "shards") \/ writing = {}
    BY <2>1
  <2>3. PICK half \in SUBSET writing :
          shard' = [shard EXCEPT ![role][s] =
                      [k \in Ranks |-> IF k \in half THEN Torn ELSE shard[role][s][k]]]
    BY <2>2 DEF ManagerCrash
  <2>4. /\ shard \in [Roles -> RoleShards] /\ shard[role] \in RoleShards
        /\ shard[role][s] \in StepShards
    BY <1>2, ShardType DEF JobInv
  <2>5. /\ \A r \in Roles \ {role} : shard'[r] = shard[r]
        /\ \A t \in (1 .. MaxStep) \ {s} : shard'[role][t] = shard[role][t]
        /\ shard'[role][s] = [k \in Ranks |-> IF k \in half THEN Torn ELSE shard[role][s][k]]
    BY <1>2, <2>3, <2>4 DEF RoleShards
  <2>6. CASE s = step /\ pc = "shards"
    BY <1>3, <1>4, <2>2, <2>5, <2>6 DEF ManagerCrash
  <2>7. CASE writing = {}
    <3>1. half = {}
      BY <2>7
    <3>2. shard'[role][s] = shard[role][s]
      BY <2>4, <2>5, <3>1 DEF StepShards
    <3>. QED  BY <1>4, <2>2, <2>5, <3>2 DEF ManagerCrash
  <2>. QED  BY <2>2, <2>6, <2>7
<1>7. TrackerFiles' /\ Kept' = Kept
  BY <1>2, <1>5, <1>6, TrackerSame
<1>8. StepFiles' /\ Updated' /\ Order'
  BY <1>2 DEF StepFiles, Ready, Updated, Order, Saving
<1>9. Remembered'
  BY <1>2, <1>6 DEF Remembered
<1>. QED  BY <1>1, <1>6, <1>7, <1>8, <1>9

LEMMA RunStep == RunInv /\ [Next]_vars => RunInv'
<1>1. ASSUME RunInv, UNCHANGED vars PROVE RunInv'
  <2>1. JobInv'
    BY <1>1, JobStep DEF RunInv
  <2>2. StepFiles' /\ TrackerFiles'
    BY <1>1 DEF RunInv, vars, managerVars, files, job, loop, StepFiles, TrackerFiles,
                Ready, Complete, Checkpoint, Loadable, SameState, Content, Updates, Ahead
  <2>3. Remembered' /\ Updated' /\ (\A r \in Roles : keep'[r] # 1)
    BY <1>1 DEF RunInv, vars, managerVars, files, job, loop, Remembered, Ready, Updated,
                Updates
  <2>4. Order'
    BY <1>1 DEF RunInv, vars, managerVars, files, job, loop, Order, Ahead, Prefetching,
                IsLast, LastTrained
  <2>. QED  BY <2>1, <2>2, <2>3, <2>4 DEF RunInv
<1>. QED  BY <1>1, RunStart, RunGenerate, RunFirst, RunTake, RunTrain, RunRotate, RunShard,
             RunRole, RunData, RunOpen, RunNumber, RunAdvance, RunCrash
          DEF Next, Step, Stuck, Finished

LEMMA SafetyRun == 1 \notin Keeps /\ SafetySpec => []RunInv
<1>. SUFFICES ASSUME 1 \notin Keeps PROVE SafetySpec => []RunInv
  OBVIOUS
<1>1. Init => RunInv
  BY InitRun
<1>. QED  BY <1>1, RunStep, PTL DEF SafetySpec

(* Unless one checkpoint only is kept, a checkpoint that the tracker names *)
(* is complete, in every configuration and wherever _save_checkpoint was   *)
(* killed: all ranks of all roles have their shards, from one update, and  *)
(* the state of the dataloader is there.                                   *)
THEOREM SpecTrackerNamesWhole == 1 \notin Keeps /\ SafetySpec => []TrackerNamesWhole
<1>1. RunInv => TrackerNamesWhole
  BY DEF RunInv, TrackerFiles, Checkpoint, TrackerNamesWhole
<1>. QED  BY <1>1, SafetyRun, PTL

-----------------------------------------------------------------------------
(* The refinement of atomic checkpoints.                                   *)

LEMMA RunRefines == RunInv /\ [Next]_vars => [Atomic!RunNext]_(Atomic!run)
<1>. SUFFICES ASSUME RunInv, [Next]_vars PROVE [Atomic!RunNext]_(Atomic!run)
  OBVIOUS
<1>. DEFINE trained == IF pc = "down" THEN Kept ELSE weights["critic"]
            stutter == trained' = trained /\ Kept' = Kept /\ trainer' = trainer
<1>1. stutter => UNCHANGED Atomic!run
  BY DEF Atomic!run
<1>2. CASE Start
  <2>1. pc = "down" /\ pc' # "down" /\ trainer' = trainer
    BY <1>2 DEF Start, Enter, job
  <2>. QED  BY <1>1, <1>2, <2>1, RunStart
<1>3. CASE Generate \/ First \/ Take \/ Advance
  <2>1. /\ pc # "down" /\ pc' # "down" /\ trainer' = trainer /\ weights' = weights
    BY <1>3 DEF Generate, First, Take, Advance, job
  <2>. QED  BY <1>1, <1>3, <2>1, RunGenerate, RunFirst, RunTake, RunAdvance
<1>4. CASE Train
  <2>1. pc # "down" /\ pc' # "down" /\ trainer' = trainer
    BY <1>4 DEF Train, job
  <2>2. Atomic!Train
    BY <1>4, <2>1, RunTrain DEF Atomic!Train, LastTrained
  <2>. QED  BY <2>2 DEF Atomic!RunNext
<1>5. CASE SaveRotate \/ (\E k \in Ranks : SaveShard(k)) \/ SaveRole \/ SaveData \/ WriteTracker
  <2>1. /\ pc # "down" /\ pc' # "down" /\ trainer' = trainer /\ weights' = weights
    BY <1>5 DEF SaveRotate, SaveShard, SaveRole, SaveData, WriteTracker, job, loop
  <2>. QED  BY <1>1, <1>5, <2>1, RunRotate, RunShard, RunRole, RunData, RunNumber
<1>6. CASE OpenTracker
  <2>1. /\ pc # "down" /\ pc' # "down" /\ trainer' = trainer /\ weights' = weights
    BY <1>6 DEF OpenTracker, job, loop
  <2>2. Atomic!Checkpoint
    BY <1>6, <2>1, RunOpen DEF Atomic!Checkpoint
  <2>. QED  BY <2>2 DEF Atomic!RunNext
<1>7. CASE Crash
  <2>1. pc # "down" /\ pc' = "down" /\ trainer' = trainer
    BY <1>7 DEF Crash, job
  <2>2. Atomic!Restart
    BY <1>7, <2>1, RunCrash DEF Atomic!Restart
  <2>. QED  BY <2>2 DEF Atomic!RunNext
<1>8. CASE UNCHANGED vars
  <2>1. stutter
    BY <1>8 DEF vars, managerVars, files, job, loop, Kept, Content
  <2>. QED  BY <1>1, <2>1
<1>. QED  BY <1>2, <1>3, <1>4, <1>5, <1>6, <1>7, <1>8 DEF Next, Step, Stuck, Finished

(* Unless one checkpoint only is kept, files, ranks, rotation and tracker  *)
(* implement atomic checkpoints: however often the job is killed, and in   *)
(* the middle of whichever write, it goes on from the batches of the       *)
(* latest checkpoint, in their order, and the synchronous trainer skips    *)
(* none.                                                                   *)
THEOREM SpecImplementsRun == 1 \notin Keeps /\ SafetySpec => ImplementsRun
<1>. SUFFICES ASSUME 1 \notin Keeps PROVE SafetySpec => ImplementsRun
  OBVIOUS
<1>1. Init => Atomic!RunInit
  BY TrainerAssumption DEF Init, Atomic!RunInit, Kept
<1>2. RunInv /\ [Next]_vars => [Atomic!RunNext]_(Atomic!run)
  BY RunRefines
<1>3. SafetySpec => []RunInv
  BY SafetyRun
<1>. QED  BY <1>1, <1>2, <1>3, PTL DEF SafetySpec, ImplementsRun, Atomic!RunSpec
===============================================================================
