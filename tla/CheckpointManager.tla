------------------------- MODULE CheckpointManager -------------------------
(***************************************************************************)
(* The checkpoint managers of the worker groups                            *)
(* (utils/checkpoint/fsdp_checkpoint_manager.py): every rank of a role     *)
(* writes its own shards to global_step_N/<role>, behind a barrier, after  *)
(* rank 0 has removed what exceeds max_ckpt_to_keep.  A shard stands for   *)
(* the model, optimizer and extra state of a rank; its content is what the *)
(* role was trained on.                                                    *)
(***************************************************************************)
EXTENDS Integers, Sequences, FiniteSets

CONSTANTS Roles,    \* worker groups that are saved: actor and critic
          Ranks,    \* of each of them
          MaxStep   \* bound: the steps a run reaches

VARIABLES shard,  \* files: per role, step and rank
          saved,  \* previous_saved_paths, of rank 0 of each role
          left,   \* ranks that have not written their shard of this step
          keep    \* max_actor_ckpt_to_keep, max_critic_ckpt_to_keep; 0: no limit

managerVars == <<shard, saved, left, keep>>

-----------------------------------------------------------------------------

None == [state |-> "none", of |-> << >>]
Torn == [state |-> "torn", of |-> << >>]
Whole(of) == [state |-> "whole", of |-> of]

ManagerInit ==
  /\ shard = [r \in Roles |-> [s \in 1 .. MaxStep |-> [k \in Ranks |-> None]]]
  /\ saved = [r \in Roles |-> << >>]
  /\ left = {}

(* Mutant: room is made for the new one, and for one more.                 *)
ExcessOneMore(r) ==
  IF keep[r] > 0 /\ Len(saved[r]) >= keep[r] THEN Len(saved[r]) - keep[r] + 2 ELSE 0

(* keep_start: how many of the previous ones go when one more is saved.    *)
Excess(r) ==
  IF keep[r] > 0 /\ Len(saved[r]) >= keep[r] THEN Len(saved[r]) - keep[r] + 1 ELSE 0

(* save_checkpoint() up to its first barrier.                              *)
Rotate(r) ==
  LET gone == {saved[r][i] : i \in 1 .. Excess(r)}
  IN  /\ shard' = [shard EXCEPT ![r] =
                     [s \in 1 .. MaxStep |->
                        IF s \in gone THEN [k \in Ranks |-> None] ELSE shard[r][s]]]
      /\ saved' = [saved EXCEPT ![r] = SubSeq(saved[r], Excess(r) + 1, Len(saved[r]))]
      /\ left' = Ranks
      /\ UNCHANGED keep

(* A rank writes its files, behind the barrier.                            *)
WriteShard(r, s, k, of) ==
  /\ k \in left
  /\ left' = left \ {k}
  /\ shard' = [shard EXCEPT ![r][s][k] = Whole(of)]
  /\ UNCHANGED <<saved, keep>>

(* Behind the second barrier.                                              *)
Saved(r, s) ==
  /\ left = {}
  /\ saved' = [saved EXCEPT ![r] = Append(@, s)]
  /\ UNCHANGED <<shard, left, keep>>

(* load_checkpoint(): every rank reads its own files and raises when they  *)
(* are not there.                                                          *)
Loadable(r, s) == \A k \in Ranks : shard[r][s][k].state = "whole"

(* The ranks load one state only if they wrote one state.                  *)
SameState(r, s) == \A j, k \in Ranks : shard[r][s][j] = shard[r][s][k]
Content(r, s) == shard[r][s][CHOOSE k \in Ranks : TRUE].of

(* The workers are gone, in the middle of their writes: any of the ranks   *)
(* that were writing may leave half a file.                                *)
ManagerCrash(r, s, writing) ==
  /\ saved' = [q \in Roles |-> << >>]
  /\ left' = {}
  /\ \E half \in SUBSET writing :
       shard' = [shard EXCEPT ![r][s] =
                   [k \in Ranks |-> IF k \in half THEN Torn ELSE shard[r][s][k]]]
  /\ UNCHANGED keep
=============================================================================
