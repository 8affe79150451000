---------------------------- MODULE MCBatchFlow ----------------------------
(* Batches and worker groups for TLC: ranks that need different numbers of *)
(* micro-batches, and ranks of two workers.                                *)
EXTENDS BatchFlow

TriedShapes == {[rows |-> 6, lens |-> {2, 3}, dp |-> 2, sp |-> 1],
                [rows |-> 4, lens |-> {2, 3, 5}, dp |-> 1, sp |-> 2],
                [rows |-> 4, lens |-> {3, 6}, dp |-> 2, sp |-> 2]}
=============================================================================
