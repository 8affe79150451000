-------------------------------- MODULE Gae --------------------------------
(***************************************************************************)
(* compute_gae_advantage_return of core_algos.py: generalised advantage    *)
(* estimation over responses in which tool and user tokens (response_mask  *)
(* 0) lie between the model's own.  Whitening is left out.                 *)
(***************************************************************************)
EXTENDS Integers, Sequences

(* Mutant: an observation token's value is bootstrapped from.              *)
GaeNoSkip(reward, value, mask, gamma, lam) ==
  LET walk[t \in 1 .. Len(mask) + 1] ==
        IF t > Len(mask) THEN [next |-> 0, last |-> 0]
        ELSE LET after == walk[t + 1]
                 delta == reward[t] + gamma * after.next - value[t]
             IN  [next |-> value[t],
                  last |-> IF mask[t] = 1 THEN delta + gamma * lam * after.last
                           ELSE after.last]
  IN  [t \in 1 .. Len(mask) |-> walk[t].last]

(* The advantages, from the last token to the first: next is nextvalues,   *)
(* last is lastgaelam, and an observation token passes both on.            *)
Gae(reward, value, mask, gamma, lam) ==
  LET walk[t \in 1 .. Len(mask) + 1] ==
        IF t > Len(mask) THEN [next |-> 0, last |-> 0]
        ELSE LET after == walk[t + 1]
                 delta == reward[t] + gamma * after.next - value[t]
             IN  IF mask[t] = 1
                 THEN [next |-> value[t], last |-> delta + gamma * lam * after.last]
                 ELSE after
  IN  [t \in 1 .. Len(mask) |-> walk[t].last]
=============================================================================
