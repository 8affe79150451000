------------------------- MODULE ResponseCollection -------------------------
(***************************************************************************)
(* What collecting responses for the SLQP calibration promises: a walk     *)
(* over the prompts in one fixed order, every prompt answered at most      *)
(* once, an answer either kept or rejected for good, until the requested   *)
(* number is kept and published.  Files, processes, crashes and restarts   *)
(* are in module CollectSlqp, which implements this one.                   *)
(*                                                                         *)
(* Prompts are numbered by their place in the order of the walk.           *)
(***************************************************************************)
EXTENDS Naturals, FiniteSets

CONSTANTS Pool,     \* prompts of the dataset
          TooLong,  \* prompts longer than max_prompt_tokens
          Wanted    \* samples: how many responses are collected

VARIABLES kept,      \* prompts whose response is part of the collection
          rejected,  \* prompts whose response was found degenerate
          published  \* what was published, {} before

walk == <<kept, rejected, published>>

Usable == (1 .. Pool) \ TooLong

(* The prompts asked so far are the first usable ones of the walk.         *)
Walked(asked) == /\ asked \subseteq Usable
                 /\ \A c \in asked : \A b \in Usable : b < c => b \in asked

-----------------------------------------------------------------------------

(* A collection may continue what an earlier version of the program left.  *)
WalkInit == /\ kept \in {k \in SUBSET Usable : Walked(k) /\ Cardinality(k) \in {0, Wanted}}
            /\ rejected = {}
            /\ published = {}

Answer(c) ==
  /\ published = {}
  /\ Cardinality(kept) < Wanted
  /\ c \in Usable \ (kept \cup rejected)
  /\ \A b \in Usable : b < c => b \in kept \cup rejected
  /\ kept' = kept \cup {c}
  /\ UNCHANGED <<rejected, published>>

Reject(c) ==
  /\ published = {}
  /\ c \in kept
  /\ kept' = kept \ {c}
  /\ rejected' = rejected \cup {c}
  /\ UNCHANGED published

Publish ==
  /\ published = {}
  /\ Cardinality(kept) = Wanted
  /\ published' = kept
  /\ UNCHANGED <<kept, rejected>>

WalkNext == \/ \E c \in 1 .. Pool : Answer(c) \/ Reject(c)
            \/ Publish

WalkSpec == WalkInit /\ [][WalkNext]_walk
=============================================================================
