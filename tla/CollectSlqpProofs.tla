-------------------------- MODULE CollectSlqpProofs --------------------------
(***************************************************************************)
(* Proofs about module CollectSlqp, for every dataset, every number of     *)
(* samples and every number of kills, torn files included.                 *)
(***************************************************************************)
EXTENDS CollectSlqp, FiniteSetTheorems, TLAPS

-----------------------------------------------------------------------------

(* The inductive invariant.  The rows that were answered:                  *)
Answered == responses \cup rejected

(* a rejected row that is still in responses.jsonl is one to be rejected   *)
(* again: the run was killed between the two files;                        *)
RejectedInv == responses \cap rejected \subseteq degenerate

(* while generate() runs, what it still has to send continues the order    *)
(* without a gap and does not exceed what is missing;                      *)
WorkInv ==
  /\ stage = "answer" =>
       /\ work \cap Answered = {}
       /\ \A c \in work : \A b \in Usable : b < c => b \in Answered \cup work
       /\ \A c \in work : Cardinality(responses \cup {b \in work : b <= c}) <= Wanted
  /\ stage = "reject" => work \subseteq degenerate
  /\ stage = "unlink" => work \cap responses = {}

(* from the cleaning on, the rows are all there and good, then the hidden  *)
(* files are exactly theirs, then the manifest is;                         *)
Good == Cardinality(responses) = Wanted /\ degenerate = {}
HiddenOf(ids) == \A c \in ids : hidden[c] = "whole"
NoStray == \A c \in Ids \ responses : hidden[c] = "none"

StageInv ==
  /\ stage \in {"clean", "hidden", "package", "publish", "complete"} => Good
  /\ stage \in {"hidden", "package", "publish", "complete"} => NoStray
  /\ stage = "hidden" => HiddenOf(done)
  /\ stage \in {"package", "publish", "complete"} =>
       HiddenOf(responses) /\ manifest.rows = responses

(* and once there is an archive, nothing it was made of changes any more.  *)
ArchiveInv ==
  archive # NoArchive =>
    /\ stage \notin {"answer", "reject", "unlink"}
    /\ Good /\ HiddenOf(responses)
    /\ archive = [rows |-> responses, manifest |-> responses,
                  hidden |-> responses, rejected |-> rejected]

IInv == /\ TypeOK /\ SeededOrder /\ RejectedInv
        /\ WorkInv /\ StageInv /\ ArchiveInv

-----------------------------------------------------------------------------

(* Sets of prompts are finite, and counting them is monotone.              *)
LEMMA Counting ==
  ASSUME NEW S \in SUBSET Usable, NEW T \in SUBSET S
  PROVE  /\ IsFiniteSet(S) /\ Cardinality(S) \in Nat
         /\ IsFiniteSet(T) /\ Cardinality(T) \in Nat
         /\ Cardinality(T) <= Cardinality(S)
<1>1. IsFiniteSet(1 .. Pool)
  BY CollectAssumption, FS_Interval
<1>2. IsFiniteSet(S)
  BY <1>1, FS_Subset DEF Usable, Ids
<1>. QED  BY <1>2, FS_Subset, FS_CardinalityType

(* One more prompt makes one more.                                         *)
LEMMA OneMore ==
  ASSUME NEW S \in SUBSET Usable, NEW c \in Usable \ S
  PROVE  Cardinality(S \cup {c}) = Cardinality(S) + 1
BY Counting, FS_AddElement

(* FirstUsable leaves no gap.                                              *)
LEMMA FirstUsableClosed ==
  ASSUME NEW n \in Nat, NEW taken, NEW c \in FirstUsable(n, taken),
         NEW b \in Usable \ taken, b < c
  PROVE  b \in FirstUsable(n, taken)
<1>. DEFINE upTo(x) == {d \in Usable \ taken : d <= x}
<1>1. upTo(b) \subseteq upTo(c) /\ upTo(c) \subseteq Usable
  BY CollectAssumption DEF FirstUsable, Usable, Ids
<1>2. Cardinality(upTo(b)) <= Cardinality(upTo(c)) /\ Cardinality(upTo(b)) \in Nat
      /\ Cardinality(upTo(c)) \in Nat
  BY <1>1, Counting
<1>3. Cardinality(upTo(c)) <= n
  BY DEF FirstUsable
<1>. HIDE DEF upTo
<1>4. Cardinality(upTo(b)) <= n
  BY <1>2, <1>3
<1>. QED  BY <1>4 DEF FirstUsable, upTo

(* Up to each of its members, FirstUsable has no more than it is asked for.*)
LEMMA FirstUsableBound ==
  ASSUME NEW n \in Nat, NEW taken, NEW c \in FirstUsable(n, taken)
  PROVE  Cardinality({b \in FirstUsable(n, taken) : b <= c}) <= n
<1>. DEFINE upTo == {d \in Usable \ taken : d <= c}
            own == {b \in FirstUsable(n, taken) : b <= c}
<1>1. own \subseteq upTo /\ upTo \subseteq Usable
  BY DEF FirstUsable
<1>2. /\ Cardinality(own) <= Cardinality(upTo)
      /\ Cardinality(own) \in Nat /\ Cardinality(upTo) \in Nat
  BY <1>1, Counting
<1>3. Cardinality(upTo) <= n
  BY DEF FirstUsable
<1>. QED  BY <1>2, <1>3

(* What generate() sends continues the order and fits what is missing.     *)
LEMMA PendingWork ==
  ASSUME TypeOK, Cardinality(responses) < Wanted
  PROVE  /\ Pending \subseteq Usable /\ Pending \cap Answered = {}
         /\ \A c \in Pending : \A b \in Usable : b < c => b \in Answered \cup Pending
         /\ \A c \in Pending :
              Cardinality(responses \cup {b \in Pending : b <= c}) <= Wanted
<1>. DEFINE n == Wanted - Cardinality(responses)
<1>1. responses \subseteq Usable
  BY DEF TypeOK
<1>2. Cardinality(responses) \in Nat /\ IsFiniteSet(responses)
  BY <1>1, Counting
<1>3. n \in Nat
  BY <1>2, CollectAssumption
<1>4. Pending = FirstUsable(n, Answered)
  BY DEF Pending, Answered
<1>. HIDE DEF n
<1>5. Pending \subseteq Usable /\ Pending \cap Answered = {}
  BY <1>4 DEF FirstUsable
<1>6. ASSUME NEW c \in Pending, NEW b \in Usable, b < c PROVE b \in Answered \cup Pending
  BY <1>3, <1>4, <1>6, FirstUsableClosed
<1>7. ASSUME NEW c \in Pending
      PROVE  Cardinality(responses \cup {b \in Pending : b <= c}) <= Wanted
  <2>. DEFINE own == {b \in Pending : b <= c}
  <2>1. Cardinality(own) <= n
    BY <1>3, <1>4, FirstUsableBound
  <2>2. own \subseteq Usable
    BY <1>5
  <2>3. IsFiniteSet(own) /\ Cardinality(own) \in Nat
    BY <2>2, Counting
  <2>4. Cardinality(responses \cap own) \in Nat
    BY <2>2, Counting
  <2>. HIDE DEF own
  <2>5. Cardinality(responses \cup own) =
          Cardinality(responses) + Cardinality(own) - Cardinality(responses \cap own)
    BY <1>2, <2>3, FS_Union
  <2>6. Cardinality(responses \cup own) <= Wanted
    BY <1>2, <2>1, <2>3, <2>4, <2>5, CollectAssumption DEF n
  <2>. QED  BY <2>6 DEF own
<1>. QED  BY <1>5, <1>6, <1>7

(* Every step keeps the strengthening.                                    *)
LEMMA Inductive == IInv /\ [Next]_vars => IInv'
<1>. SUFFICES ASSUME IInv, [Next]_vars PROVE IInv'
  OBVIOUS
<1>. USE CollectAssumption DEF IInv
<1>1. ASSUME Start PROVE IInv'
  <2>1. TypeOK'
    BY <1>1 DEF TypeOK, Start, Stages, Goto, files
  <2>2. SeededOrder'
    BY <1>1 DEF SeededOrder, Start, Goto, files
  <2>3. RejectedInv'
    BY <1>1 DEF RejectedInv, Start, Goto, files
  <2>4. WorkInv'
    BY <1>1 DEF WorkInv, Start, Answered, Goto, files
  <2>5. StageInv'
    BY <1>1 DEF StageInv, Start, Good, HiddenOf, NoStray, Goto, files
  <2>6. ArchiveInv'
    BY <1>1 DEF ArchiveInv, Start, Good, HiddenOf, Goto, files
  <2>. QED  BY <2>1, <2>2, <2>3, <2>4, <2>5, <2>6
<1>2. ASSUME Generate PROVE IInv'
  <2>0. \/ stage' # "answer" /\ work' = {}
        \/ /\ stage' = "answer" /\ work' = Pending
           /\ Pending \subseteq Usable /\ Pending \cap Answered = {}
           /\ \A c \in Pending : \A b \in Usable : b < c => b \in Answered \cup Pending
           /\ \A c \in Pending :
                Cardinality(responses \cup {b \in Pending : b <= c}) <= Wanted
    <3>1. Cardinality(responses) \in Nat
      BY Counting DEF TypeOK
    <3>2. \/ stage' # "answer" /\ work' = {}
          \/ stage' = "answer" /\ work' = Pending /\ Cardinality(responses) < Wanted
      BY <1>2, <3>1 DEF Generate, Goto, Fail
    <3>. QED  BY <3>2, PendingWork
  <2>1. TypeOK'
    BY <1>2, <2>0 DEF TypeOK, Generate, Fail, Goto, files, Stages
  <2>2. SeededOrder'
    BY <1>2 DEF SeededOrder, Generate, Fail, Goto, files
  <2>3. RejectedInv'
    BY <1>2 DEF RejectedInv, Generate, Fail, Goto, files
  <2>4. WorkInv'
    BY <1>2, <2>0 DEF WorkInv, Generate, Fail, Goto, files, Answered
  <2>5. StageInv'
    BY <1>2 DEF StageInv, Generate, Good, HiddenOf, NoStray, Fail, Goto, files
  <2>6. ArchiveInv'
    BY <1>2 DEF ArchiveInv, Generate, Good, HiddenOf, Fail, Goto, files
  <2>. QED  BY <2>1, <2>2, <2>3, <2>4, <2>5, <2>6
<1>3. ASSUME Replay PROVE IInv'
  <2>1. TypeOK'
    BY <1>3 DEF TypeOK, Replay, Stages, Fail, Goto, files, Invalid
  <2>2. SeededOrder'
    BY <1>3 DEF SeededOrder, Replay, Fail, Goto, files, TypeOK, Invalid
  <2>3. RejectedInv'
    BY <1>3 DEF RejectedInv, Replay, Fail, Goto, files, TypeOK, Invalid
  <2>4. WorkInv'
    BY <1>3 DEF WorkInv, Replay, Answered, Fail, Goto, files, TypeOK, Invalid
  <2>5. StageInv'
    BY <1>3 DEF StageInv, Replay, Good, HiddenOf, NoStray, Fail, Goto, files,
                TypeOK, Invalid
  <2>6. ArchiveInv'
    BY <1>3 DEF ArchiveInv, Replay, Good, HiddenOf, Fail, Goto, files, TypeOK,
                Invalid
  <2>. QED  BY <2>1, <2>2, <2>3, <2>4, <2>5, <2>6
<1>4. ASSUME Rewrite PROVE IInv'
  <2>1. TypeOK'
    BY <1>4 DEF TypeOK, Rewrite, Stages, Goto
  <2>2. SeededOrder'
    BY <1>4 DEF SeededOrder, Rewrite, Goto
  <2>3. RejectedInv'
    BY <1>4 DEF RejectedInv, Rewrite, Goto
  <2>4. WorkInv'
    BY <1>4 DEF WorkInv, Rewrite, Answered, Goto
  <2>5. StageInv'
    BY <1>4 DEF StageInv, Rewrite, Good, HiddenOf, NoStray, Goto
  <2>6. ArchiveInv'
    BY <1>4 DEF ArchiveInv, Rewrite, Good, HiddenOf, Goto
  <2>. QED  BY <2>1, <2>2, <2>3, <2>4, <2>5, <2>6
<1>5. ASSUME Cleaned PROVE IInv'
  <2>1. TypeOK'
    BY <1>5 DEF TypeOK, Cleaned, Stages, Goto, files
  <2>2. SeededOrder'
    BY <1>5 DEF SeededOrder, Cleaned, Goto, files
  <2>3. RejectedInv'
    BY <1>5 DEF RejectedInv, Cleaned, Goto, files
  <2>4. WorkInv'
    BY <1>5 DEF WorkInv, Cleaned, Answered, Goto, files
  <2>5. StageInv'
    BY <1>5 DEF StageInv, Cleaned, Good, HiddenOf, NoStray, Goto, files, Stray,
                TypeOK
  <2>6. ArchiveInv'
    BY <1>5 DEF ArchiveInv, Cleaned, Good, HiddenOf, Goto, files
  <2>. QED  BY <2>1, <2>2, <2>3, <2>4, <2>5, <2>6
<1>6. ASSUME WriteManifest PROVE IInv'
  <2>1. TypeOK'
    BY <1>6 DEF TypeOK, WriteManifest, Stages, Goto
  <2>2. SeededOrder'
    BY <1>6 DEF SeededOrder, WriteManifest, Goto
  <2>3. RejectedInv'
    BY <1>6 DEF RejectedInv, WriteManifest, Goto
  <2>4. WorkInv'
    BY <1>6 DEF WorkInv, WriteManifest, Answered, Goto
  <2>5. StageInv'
    BY <1>6 DEF StageInv, WriteManifest, Good, HiddenOf, NoStray, Goto
  <2>6. ArchiveInv'
    BY <1>6 DEF ArchiveInv, WriteManifest, Good, HiddenOf, Goto
  <2>. QED  BY <2>1, <2>2, <2>3, <2>4, <2>5, <2>6
<1>7. ASSUME Package PROVE IInv'
  <2>1. TypeOK'
    BY <1>7 DEF TypeOK, Package, Stages, Fail, Goto, files
  <2>2. SeededOrder'
    BY <1>7 DEF SeededOrder, Package, Fail, Goto, files
  <2>3. RejectedInv'
    BY <1>7 DEF RejectedInv, Package, Fail, Goto, files
  <2>4. WorkInv'
    BY <1>7 DEF WorkInv, Package, Answered, Fail, Goto, files
  <2>5. StageInv'
    BY <1>7 DEF StageInv, Package, Good, HiddenOf, NoStray, Fail, Goto, files
  <2>6. ArchiveInv'
    BY <1>7 DEF ArchiveInv, Package, Good, HiddenOf, Fail, Goto, files
  <2>. QED  BY <2>1, <2>2, <2>3, <2>4, <2>5, <2>6
<1>8. ASSUME Publish PROVE IInv'
  <2>0. archive' = [rows |-> responses, manifest |-> responses,
                    hidden |-> responses, rejected |-> rejected]
    <3>1. manifest.rows = responses /\ HiddenFiles = responses
      BY <1>8 DEF Publish, StageInv, HiddenFiles, HiddenOf, NoStray, TypeOK,
                  Usable
    <3>. QED  BY <1>8, <3>1 DEF Publish
  <2>1. TypeOK'
    BY <1>8, <2>0 DEF TypeOK, Publish, Goto, Stages
  <2>2. SeededOrder'
    BY <1>8 DEF SeededOrder, Publish, Goto
  <2>3. RejectedInv'
    BY <1>8 DEF RejectedInv, Publish, Goto
  <2>4. WorkInv'
    BY <1>8 DEF WorkInv, Publish, Answered, Goto
  <2>5. StageInv'
    BY <1>8 DEF StageInv, Publish, Good, HiddenOf, NoStray, Goto
  <2>6. ArchiveInv'
    BY <1>8, <2>0 DEF ArchiveInv, StageInv, Publish, Goto, Good, HiddenOf
  <2>. QED  BY <2>1, <2>2, <2>3, <2>4, <2>5, <2>6
<1>9. ASSUME Complete PROVE IInv'
  <2>1. TypeOK'
    BY <1>9 DEF TypeOK, Complete, Stages, Goto
  <2>2. SeededOrder'
    BY <1>9 DEF SeededOrder, Complete, Goto
  <2>3. RejectedInv'
    BY <1>9 DEF RejectedInv, Complete, Goto
  <2>4. WorkInv'
    BY <1>9 DEF WorkInv, Complete, Answered, Goto
  <2>5. StageInv'
    BY <1>9 DEF StageInv, Complete, Good, HiddenOf, NoStray, Goto
  <2>6. ArchiveInv'
    BY <1>9 DEF ArchiveInv, Complete, Good, HiddenOf, Goto
  <2>. QED  BY <2>1, <2>2, <2>3, <2>4, <2>5, <2>6
<1>10. ASSUME Crash PROVE IInv'
  <2>0. /\ torn' \subseteq {"responses", "rejected"} /\ rejected' = rejected
        /\ hidden' \in [Ids -> {"none", "old", "torn", "whole"}]
        /\ manifest' \in [state : {"none", "torn", "whole"}, rows : SUBSET Usable]
        /\ complete' \in {"none", "torn", "whole"}
    <3>1. CASE UNCHANGED <<rejected, torn, hidden, manifest, complete>>
      BY <3>1 DEF TypeOK
    <3>2. CASE TornRow \/ TornRejection
      BY <3>2 DEF TornRow, TornRejection, TypeOK
    <3>3. CASE TornHidden
      BY <3>3 DEF TornHidden, TypeOK
    <3>4. CASE TornManifest
      BY <3>4 DEF TornManifest, TypeOK
    <3>5. CASE TornComplete
      BY <3>5 DEF TornComplete, TypeOK
    <3>. QED  BY <1>10, <3>1, <3>2, <3>3, <3>4, <3>5 DEF Crash
  <2>1. TypeOK'
    BY <1>10, <2>0 DEF TypeOK, Crash, Goto, Stages
  <2>2. SeededOrder'
    BY <1>10 DEF SeededOrder, Crash, Goto, TornRow, TornRejection, TornHidden,
                 TornManifest, TornComplete, Reusable, TypeOK
  <2>3. RejectedInv'
    BY <1>10 DEF RejectedInv, Crash, Goto, TornRow, TornRejection, TornHidden,
                 TornManifest, TornComplete, Reusable, TypeOK
  <2>4. WorkInv'
    BY <1>10 DEF WorkInv, Crash, Answered, Goto, TornRow, TornRejection,
                 TornHidden, TornManifest, TornComplete, Reusable, TypeOK
  <2>5. StageInv'
    BY <1>10 DEF StageInv, Crash, Good, HiddenOf, NoStray, Goto, TornRow,
                 TornRejection, TornHidden, TornManifest, TornComplete,
                 Reusable, TypeOK
  <2>6. ArchiveInv'
    BY <1>10 DEF ArchiveInv, Crash, Good, HiddenOf, Goto, TornRow,
                 TornRejection, TornHidden, TornManifest, TornComplete,
                 Reusable, TypeOK
  <2>. QED  BY <2>1, <2>2, <2>3, <2>4, <2>5, <2>6
<1>11. ASSUME NEW c \in Ids, WriteRow(c) PROVE IInv'
  <2>1. TypeOK'
    BY <1>11 DEF TypeOK, WriteRow, Stages, Goto, Least, WorkInv
  <2>2. SeededOrder'
    <3>1. /\ rejected' = rejected /\ responses' = responses \cup {c}
          /\ c \in work /\ \A b \in work : c <= b
          /\ \A b \in Usable : b < c => b \in Answered \cup work
      BY <1>11 DEF WriteRow, Least, WorkInv
    <3>2. ASSUME NEW b \in Usable, b < c PROVE b \in responses \cup rejected
      BY <3>1, <3>2 DEF Answered, Usable, Ids
    <3>. QED  BY <3>1, <3>2 DEF SeededOrder
  <2>3. RejectedInv'
    BY <1>11 DEF RejectedInv, WriteRow, Goto, Least, WorkInv, TypeOK, Answered,
                 Usable
  <2>4. WorkInv'
    <3>1. /\ stage' = "answer" => work' = work \ {c} /\ responses' = responses \cup {c}
          /\ rejected' = rejected /\ stage = "answer" /\ stage' \in {"answer", "replay"}
          /\ c \in work /\ \A b \in work : c <= b
      BY <1>11 DEF WriteRow, Goto, Least
    <3>2. ASSUME stage' = "answer", NEW d \in work'
          PROVE  Cardinality(responses' \cup {b \in work' : b <= d}) <= Wanted
      <4>1. responses' \cup {b \in work' : b <= d} = responses \cup {b \in work : b <= d}
        BY <3>1, <3>2
      <4>. QED  BY <3>1, <3>2, <4>1 DEF WorkInv
    <3>. QED  BY <3>1, <3>2 DEF WorkInv, Answered
  <2>5. StageInv'
    BY <1>11 DEF StageInv, WriteRow, Good, HiddenOf, NoStray, Goto, Least,
                 WorkInv, TypeOK
  <2>6. ArchiveInv'
    BY <1>11 DEF ArchiveInv, WriteRow, Good, HiddenOf, Goto, Least, WorkInv,
                 TypeOK
  <2>. QED  BY <2>1, <2>2, <2>3, <2>4, <2>5, <2>6
<1>12. ASSUME NEW c \in Ids, RejectRow(c) PROVE IInv'
  <2>1. TypeOK'
    BY <1>12 DEF TypeOK, RejectRow, Stages, Least, WorkInv
  <2>2. SeededOrder'
    BY <1>12 DEF SeededOrder, RejectRow, Least, WorkInv, TypeOK
  <2>3. RejectedInv'
    BY <1>12 DEF RejectedInv, RejectRow, Least, WorkInv, TypeOK
  <2>4. WorkInv'
    BY <1>12 DEF WorkInv, RejectRow, Answered, Least, TypeOK
  <2>5. StageInv'
    BY <1>12 DEF StageInv, RejectRow, Good, HiddenOf, NoStray, Least, WorkInv,
                 TypeOK
  <2>6. ArchiveInv'
    BY <1>12 DEF ArchiveInv, RejectRow, Good, HiddenOf, Least, WorkInv, TypeOK
  <2>. QED  BY <2>1, <2>2, <2>3, <2>4, <2>5, <2>6
<1>13. ASSUME NEW c \in Ids, UnlinkRejected(c) PROVE IInv'
  <2>1. TypeOK'
    BY <1>13 DEF TypeOK, UnlinkRejected, Stages, Goto
  <2>2. SeededOrder'
    BY <1>13 DEF SeededOrder, UnlinkRejected, Goto
  <2>3. RejectedInv'
    BY <1>13 DEF RejectedInv, UnlinkRejected, Goto
  <2>4. WorkInv'
    BY <1>13 DEF WorkInv, UnlinkRejected, Answered, Goto
  <2>5. StageInv'
    BY <1>13 DEF StageInv, UnlinkRejected, Good, HiddenOf, NoStray, Goto
  <2>6. ArchiveInv'
    BY <1>13 DEF ArchiveInv, UnlinkRejected, Good, HiddenOf, Goto
  <2>. QED  BY <2>1, <2>2, <2>3, <2>4, <2>5, <2>6
<1>14. ASSUME NEW c \in Ids, UnlinkStray(c) PROVE IInv'
  <2>1. TypeOK'
    BY <1>14 DEF TypeOK, UnlinkStray, Stages, Stray
  <2>2. SeededOrder'
    BY <1>14 DEF SeededOrder, UnlinkStray, Stray, TypeOK
  <2>3. RejectedInv'
    BY <1>14 DEF RejectedInv, UnlinkStray, Stray, TypeOK
  <2>4. WorkInv'
    BY <1>14 DEF WorkInv, UnlinkStray, Answered, Stray, TypeOK
  <2>5. StageInv'
    BY <1>14 DEF StageInv, UnlinkStray, Good, HiddenOf, NoStray, Stray, TypeOK
  <2>6. ArchiveInv'
    BY <1>14 DEF ArchiveInv, UnlinkStray, Good, HiddenOf, Stray, TypeOK
  <2>. QED  BY <2>1, <2>2, <2>3, <2>4, <2>5, <2>6
<1>15. ASSUME NEW c \in Ids, ReplayRow(c) PROVE IInv'
  <2>0. /\ UNCHANGED <<responses, degenerate, rejected, torn, manifest, archive, complete,
                       crashes>>
        /\ stage = "hidden"
        /\ hidden' \in [Ids -> {"none", "old", "torn", "whole"}]
        /\ \/ stage' = "stopped" /\ hidden' = hidden /\ done' = {} /\ work' = {}
           \/ /\ stage' = "hidden" /\ done' = done \cup {c} /\ c \in responses
              /\ hidden'[c] = "whole" /\ \A b \in Ids \ {c} : hidden'[b] = hidden[b]
              /\ work' = work
    <3>1. CASE hidden[c] = "torn"
      BY <1>15, <3>1 DEF ReplayRow, Fail, Goto, files, TypeOK
    <3>2. CASE hidden[c] # "torn"
      BY <1>15, <3>2 DEF ReplayRow, Least, Reusable, TypeOK
    <3>. QED  BY <3>1, <3>2
  <2>1. TypeOK'
    BY <1>15, <2>0 DEF TypeOK, ReplayRow, Fail, Goto, files, Stages
  <2>2. SeededOrder'
    BY <1>15 DEF SeededOrder, ReplayRow, Fail, Least, Goto, files, Reusable,
                 TypeOK, StageInv
  <2>3. RejectedInv'
    BY <1>15 DEF RejectedInv, ReplayRow, Fail, Least, Goto, files, Reusable,
                 TypeOK, StageInv
  <2>4. WorkInv'
    BY <1>15 DEF WorkInv, ReplayRow, Answered, Fail, Least, Goto, files,
                 Reusable, TypeOK, StageInv
  <2>5. StageInv'
    BY <2>0 DEF StageInv, TypeOK, Good, HiddenOf, NoStray, Usable
  <2>6. ArchiveInv'
    BY <1>15 DEF ArchiveInv, ReplayRow, Good, HiddenOf, Fail, Least, Goto,
                 files, Reusable, TypeOK, StageInv
  <2>. QED  BY <2>1, <2>2, <2>3, <2>4, <2>5, <2>6
<1>16. CASE UNCHANGED vars
  BY <1>16 DEF vars, files, TypeOK, SeededOrder, RejectedInv, WorkInv, StageInv,
               ArchiveInv, Good, HiddenOf, NoStray, Answered
<1>. QED  BY <1>1, <1>2, <1>3, <1>4, <1>5, <1>6, <1>7, <1>8, <1>9, <1>10, <1>11,
             <1>12, <1>13, <1>14, <1>15, <1>16 DEF Next, Step

(* It holds of the directories the script may find.                        *)
LEMMA Initial == Init => IInv
<1>. SUFFICES ASSUME Init PROVE IInv
  OBVIOUS
<1>. USE CollectAssumption
<1>1. TypeOK
  <2>1. responses \subseteq Usable
    BY DEF Init, FirstUsable
  <2>2. hidden \in [Ids -> {"none", "old", "torn", "whole"}]
    BY DEF Init
  <2>. QED  BY <2>1, <2>2 DEF Init, TypeOK, Stages, NoArchive
<1>2. SeededOrder
  <2>1. PICK n \in {0, Wanted} : responses = FirstUsable(n, {})
    BY DEF Init
  <2>. QED  BY <2>1, FirstUsableClosed DEF Init, SeededOrder
<1>3. RejectedInv /\ WorkInv /\ StageInv /\ ArchiveInv
  BY DEF Init, RejectedInv, WorkInv, StageInv, ArchiveInv
<1>. QED  BY <1>1, <1>2, <1>3 DEF IInv

(* The strengthening holds throughout.                                     *)
THEOREM SpecIInv == Spec => []IInv
<1>. QED  BY Initial, Inductive, PTL DEF Spec, SafetySpec

(* The files and the process keep their types.                             *)
THEOREM SpecTypeOK == Spec => []TypeOK
<1>1. IInv => TypeOK
  BY DEF IInv
<1>. QED  BY <1>1, SpecIInv, PTL

(* Whenever the script is killed, what is answered is the beginning of the *)
(* seeded order.                                                           *)
THEOREM SpecSeededOrder == Spec => []SeededOrder
<1>1. IInv => SeededOrder
  BY DEF IInv
<1>. QED  BY <1>1, SpecIInv, PTL

(* Every archive that is published is whole.                               *)
THEOREM SpecArchiveWhole == Spec => []ArchiveWhole
<1>1. IInv => ArchiveWhole
  BY DEF IInv, ArchiveInv, RejectedInv, Good, HiddenOf, ArchiveWhole
<1>. QED  BY <1>1, SpecIInv, PTL

(* No run drops a good response or a whole hidden file of an earlier one.  *)
THEOREM SpecWorkReused == Spec => WorkReused
<1>. DEFINE Reused ==
       /\ responses \ degenerate \subseteq responses' \ degenerate'
       /\ \A c \in responses : hidden[c] = "whole" => hidden'[c] = "whole"
<1>1. IInv /\ [Next]_vars => [Reused]_vars
  <2>. SUFFICES ASSUME IInv, Next PROVE Reused
    BY DEF vars
  <2>1. TypeOK /\ WorkInv
    BY DEF IInv
  <2>2. CASE Start \/ Generate \/ Replay \/ Cleaned \/ WriteManifest \/ Package \/ Publish \/ Complete
    BY <2>2 DEF Start, Generate, Replay, Cleaned, WriteManifest, Package,
                Publish,
                Complete, Fail, files
  <2>3. CASE Rewrite
    BY <2>1, <2>3 DEF Rewrite, WorkInv
  <2>4. CASE Crash
    <3>1. responses' = responses /\ degenerate' = degenerate
      BY <2>4 DEF Crash
    <3>2. hidden' = hidden \/ TornHidden
      BY <2>4 DEF Crash, TornRow, TornRejection, TornManifest, TornComplete
    <3>3. \A c \in responses : hidden[c] = "whole" => hidden'[c] = "whole"
      BY <2>1, <3>2 DEF TornHidden, Reusable, TypeOK, Usable
    <3>. QED  BY <3>1, <3>3
  <2>5. ASSUME NEW c \in Ids, WriteRow(c) PROVE Reused
    BY <2>1, <2>5 DEF WriteRow, WorkInv, Least, Answered
  <2>6. ASSUME NEW c \in Ids, RejectRow(c) PROVE Reused
    BY <2>6 DEF RejectRow
  <2>7. ASSUME NEW c \in Ids, UnlinkRejected(c) PROVE Reused
    <3>1. c \notin responses
      BY <2>1, <2>7 DEF UnlinkRejected, WorkInv
    <3>. QED  BY <2>1, <2>7, <3>1 DEF UnlinkRejected, TypeOK
  <2>8. ASSUME NEW c \in Ids, UnlinkStray(c) PROVE Reused
    BY <2>1, <2>8 DEF UnlinkStray, Stray, TypeOK
  <2>9. ASSUME NEW c \in Ids, ReplayRow(c) PROVE Reused
    <3>1. CASE hidden[c] = "torn"
      BY <2>9, <3>1 DEF ReplayRow, Fail, files
    <3>2. CASE hidden[c] # "torn"
      BY <2>1, <2>9, <3>2 DEF ReplayRow, Reusable, TypeOK, Usable
    <3>. QED  BY <3>1, <3>2
  <2>. QED  BY <2>2, <2>3, <2>4, <2>5, <2>6, <2>7, <2>8, <2>9 DEF Next, Step
<1>. QED  BY <1>1, SpecIInv, PTL DEF Spec, SafetySpec, WorkReused

(* A published archive stays as it is.                                     *)
THEOREM SpecArchiveFinal == Spec => ArchiveFinal
<1>1. IInv /\ [Next]_vars => [archive # NoArchive => archive' = archive]_vars
  <2>. SUFFICES ASSUME IInv, IInv', Next, archive # NoArchive PROVE archive' = archive
    BY Inductive DEF vars
  <2>1. CASE Publish
    <3>1. ArchiveInv /\ ArchiveInv' /\ responses' = responses /\ rejected' = rejected
      BY <2>1 DEF IInv, Publish
    <3>2. archive' # NoArchive
      <4>1. Cardinality(responses) = Wanted /\ Wanted # 0
        BY <3>1, CollectAssumption DEF ArchiveInv, Good
      <4>2. responses # {}
        BY <4>1, FS_EmptySet
      <4>. QED  BY <2>1, <4>2 DEF Publish, NoArchive
    <3>. QED  BY <3>1, <3>2 DEF ArchiveInv
  <2>2. CASE ~Publish
    <3>1. CASE Start \/ Generate \/ Replay \/ Rewrite \/ Cleaned \/ WriteManifest \/ Package
              \/ Complete \/ Crash
      BY <3>1 DEF Start, Generate, Replay, Rewrite, Cleaned, WriteManifest,
                  Package,
                  Complete, Crash, Fail, files
    <3>2. ASSUME NEW c \in Ids, WriteRow(c) \/ RejectRow(c) \/ UnlinkRejected(c)
                                \/ UnlinkStray(c) \/ ReplayRow(c)
          PROVE  archive' = archive
      BY <3>2 DEF WriteRow, RejectRow, UnlinkRejected, UnlinkStray, ReplayRow,
                  Fail, files
    <3>. QED  BY <2>2, <3>1, <3>2 DEF Next, Step
  <2>. QED  BY <2>1, <2>2
<1>. QED  BY <1>1, SpecIInv, PTL DEF Spec, SafetySpec, ArchiveFinal

(* The walk counts as the script does.                                     *)
LEMMA SameCount == \A S : Collection!Cardinality(S) = Cardinality(S)
BY DEF Collection!Cardinality, Cardinality

(* The three processes, their files, the kills and the reruns implement    *)
(* the walk over the prompts.                                              *)
THEOREM SpecImplementsWalk == Spec => ImplementsWalk
<1>. USE DEF Collection!Usable, Usable, Ids
<1>1. Init => Collection!WalkInit
  <2>. SUFFICES ASSUME Init PROVE Collection!WalkInit
    OBVIOUS
  <2>1. TypeOK /\ SeededOrder
    BY Initial DEF IInv
  <2>2. /\ responses \ rejected = responses /\ responses \subseteq Usable
        /\ Cardinality(responses) \in {0, Wanted} /\ archive.rows = {} /\ rejected = {}
    BY <2>1 DEF Init, TypeOK, NoArchive
  <2>3. Collection!Walked(responses)
    BY <2>1, <2>2 DEF SeededOrder, Collection!Walked
  <2>. QED  BY <2>2, <2>3, SameCount DEF Collection!WalkInit, Collection!Walked
<1>2. IInv /\ [Next]_vars => [Collection!WalkNext]_(Collection!walk)
  <2>. SUFFICES ASSUME IInv, [Next]_vars PROVE [Collection!WalkNext]_(Collection!walk)
    OBVIOUS
  <2>. USE DEF Collection!walk
  <2>1. TypeOK /\ SeededOrder /\ WorkInv /\ ArchiveInv /\ RejectedInv
    BY DEF IInv
  <2>2. ASSUME UNCHANGED <<responses, rejected, archive>>
        PROVE  UNCHANGED Collection!walk
    BY <2>2
  <2>3. CASE Start \/ Generate \/ Replay \/ Cleaned \/ WriteManifest \/ Package \/ Complete
             \/ Crash \/ UNCHANGED vars
    <3>1. UNCHANGED <<responses, rejected, archive>>
      BY <2>3 DEF Start, Generate, Replay, Cleaned, WriteManifest, Package,
                  Complete, Crash,
                  TornRow, TornRejection, TornHidden, TornManifest, TornComplete,
                  Fail, files, vars
    <3>. QED  BY <2>2, <3>1
  <2>4. ASSUME NEW c \in Ids, UnlinkRejected(c) \/ UnlinkStray(c) \/ ReplayRow(c)
        PROVE  UNCHANGED Collection!walk
    <3>1. UNCHANGED <<responses, rejected, archive>>
      BY <2>4 DEF UnlinkRejected, UnlinkStray, ReplayRow, Fail, files
    <3>. QED  BY <2>2, <3>1
  <2>5. CASE Rewrite
    BY <2>5 DEF Rewrite
  <2>6. CASE Publish
    <3>1. Good /\ responses \cap rejected = {} /\ ArchiveInv'
      BY <2>1, <2>6, Inductive DEF IInv, StageInv, RejectedInv, Publish, Good
    <3>2. responses \ rejected = responses /\ UNCHANGED <<responses, rejected>>
          /\ archive'.rows = responses
      BY <2>6, <3>1 DEF Publish
    <3>3. CASE archive = NoArchive
      BY <3>1, <3>2, <3>3, SameCount DEF Collection!WalkNext,
                                         Collection!Publish, Good, NoArchive
    <3>4. CASE archive # NoArchive
      BY <2>1, <3>2, <3>4 DEF ArchiveInv
    <3>. QED  BY <3>3, <3>4
  <2>7. ASSUME NEW c \in Ids, WriteRow(c) PROVE Collection!Answer(c)
    <3>1. c \in work /\ stage = "answer" /\ archive = NoArchive /\ responses' = responses \cup {c}
      BY <2>1, <2>7 DEF WriteRow, Least, ArchiveInv
    <3>2. c \in Usable \ Answered
      BY <2>1, <3>1 DEF WorkInv, TypeOK
    <3>3. \A b \in Usable : b < c => b \in Answered
      BY <2>1, <2>7, <3>1 DEF WorkInv, WriteRow, Least, TypeOK
    <3>4. Cardinality(responses \ rejected) < Wanted
      <4>. DEFINE upTo == responses \cup {b \in work : b <= c}
      <4>1. /\ upTo \subseteq Usable /\ responses \cup {c} \subseteq upTo
            /\ responses \subseteq Usable
        <5>1. c <= c
          BY CollectAssumption
        <5>. QED  BY <2>1, <3>1, <5>1 DEF TypeOK
      <4>2. Cardinality(upTo) <= Wanted
        BY <2>1, <3>1 DEF WorkInv
      <4>. HIDE DEF upTo
      <4>3. /\ Cardinality(responses \cup {c}) <= Cardinality(upTo)
            /\ Cardinality(responses \cup {c}) \in Nat /\ Cardinality(upTo) \in Nat
        BY <4>1, Counting
      <4>4. /\ Cardinality(responses \ rejected) <= Cardinality(responses)
            /\ Cardinality(responses) \in Nat /\ Cardinality(responses \ rejected) \in Nat
        BY <4>1, Counting
      <4>5. Cardinality(responses \cup {c}) = Cardinality(responses) + 1
        BY <3>2, <4>1, OneMore DEF Answered
      <4>. QED  BY <4>2, <4>3, <4>4, <4>5, CollectAssumption
    <3>5. (responses \ rejected)' = (responses \ rejected) \cup {c}
          /\ rejected' = rejected /\ archive' = archive
      BY <2>7, <3>1, <3>2 DEF WriteRow, Answered
    <3>6. archive.rows = {} /\ (responses \ rejected) \cup rejected = Answered
      BY <3>1 DEF NoArchive, Answered
    <3>. QED  BY <3>2, <3>3, <3>4, <3>5, <3>6, SameCount DEF Collection!Answer
  <2>8. ASSUME NEW c \in Ids, RejectRow(c) PROVE Collection!Reject(c)
    <3>1. c \in work \ rejected /\ stage = "reject" /\ archive = NoArchive
      BY <2>1, <2>8 DEF RejectRow, Least, ArchiveInv
    <3>2. c \in responses
      BY <2>1, <3>1 DEF WorkInv, TypeOK
    <3>. QED  BY <2>8, <3>1, <3>2 DEF RejectRow, Collection!Reject, NoArchive
  <2>. QED  BY <2>2, <2>3, <2>4, <2>5, <2>6, <2>7, <2>8 DEF Next, Step,
                                                            Collection!WalkNext
<1>. QED  BY <1>1, <1>2, SpecIInv, PTL DEF Spec, SafetySpec, ImplementsWalk,
                                           Collection!WalkSpec
=============================================================================
