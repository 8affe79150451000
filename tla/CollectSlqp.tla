---------------------------- MODULE CollectSlqp ----------------------------
(***************************************************************************)
(* The collector of calibration data, collect_slqp_200.py, under the loop  *)
(* of run_collect_slqp_200.sh: generate responses, replay them into hidden *)
(* states, reject degenerate responses and refill, package.  The three     *)
(* stages are processes of their own; all they share is the output         *)
(* directory.  A process may be killed before any of its writes, or, with  *)
(* Tears, in the middle of one; the operator then runs the script again.   *)
(*                                                                         *)
(* A file of rows is the set of its ids: read_existing makes a dictionary. *)
(* Ids are numbered by their place in the seeded permutation of            *)
(* selected_indices.                                                       *)
(***************************************************************************)
EXTENDS Naturals, FiniteSets

CONSTANTS Pool,        \* rows of the dataset
          TooLong,     \* prompts longer than max_prompt_tokens
          Wanted,      \* samples
          MaxCrashes,  \* bound: how often the script is killed
          Tears        \* a kill may leave half of what was being written

ASSUME CollectAssumption ==
  /\ Pool \in Nat /\ Wanted \in Nat \ {0} /\ MaxCrashes \in Nat
  /\ TooLong \subseteq 1 .. Pool
  /\ Tears \in BOOLEAN

VARIABLES
  responses,  \* responses.jsonl
  degenerate, \* those of its rows that have fewer than two kept tokens
  rejected,   \* rejected_responses.jsonl
  torn,       \* which of the two ends in half a line
  hidden,     \* hidden/<id>.npz
  manifest,   \* manifest.json
  archive,    \* download.zip
  complete,   \* COMPLETE.json
  stage,      \* where the script is
  work,       \* of the process: ids it still has to deal with
  done,       \* of replay: rows of the manifest so far
  crashes

files == <<responses, degenerate, rejected, torn, hidden, manifest, archive,
           complete>>
vars == <<files, stage, work, done, crashes>>

Ids == 1 .. Pool
Usable == Ids \ TooLong
NoArchive == [rows |-> {}, manifest |-> {}, hidden |-> {}, rejected |-> {}]

-----------------------------------------------------------------------------

(* The first n usable ids outside a set, in the order of the permutation.  *)
FirstUsable(n, taken) ==
  {c \in Usable \ taken : Cardinality({b \in Usable \ taken : b <= c}) <= n}

Least(c, S) == c \in S /\ \A b \in S : c <= b

(* An empty directory, or the rows of an earlier version of the script,    *)
(* which rejected nothing and wrote hidden files without a                 *)
(* trajectory_feature_version.                                             *)
Init ==
  /\ responses \in {FirstUsable(n, {}) : n \in {0, Wanted}}
  /\ Cardinality(responses) \in {0, Wanted}
  /\ degenerate \in SUBSET responses
  /\ \E old \in SUBSET responses :
       hidden = [c \in Ids |-> IF c \in old THEN "old" ELSE "none"]
  /\ rejected = {} /\ torn = {}
  /\ manifest = [state |-> "none", rows |-> {}]
  /\ archive = NoArchive /\ complete = "none"
  /\ stage = "stopped" /\ work = {} /\ done = {} /\ crashes = 0

(* The next stage; what a process remembers does not outlive it.           *)
Goto(to, ids) == stage' = to /\ work' = ids /\ done' = {}

(* A stage that raises ends the script (set -e, exit $replay_status).      *)
Fail == Goto("stopped", {}) /\ UNCHANGED <<files, crashes>>

Start ==
  /\ stage \in {"stopped", "finished"}
  /\ Goto("generate", {})
  /\ UNCHANGED <<files, crashes>>

-----------------------------------------------------------------------------

(* Mutant: a rejected prompt is asked again.                               *)
PendingAll == FirstUsable(Wanted - Cardinality(responses), responses)

(* Mutant: as if nothing had been collected before.                        *)
PendingAfresh == FirstUsable(Wanted, {})

(* The prompts generate() still has to send.                               *)
Pending == FirstUsable(Wanted - Cardinality(responses), responses \cup rejected)

(* generate() up to its first write: it reads both files, returns when all *)
(* rows are there, and raises when the prompts run out.                    *)
Generate ==
  /\ stage = "generate"
  /\ IF torn # {} \/ Cardinality(responses) > Wanted THEN Fail
     ELSE IF Cardinality(responses) = Wanted
          THEN Goto("replay", {}) /\ UNCHANGED <<files, crashes>>
     ELSE IF Cardinality(responses) + Cardinality(Pending) < Wanted THEN Fail
     ELSE Goto("answer", Pending) /\ UNCHANGED <<files, crashes>>

(* One row is written and flushed.                                         *)
WriteRow(c) ==
  /\ stage = "answer" /\ Least(c, work)
  /\ responses' = responses \cup {c}
  /\ degenerate' \in {degenerate, degenerate \cup {c}}
  /\ IF work = {c} THEN Goto("replay", {}) ELSE Goto("answer", work \ {c})
  /\ UNCHANGED <<rejected, torn, hidden, manifest, archive, complete, crashes>>

-----------------------------------------------------------------------------

(* Mutant: a row is found degenerate by its saved hidden states only.      *)
InvalidSaved == {c \in degenerate : hidden[c] # "none"}

(* Rows with fewer than two tokens that are not special.                   *)
Invalid == degenerate

(* replay() reads the rows and either rejects or goes on to the hidden     *)
(* states.                                                                 *)
Replay ==
  /\ stage = "replay"
  /\ IF Cardinality(responses) # Wanted THEN Fail
     ELSE /\ IF Invalid # {} THEN Goto("reject", Invalid) ELSE Goto("clean", {})
          /\ UNCHANGED <<files, crashes>>

(* One row is appended to the rejected ones.                               *)
RejectRow(c) ==
  /\ stage = "reject" /\ Least(c, work \ rejected)
  /\ rejected' = rejected \cup {c}
  /\ UNCHANGED <<responses, degenerate, torn, hidden, manifest, archive,
                 complete, stage, work, done, crashes>>

(* rewrite_rows: a temporary file and os.replace.                          *)
Rewrite ==
  /\ stage = "reject" /\ work \subseteq rejected
  /\ responses' = responses \ work
  /\ degenerate' = degenerate \ work
  /\ Goto("unlink", work)
  /\ UNCHANGED <<rejected, torn, hidden, manifest, archive, complete, crashes>>

(* The hidden files of the rejected rows go; then exit status 75, and the  *)
(* loop of the shell script starts again with generate.                    *)
UnlinkRejected(c) ==
  /\ stage = "unlink" /\ c \in work
  /\ hidden' = [hidden EXCEPT ![c] = "none"]
  /\ IF work = {c} THEN Goto("generate", {}) ELSE Goto("unlink", work \ {c})
  /\ UNCHANGED <<responses, degenerate, rejected, torn, manifest, archive,
                 complete, crashes>>

-----------------------------------------------------------------------------

(* Mutant: hidden files without a row stay.                                *)
StrayNone == {}

(* Hidden files that belong to no row.                                     *)
Stray == {c \in Ids \ responses : hidden[c] # "none"}

UnlinkStray(c) ==
  /\ stage = "clean" /\ c \in Stray
  /\ hidden' = [hidden EXCEPT ![c] = "none"]
  /\ UNCHANGED <<responses, degenerate, rejected, torn, manifest, archive,
                 complete, stage, work, done, crashes>>

Cleaned ==
  /\ stage = "clean" /\ Stray = {}
  /\ Goto("hidden", {})
  /\ UNCHANGED <<files, crashes>>

(* Mutant: any hidden file there is counts as the row's.                   *)
ReusableAny(c) == hidden[c] \in {"old", "whole"}

Reusable(c) == hidden[c] = "whole"

(* One row is replayed, or its hidden file is reused.  np.load raises on   *)
(* half a file.                                                            *)
ReplayRow(c) ==
  /\ stage = "hidden" /\ Least(c, responses \ done)
  /\ IF hidden[c] = "torn" THEN Fail
     ELSE /\ hidden' = IF Reusable(c) THEN hidden ELSE [hidden EXCEPT ![c] = "whole"]
          /\ done' = done \cup {c}
          /\ UNCHANGED <<responses, degenerate, rejected, torn, manifest,
                         archive, complete, stage, work, crashes>>

WriteManifest ==
  /\ stage = "hidden" /\ done = responses
  /\ manifest' = [state |-> "whole", rows |-> done]
  /\ Goto("package", {})
  /\ UNCHANGED <<responses, degenerate, rejected, torn, hidden, archive,
                 complete, crashes>>

-----------------------------------------------------------------------------

HiddenFiles == {c \in Ids : hidden[c] # "none"}

(* package() writes download.tmp.zip if the number of hidden files is      *)
(* right,                                                                  *)
Package ==
  /\ stage = "package"
  /\ IF manifest.state = "none" \/ Cardinality(HiddenFiles) # Wanted THEN Fail
     ELSE Goto("publish", {}) /\ UNCHANGED <<files, crashes>>

(* moves it to download.zip,                                               *)
Publish ==
  /\ stage = "publish"
  /\ archive' = [rows |-> responses, manifest |-> manifest.rows,
                 hidden |-> HiddenFiles, rejected |-> rejected]
  /\ Goto("complete", {})
  /\ UNCHANGED <<responses, degenerate, rejected, torn, hidden, manifest, complete,
                 crashes>>

(* and writes COMPLETE.json.                                               *)
Complete ==
  /\ stage = "complete"
  /\ complete' = "whole"
  /\ Goto("finished", {})
  /\ UNCHANGED <<responses, degenerate, rejected, torn, hidden, manifest,
                 archive, crashes>>

-----------------------------------------------------------------------------

Running == stage \notin {"stopped", "finished"}

(* What the process was writing when it was killed is lost, or half of it  *)
(* is there: a line of one of the two files, a hidden file, manifest.json  *)
(* or COMPLETE.json.                                                       *)
TornRow == /\ stage = "answer" /\ torn' = torn \cup {"responses"}
           /\ UNCHANGED <<rejected, hidden, manifest, complete>>

TornRejection == /\ stage = "reject" /\ ~(work \subseteq rejected)
                 /\ torn' = torn \cup {"rejected"}
                 /\ UNCHANGED <<rejected, hidden, manifest, complete>>

TornHidden == /\ stage = "hidden"
              /\ \E c \in responses \ done :
                   /\ Least(c, responses \ done) /\ ~Reusable(c)
                   /\ hidden' = [hidden EXCEPT ![c] = "torn"]
              /\ UNCHANGED <<rejected, torn, manifest, complete>>

TornManifest == /\ stage = "hidden" /\ done = responses
                /\ manifest' = [state |-> "torn", rows |-> {}]
                /\ UNCHANGED <<rejected, torn, hidden, complete>>

TornComplete == /\ stage = "complete" /\ complete' = "torn"
                /\ UNCHANGED <<rejected, torn, hidden, manifest>>

(* The script is killed.                                                   *)
Crash ==
  /\ Running /\ crashes < MaxCrashes
  /\ crashes' = crashes + 1
  /\ Goto("stopped", {})
  /\ \/ UNCHANGED <<rejected, torn, hidden, manifest, complete>>
     \/ Tears /\ (TornRow \/ TornRejection \/ TornHidden \/ TornManifest \/ TornComplete)
  /\ UNCHANGED <<responses, degenerate, archive>>

-----------------------------------------------------------------------------

Step == \/ Generate \/ Replay \/ Rewrite \/ Cleaned
        \/ WriteManifest \/ Package \/ Publish \/ Complete
        \/ \E c \in Ids : \/ WriteRow(c) \/ RejectRow(c) \/ UnlinkRejected(c)
                          \/ UnlinkStray(c) \/ ReplayRow(c)

Next == Start \/ Step \/ Crash

SafetySpec == Init /\ [][Next]_vars

(* A process that runs goes on, and the operator runs a script that        *)
(* stopped again.                                                          *)
Spec == SafetySpec /\ WF_vars(Step) /\ WF_vars(Start /\ stage = "stopped")

-----------------------------------------------------------------------------

Stages == {"stopped", "generate", "answer", "replay", "reject", "unlink", "clean",
           "hidden", "package", "publish", "complete", "finished"}

(* Types.  degenerate speaks of rows that are there.                       *)
TypeOK ==
  /\ responses \subseteq Usable /\ degenerate \subseteq responses
  /\ rejected \subseteq Usable
  /\ torn \subseteq {"responses", "rejected"}
  /\ hidden \in [Ids -> {"none", "old", "torn", "whole"}]
  /\ manifest \in [state : {"none", "torn", "whole"}, rows : SUBSET Usable]
  /\ archive \in [rows : SUBSET Usable, manifest : SUBSET Usable,
                  hidden : SUBSET Usable, rejected : SUBSET Usable]
  /\ complete \in {"none", "torn", "whole"}
  /\ stage \in Stages /\ work \subseteq Usable /\ done \subseteq responses
  /\ crashes \in 0 .. MaxCrashes

(* Wherever the script was killed, the rows answered so far, kept or       *)
(* rejected, are the first usable ones of the seeded order: none is        *)
(* skipped, and the collection does not depend on the crashes.             *)
SeededOrder ==
  \A c \in responses \cup rejected : \A b \in Usable :
    b < c => b \in responses \cup rejected

(* A published archive is whole: exactly the requested rows, none of them  *)
(* degenerate or rejected, a manifest of the same rows, and a hidden file  *)
(* of the current version for each and for nothing else.                   *)
ArchiveWhole ==
  archive # NoArchive =>
    /\ Cardinality(archive.rows) = Wanted
    /\ archive.rows \cap (degenerate \cup archive.rejected) = {}
    /\ archive.manifest = archive.rows
    /\ archive.hidden = archive.rows
    /\ \A c \in archive.rows : hidden[c] = "whole"

(* COLLECT_200_SERVER.md:48: responses and replayed hidden states are     *)
(* reused by the next run.  A good response is never dropped or replaced,  *)
(* and a hidden file that is whole is neither written again nor lost.      *)
WorkReused ==
  [][/\ responses \ degenerate \subseteq responses' \ degenerate'
     /\ \A c \in responses : hidden[c] = "whole" => hidden'[c] = "whole"]_vars

(* Once published, an archive never changes, however often the script is   *)
(* run and killed again.                                                   *)
ArchiveFinal == [][archive # NoArchive => archive' = archive]_vars

(* The script implements the walk over the prompts.                        *)
Collection == INSTANCE ResponseCollection
  WITH kept <- responses \ rejected, published <- archive.rows
ImplementsWalk == Collection!WalkSpec

(* Too few prompts are left for the refill; half a line or half a hidden   *)
(* file is in the directory.                                               *)
Exhausted == Cardinality(Usable \ rejected) < Wanted
Damaged == torn # {} \/ \E c \in Ids : hidden[c] = "torn"

(* Unless a kill left half a line or half a hidden file, the collection is *)
(* published, if the prompts suffice.                                      *)
Publishes == <>(complete = "whole") \/ <>(Exhausted \/ Damaged)

(* COLLECT_200_SERVER.md:48: running the same command again completes an   *)
(* interrupted collection.  Not when it is Damaged; no run checks this,    *)
(* README, Disagreements without a run.                                    *)
RerunCompletes == <>(complete = "whole") \/ <>Exhausted
=============================================================================
