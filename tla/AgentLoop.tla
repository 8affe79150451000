----------------------------- MODULE AgentLoop -----------------------------
(***************************************************************************)
(* Partial rollout below the Rollouter: the agent loop                     *)
(* (agent_loop/partial_single_turn_agent_loop.py) that sends a response to *)
(* a server, takes what comes back and sends it again where it was cut,    *)
(* the task of the Rollouter that gathers the responses of a sample, and   *)
(* pause(), the transfer of the weights, update_param_version and resume() *)
(* as the servers see them.  Module Rollouter has the coroutines of the    *)
(* Rollouter and treats a task as a black box; this module opens the box.  *)
(***************************************************************************)
EXTENDS PartialServer

CONSTANTS PromptLen,    \* tokens of a prompt
          ResponseLen   \* response_length

ASSUME AgentAssumption ==
  /\ PromptLen \in Nat /\ PromptLen < MaxModelLen
  /\ ResponseLen \in Nat

VARIABLES out,      \* agent_loop_output_list: what each response is so far
          task,     \* where each sample is
          version,  \* current_param_version of the Rollouter
          phase,    \* where the synchronisation is
          todo      \* the servers its asyncio.gather still has to reach

syncVars == <<version, phase, todo>>
vars == <<serverVars, out, task, syncVars>>

-----------------------------------------------------------------------------

(* An output before the first call.  Its cut is what lets it be sent.      *)
Fresh == [cut |-> TRUE, text |-> << >>, probs |-> << >>, start |-> -1, end |-> -1]

Cut(s, n) == IF Len(s) > n THEN SubSeq(s, 1, n) ELSE s

Init ==
  /\ ServerInit
  /\ out = [r \in Responses |-> Fresh]
  /\ task = [s \in Samples |-> "waiting"]
  /\ version = 0
  /\ phase = "run" /\ todo = {}

(* The processor adds a task, unless pause() or resume() keep its lock.    *)
(* That the Rollouter is paused between the two does not keep it away: the *)
(* monitor may have decided to lift the pause before pause() took the lock,*)
(* and does it when pause() gives the lock back.                           *)
Submit(s) ==
  /\ task[s] = "waiting"
  /\ phase \in {"run", "transfer", "update", "updated"}
  /\ task' = [task EXCEPT ![s] = "created"]
  /\ UNCHANGED <<serverVars, out, syncVars>>

(* Mutant: the responses that are complete are generated again.            *)
StartAll(s) ==
  /\ task[s] = "created"
  /\ task' = [task EXCEPT ![s] = "active"]
  /\ \E home \in [Rollouts -> Servers] :
       call' = [r \in Responses |->
                 IF r[1] = s
                 THEN [at |-> "sent", server |-> home[r[2]], version |-> version,
                       context |-> PromptLen + Len(out[r].text), cut |-> FALSE]
                 ELSE call[r]]
  /\ UNCHANGED <<paused, resetting, gen, signalled, weights, out, syncVars>>

(* The task stamps its sample with the Rollouter's version and sends every *)
(* response that is not complete, behind what it already has.              *)
Start(s) ==
  /\ task[s] = "created"
  /\ task' = [task EXCEPT ![s] = "active"]
  /\ \E home \in [Rollouts -> Servers] :
       call' = [r \in Responses |->
                 IF r[1] = s /\ out[r].cut
                 THEN [at |-> "sent", server |-> home[r[2]], version |-> version,
                       context |-> PromptLen + Len(out[r].text), cut |-> FALSE]
                 ELSE call[r]]
  /\ UNCHANGED <<paused, resetting, gen, signalled, weights, out, syncVars>>

(* Mutant: the log_probs of the first part are dropped.                    *)
AbsorbLastProbs(r) ==
  /\ call[r].at = "replied"
  /\ out' = [out EXCEPT ![r] =
       [cut   |-> call[r].cut,
        text  |-> Cut(@.text \o gen[r], ResponseLen),
        probs |-> gen[r],
        start |-> IF @.start = -1 THEN call[r].version ELSE @.start,
        end   |-> call[r].version]]
  /\ call' = [call EXCEPT ![r] = Idle]
  /\ gen' = [gen EXCEPT ![r] = << >>]
  /\ UNCHANGED <<paused, resetting, signalled, weights, task, syncVars>>

(* Mutant: a resumed response takes the version of its last call as its    *)
(* start.                                                                  *)
AbsorbRestamps(r) ==
  /\ call[r].at = "replied"
  /\ out' = [out EXCEPT ![r] =
       [cut   |-> call[r].cut,
        text  |-> Cut(@.text \o gen[r], ResponseLen),
        probs |-> @.probs \o gen[r],
        start |-> call[r].version,
        end   |-> call[r].version]]
  /\ call' = [call EXCEPT ![r] = Idle]
  /\ gen' = [gen EXCEPT ![r] = << >>]
  /\ UNCHANGED <<paused, resetting, signalled, weights, task, syncVars>>

(* run() builds the output.  response_ids is cut to response_length,       *)
(* log_probs is not.                                                       *)
Absorb(r) ==
  /\ call[r].at = "replied"
  /\ out' = [out EXCEPT ![r] =
       [cut   |-> call[r].cut,
        text  |-> Cut(@.text \o gen[r], ResponseLen),
        probs |-> @.probs \o gen[r],
        start |-> IF @.start = -1 THEN call[r].version ELSE @.start,
        end   |-> call[r].version]]
  /\ call' = [call EXCEPT ![r] = Idle]
  /\ gen' = [gen EXCEPT ![r] = << >>]
  /\ UNCHANGED <<paused, resetting, signalled, weights, task, syncVars>>

(* The gather over the responses of a sample is complete: the sample goes  *)
(* to cancel_queue if one of them was cut, and to result_queue otherwise.  *)
Gathered(s) ==
  /\ task[s] = "active"
  /\ \A n \in Rollouts : call[<<s, n>>].at = "none"
  /\ task' = [task EXCEPT ![s] =
               IF \E n \in Rollouts : out[<<s, n>>].cut THEN "waiting" ELSE "done"]
  /\ UNCHANGED <<serverVars, out, syncVars>>

-----------------------------------------------------------------------------

(* The phases of a synchronisation: pause() cancels every server, gathers  *)
(* the active tasks and resets every cache; the weights are transferred;   *)
(* update_param_version; resume() of every server.                         *)
Goto(to, servers) == phase' = to /\ todo' = servers

PauseBegin ==
  /\ phase = "run" /\ weights < MaxVersion
  /\ Goto("cancel", Servers)
  /\ UNCHANGED <<serverVars, out, task, version>>

CancelServer(srv) ==
  /\ phase = "cancel" /\ srv \in todo
  /\ Cancel(srv)
  /\ Goto("cancel", todo \ {srv})
  /\ UNCHANGED <<out, task, version>>

(* The gather over active_tasks.  The Rollouter's lock is held since       *)
(* PauseBegin, so no task joins.                                           *)
PauseGather ==
  /\ phase = "cancel" /\ todo = {}
  /\ \A s \in Samples : task[s] \notin {"created", "active"}
  /\ Goto("reset", Servers)
  /\ UNCHANGED <<serverVars, out, task, version>>

ResetServer(srv) ==
  /\ phase = "reset" /\ srv \in todo
  /\ ResetBegin(srv)
  /\ Goto("reset", todo \ {srv})
  /\ UNCHANGED <<out, task, version>>

ResetDone(srv) ==
  /\ ResetEnd(srv)
  /\ UNCHANGED <<out, task, syncVars>>

PauseEnd ==
  /\ phase = "reset" /\ todo = {} /\ resetting = {}
  /\ Goto("transfer", {})
  /\ UNCHANGED <<serverVars, out, task, version>>

SyncTransfer ==
  /\ phase = "transfer"
  /\ Transfer
  /\ Goto("update", {})
  /\ UNCHANGED <<out, task, version>>

UpdateVersion ==
  /\ phase = "update"
  /\ version' = weights
  /\ Goto("updated", {})
  /\ UNCHANGED <<serverVars, out, task>>

(* resume() takes the lock.                                                *)
ResumeBegin ==
  /\ phase = "updated"
  /\ Goto("resume", Servers)
  /\ UNCHANGED <<serverVars, out, task, version>>

ResumeServer(srv) ==
  /\ phase = "resume" /\ srv \in todo
  /\ Resume(srv)
  /\ Goto("resume", todo \ {srv})
  /\ UNCHANGED <<out, task, version>>

ResumeEnd ==
  /\ phase = "resume" /\ todo = {}
  /\ Goto("run", {})
  /\ UNCHANGED <<serverVars, out, task, version>>

-----------------------------------------------------------------------------

ServerStep(r) == Serve(r) /\ UNCHANGED <<out, task, syncVars>>

Sync == \/ PauseBegin \/ PauseGather \/ PauseEnd
        \/ SyncTransfer \/ UpdateVersion \/ ResumeBegin \/ ResumeEnd
        \/ \E srv \in Servers : \/ CancelServer(srv) \/ ResetServer(srv)
                                \/ ResetDone(srv) \/ ResumeServer(srv)

(* Every response is complete: the rollout has nothing left to do.         *)
AllComplete == /\ \A s \in Samples : task[s] = "done"
               /\ UNCHANGED vars

Next == \/ \E s \in Samples : Submit(s) \/ Start(s) \/ Gathered(s)
        \/ \E r \in Responses : ServerStep(r) \/ Absorb(r)
        \/ Sync
        \/ AllComplete

SafetySpec == Init /\ [][Next]_vars

(* The event loops run what is ready, and the engines generate.  A         *)
(* synchronisation need not begin, but one that began goes on.             *)
Fairness ==
  /\ \A s \in Samples : WF_vars(Submit(s)) /\ WF_vars(Start(s)) /\ WF_vars(Gathered(s))
  /\ \A r \in Responses : WF_vars(ServerStep(r)) /\ WF_vars(Absorb(r))
  /\ WF_vars(Sync /\ ~PauseBegin)

Spec == SafetySpec /\ Fairness

-----------------------------------------------------------------------------

Phases == {"run", "cancel", "reset", "transfer", "update", "updated", "resume"}
Calls == [at : Places, server : Servers, context : Nat,
          version : 0 .. MaxVersion, cut : BOOLEAN]
Outputs == [cut : BOOLEAN, text : Seq(Tokens), probs : Seq(Tokens),
            start : -1 .. MaxVersion, end : -1 .. MaxVersion]

(* Types.  Tokens never name a version the engines do not have: no         *)
(* generation runs ahead of a transfer.                                    *)
TypeOK ==
  /\ paused \subseteq Servers /\ resetting \subseteq Servers
  /\ todo \subseteq Servers /\ phase \in Phases
  /\ signalled \subseteq Responses
  /\ call \in [Responses -> Calls]
  /\ gen \in [Responses -> Seq(Tokens)]
  /\ out \in [Responses -> Outputs]
  /\ task \in [Samples -> {"waiting", "created", "active", "done"}]
  /\ weights \in 0 .. MaxVersion /\ version \in 0 .. MaxVersion

(* README.md:150-154: the log_probs used in training must belong to the    *)
(* tokens.  However often a response is refused, cut and resumed, and      *)
(* although only response_ids is cut to length, token i of the response    *)
(* was sampled behind exactly the i - 1 tokens before it, and log_prob i   *)
(* is that of token i.                                                     *)
LogProbsAligned ==
  \A r \in Responses : \A i \in DOMAIN out[r].text :
    /\ i \in DOMAIN out[r].probs
    /\ out[r].text[i] = out[r].probs[i]
    /\ out[r].text[i].pos = PromptLen + i

(* A request that enters an engine has room for a token: max_tokens is     *)
(* positive.  An answer marked as cut is one the model's length did not    *)
(* end.                                                                    *)
RoomLeft ==
  \A r \in Responses : call[r].at \in {"sent", "running"} =>
    call[r].context + Len(gen[r]) < MaxModelLen

(* What a response records of its versions is right to within one          *)
(* synchronisation.  Its tokens never go back to older weights, none is    *)
(* older than param_version_start, and none is more than one version newer *)
(* than param_version_end, although a task reads the version when it       *)
(* starts, may start between the transfer of the weights and               *)
(* update_param_version, and is generated when the servers have resumed    *)
(* (param_sync.py:84-98).                                                  *)
VersionSpan ==
  \A r \in Responses : \A i \in DOMAIN out[r].text :
    /\ out[r].text[i].w \in out[r].start .. out[r].end + 1
    /\ i > 1 => out[r].text[i - 1].w <= out[r].text[i].w

(* What agent_loop.py:64-67 says of the two stamps: the parameter versions *)
(* when the response began to be generated and when it was complete, so    *)
(* that they enclose the versions of its tokens.  They do so to within     *)
(* VersionSpan only; no run checks this, README, Disagreements without a   *)
(* run.                                                                    *)
VersionsEnclosed ==
  \A r \in Responses : \A i \in DOMAIN out[r].text :
    out[r].text[i].w \in out[r].start .. out[r].end

(* A request that waits for its generation on a paused server has its      *)
(* cancel_event set: cancel() tells every request it finds, and none       *)
(* starts behind it.                                                       *)
CancelReaches ==
  \A r \in Responses :
    call[r].at = "running" /\ call[r].server \in paused => r \in signalled

(* No generation is under way anywhere when the weights change.            *)
TransferIsQuiet ==
  [][weights' # weights => \A r \in Responses : call[r].at # "running"]_vars

(* A response only grows, and stands still once it is complete, also while *)
(* another response of its sample is resumed.                              *)
OnlyGrows ==
  [][\A r \in Responses :
       /\ ~out[r].cut => out'[r] = out[r]
       /\ Len(out[r].text) <= Len(out'[r].text)
       /\ \A i \in DOMAIN out[r].text : out'[r].text[i] = out[r].text[i]]_vars

(* pause() returns although requests are under way, and every sample is    *)
(* complete in the end however often it was interrupted.                   *)
PauseReturns == phase = "cancel" ~> phase = "transfer"
Completes == \A s \in Samples : <>(task[s] = "done")
=============================================================================
