--------------------------- MODULE PartialServer ---------------------------
(***************************************************************************)
(* The LLM servers of recipe/fully_async_policy/vllm_rollout/              *)
(* vllm_async_server.py (vLLMHttpServerForPartial).  A server is a Ray     *)
(* actor with one asyncio lock: cancel, resume and the two locked sections *)
(* of generate_for_partial await nothing inside it, so each is one step;   *)
(* reset_prefix_cache keeps the lock while the engine works.               *)
(*                                                                         *)
(* A call is named after the response it generates, which has one call at  *)
(* a time; the fresh uuid of every call makes two calls of one response    *)
(* strangers to the server.  A call is                                     *)
(*   "none"     not under way                                              *)
(*   "sent"     on its way to the first locked section                     *)
(*   "running"  waiting for its generation or its cancel_event             *)
(*   "finished" its generation is over, the call has not seen it yet       *)
(*   "closing"  past the wait, parked on the lock of the second section    *)
(*   "replied"  returned; the agent loop has not taken the result yet      *)
(*                                                                         *)
(* A token is the version of the weights it was sampled from and its place *)
(* in the response: what prompt_ids held when the engine chose it.         *)
(***************************************************************************)
EXTENDS Integers, Sequences

CONSTANTS Servers,      \* the servers of all replicas
          Samples,      \* RolloutSamples
          Rollouts,     \* rollout.n: the responses of a sample
          MaxModelLen,  \* max_model_len
          MaxVersion    \* bound of the model on the version of the weights

ASSUME ServerAssumption == /\ Servers # {}
                           /\ MaxModelLen \in Nat
                           /\ MaxVersion \in Nat

VARIABLES paused,     \* the servers with self.paused
          resetting,  \* the servers whose lock reset_prefix_cache holds
          call,       \* the call of each response
          gen,        \* req_output: the tokens of the call so far
          signalled,  \* the responses whose cancel_event is set
          weights     \* the version of the weights in every engine

Responses == Samples \X Rollouts

serverVars == <<paused, resetting, call, gen, signalled, weights>>

Tokens == [w : 0 .. MaxVersion, pos : Nat \ {0}]
Places == {"none", "sent", "running", "finished", "closing", "replied"}

LockFree(srv) == srv \notin resetting

(* The calls on srv whose cancel_event somebody still waits for.           *)
Listening(srv) == {r \in Responses : /\ call[r].server = srv
                                     /\ call[r].at \in {"running", "finished"}}

(* No call: what its fields hold does not matter.                          *)
Idle == [at |-> "none", server |-> CHOOSE srv \in Servers : TRUE,
         context |-> 0, version |-> 0, cut |-> FALSE]

Moved(r, at) == call' = [call EXCEPT ![r].at = at]

ServerInit ==
  /\ paused = {} /\ resetting = {} /\ signalled = {}
  /\ call = [r \in Responses |-> Idle]
  /\ gen = [r \in Responses |-> << >>]
  /\ weights = 0

-----------------------------------------------------------------------------

(* Mutant: the first section does not look at paused.                      *)
AdmitAlways(r) ==
  /\ call[r].at = "sent" /\ LockFree(call[r].server)
  /\ Moved(r, "running")
  /\ UNCHANGED <<paused, resetting, gen, signalled, weights>>

(* Mutant: a paused server keeps the request instead of refusing it.       *)
AdmitWaits(r) ==
  /\ call[r].at = "sent" /\ LockFree(call[r].server)
  /\ call[r].server \notin paused
  /\ Moved(r, "running")
  /\ UNCHANGED <<paused, resetting, gen, signalled, weights>>

(* The first section: a paused server answers at once, with nothing.       *)
Admit(r) ==
  /\ call[r].at = "sent" /\ LockFree(call[r].server)
  /\ IF call[r].server \in paused
     THEN call' = [call EXCEPT ![r].at = "replied", ![r].cut = TRUE]
     ELSE Moved(r, "running")
  /\ UNCHANGED <<paused, resetting, gen, signalled, weights>>

(* _generate_step: the engine delivers an output one token longer.  The    *)
(* last output ends the generator in the same step; the model's length     *)
(* makes it the last if nothing did before.                                *)
Generate(r) ==
  /\ call[r].at = "running"
  /\ gen' = [gen EXCEPT ![r] =
              Append(@, [w |-> weights, pos |-> call[r].context + Len(@) + 1])]
  /\ \E last \in BOOLEAN :
       /\ Len(gen'[r]) + call[r].context >= MaxModelLen => last
       /\ IF last THEN Moved(r, "finished") ELSE UNCHANGED call
  /\ UNCHANGED <<paused, resetting, signalled, weights>>

(* Mutant: is_cancel asks for the event instead of the generation.         *)
WakeByEvent(r) ==
  /\ \/ call[r].at = "finished"
     \/ call[r].at = "running" /\ r \in signalled
  /\ call' = [call EXCEPT ![r].at = IF LockFree(call[r].server) THEN "replied" ELSE "closing",
                          ![r].cut = r \in signalled]
  /\ signalled' = signalled \ {r}
  /\ UNCHANGED <<paused, resetting, gen, weights>>

(* asyncio.wait returns: whatever is not over is cancelled, is_cancel is   *)
(* fixed, and nobody looks at the event again.  A free lock is taken       *)
(* without a pause, so the second section follows in the same step;        *)
(* otherwise the call parks.  (An entry whose request was cut before its   *)
(* first output stays in the tables for good; its uuid never comes back.)  *)
Wake(r) ==
  /\ \/ call[r].at = "finished"
     \/ call[r].at = "running" /\ r \in signalled
  /\ call' = [call EXCEPT ![r].at = IF LockFree(call[r].server) THEN "replied" ELSE "closing",
                          ![r].cut = call[r].at # "finished"]
  /\ signalled' = signalled \ {r}
  /\ UNCHANGED <<paused, resetting, gen, weights>>

(* The second section, entered after a wait for the lock.                  *)
Close(r) ==
  /\ call[r].at = "closing" /\ LockFree(call[r].server)
  /\ Moved(r, "replied")
  /\ UNCHANGED <<paused, resetting, gen, signalled, weights>>

-----------------------------------------------------------------------------

Cancel(srv) ==
  /\ LockFree(srv)
  /\ paused' = paused \cup {srv}
  /\ signalled' = signalled \cup Listening(srv)
  /\ UNCHANGED <<resetting, call, gen, weights>>

(* Mutant: paused stays.                                                   *)
ResumeNothing(srv) == LockFree(srv) /\ UNCHANGED serverVars

Resume(srv) ==
  /\ LockFree(srv)
  /\ paused' = paused \ {srv}
  /\ UNCHANGED <<resetting, call, gen, signalled, weights>>

ResetBegin(srv) ==
  /\ LockFree(srv)
  /\ resetting' = resetting \cup {srv}
  /\ UNCHANGED <<paused, call, gen, signalled, weights>>

ResetEnd(srv) ==
  /\ srv \in resetting
  /\ resetting' = resetting \ {srv}
  /\ UNCHANGED <<paused, call, gen, signalled, weights>>

(* The weights of the next version reach every engine (sync_weights).      *)
Transfer ==
  /\ weights < MaxVersion
  /\ weights' = weights + 1
  /\ UNCHANGED <<paused, resetting, call, gen, signalled>>

(* What a server and its engine do by themselves with a call.              *)
Serve(r) == Admit(r) \/ Generate(r) \/ Wake(r) \/ Close(r)
=============================================================================
