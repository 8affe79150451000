-------------------------- MODULE AgentLoopProofs --------------------------
(***************************************************************************)
(* Theorems about module AgentLoop, for every number of samples, responses *)
(* and servers, every length and every number of synchronisations.         *)
(***************************************************************************)
EXTENDS AgentLoop, SequenceTheorems, TLAPS

(* TypeOK, one conjunct per actor.                                         *)
ServerTypes ==
  /\ paused \subseteq Servers /\ resetting \subseteq Servers
  /\ signalled \subseteq Responses
  /\ call \in [Responses -> Calls]
  /\ gen \in [Responses -> Seq(Tokens)]
  /\ weights \in 0 .. MaxVersion

AgentTypes ==
  /\ out \in [Responses -> Outputs]
  /\ task \in [Samples -> {"waiting", "created", "active", "done"}]

SyncTypes ==
  /\ todo \subseteq Servers /\ phase \in Phases
  /\ version \in 0 .. MaxVersion

LEMMA TypesAreTypeOK == TypeOK <=> ServerTypes /\ AgentTypes /\ SyncTypes
BY DEF TypeOK, ServerTypes, AgentTypes, SyncTypes

LEMMA IdleType == Idle \in Calls
BY ServerAssumption DEF Idle, Calls, Places

(* Cut keeps a sequence a sequence: its first n elements, or all of them.  *)
LEMMA CutType ==
  ASSUME NEW S, NEW s \in Seq(S), NEW n \in Nat
  PROVE  /\ Cut(s, n) \in Seq(S)
         /\ Len(Cut(s, n)) = IF Len(s) > n THEN n ELSE Len(s)
         /\ \A i \in 1 .. Len(Cut(s, n)) : Cut(s, n)[i] = s[i]
BY DEF Cut

(* A call that moves on stays a call.                                      *)
LEMMA MovedType ==
  ASSUME call \in [Responses -> Calls], NEW r \in Responses, NEW at \in Places
  PROVE  [call EXCEPT ![r].at = at] \in [Responses -> Calls]
<1>1. [call[r] EXCEPT !.at = at] \in Calls
  BY DEF Calls
<1>. QED  BY <1>1

LEMMA AnsweredType ==
  ASSUME call \in [Responses -> Calls], NEW r \in Responses,
         NEW at \in Places, NEW cut \in BOOLEAN
  PROVE  [call EXCEPT ![r].at = at, ![r].cut = cut] \in [Responses -> Calls]
<1>1. [call[r] EXCEPT !.at = at, !.cut = cut] \in Calls
  BY DEF Calls
<1>2. [call EXCEPT ![r].at = at, ![r].cut = cut]
        = [call EXCEPT ![r] = [call[r] EXCEPT !.at = at, !.cut = cut]]
  OBVIOUS
<1>. QED  BY <1>1, <1>2

LEMMA ServeTypes ==
  ASSUME ServerTypes, NEW r \in Responses, Serve(r)
  PROVE  ServerTypes'
<1>. USE DEF ServerTypes
<1>0. /\ {"running", "replied", "finished", "closing"} \subseteq Places
      /\ TRUE \in BOOLEAN
  BY DEF Places
<1>1. CASE Admit(r)
  <2>1. call' \in [Responses -> Calls]
    <3>1. \/ call' = [call EXCEPT ![r].at = "replied", ![r].cut = TRUE]
          \/ call' = [call EXCEPT ![r].at = "running"]
      BY <1>1 DEF Admit, Moved
    <3>2. [call EXCEPT ![r].at = "replied", ![r].cut = TRUE] \in [Responses -> Calls]
      BY <1>0, AnsweredType
    <3>3. [call EXCEPT ![r].at = "running"] \in [Responses -> Calls]
      BY <1>0, MovedType
    <3>. QED  BY <3>1, <3>2, <3>3
  <2>. QED  BY <1>1, <2>1 DEF Admit
<1>2. CASE Generate(r)
  <2>1. call' \in [Responses -> Calls]
    <3>1. call' = call \/ call' = [call EXCEPT ![r].at = "finished"]
      BY <1>2 DEF Generate, Moved
    <3>2. [call EXCEPT ![r].at = "finished"] \in [Responses -> Calls]
      BY <1>0, MovedType
    <3>. QED  BY <3>1, <3>2
  <2>2. gen' \in [Responses -> Seq(Tokens)]
    <3>1. [w |-> weights, pos |-> call[r].context + Len(gen[r]) + 1] \in Tokens
      BY DEF Tokens, Calls
    <3>. QED  BY <1>2, <3>1 DEF Generate
  <2>. QED  BY <1>2, <2>1, <2>2 DEF Generate
<1>3. CASE Wake(r)
  <2>. DEFINE at == IF LockFree(call[r].server) THEN "replied" ELSE "closing"
              cut == call[r].at # "finished"
  <2>1. at \in Places /\ cut \in BOOLEAN
    BY <1>0
  <2>2. call' = [call EXCEPT ![r].at = at, ![r].cut = cut]
    BY <1>3 DEF Wake
  <2>. HIDE DEF at, cut
  <2>3. call' \in [Responses -> Calls]
    BY <2>1, <2>2, AnsweredType
  <2>. QED  BY <1>3, <2>3 DEF Wake
<1>4. CASE Close(r)
  <2>1. call' \in [Responses -> Calls]
    BY <1>0, <1>4, MovedType DEF Close, Moved
  <2>. QED  BY <1>4, <2>1 DEF Close
<1>. QED  BY <1>1, <1>2, <1>3, <1>4 DEF Serve

LEMMA StartTypes ==
  ASSUME TypeOK, NEW s \in Samples, Start(s)
  PROVE  TypeOK'
<1>1. ServerTypes /\ AgentTypes /\ SyncTypes
  BY TypesAreTypeOK
<1>2. call' \in [Responses -> Calls]
  <2>1. \A r \in Responses : PromptLen + Len(out[r].text) \in Nat
    BY <1>1, AgentAssumption DEF AgentTypes, Outputs
  <2>2. \A r \in Responses : r[2] \in Rollouts
    BY DEF Responses
  <2>. QED  BY <1>1, <2>1, <2>2 DEF Start, Calls, Places, ServerTypes, SyncTypes
<1>. QED
  BY <1>1, <1>2 DEF Start, TypeOK, ServerTypes, AgentTypes, SyncTypes, syncVars

LEMMA AbsorbTypes ==
  ASSUME TypeOK, NEW r \in Responses, Absorb(r)
  PROVE  TypeOK'
<1>1. ServerTypes /\ AgentTypes /\ SyncTypes
  BY TypesAreTypeOK
<1>2. out' \in [Responses -> Outputs]
  <2>1. /\ out[r] \in Outputs /\ gen[r] \in Seq(Tokens) /\ call[r] \in Calls
    BY <1>1 DEF ServerTypes, AgentTypes
  <2>2. /\ out[r].text \o gen[r] \in Seq(Tokens)
        /\ out[r].probs \o gen[r] \in Seq(Tokens)
    BY <2>1 DEF Outputs
  <2>3. Cut(out[r].text \o gen[r], ResponseLen) \in Seq(Tokens)
    BY <2>2, CutType, AgentAssumption
  <2>. QED  BY <1>1, <2>1, <2>2, <2>3 DEF Absorb, AgentTypes, Outputs, Calls
<1>3. call' \in [Responses -> Calls] /\ gen' \in [Responses -> Seq(Tokens)]
  BY <1>1, IdleType DEF Absorb, ServerTypes
<1>. QED
  BY <1>1, <1>2, <1>3 DEF Absorb, TypeOK, ServerTypes, AgentTypes, SyncTypes, syncVars

LEMMA SyncStepTypes ==
  ASSUME TypeOK, Sync
  PROVE  TypeOK'
<1>. USE DEF TypeOK, Goto, Phases
<1>1. CASE PauseBegin \/ PauseGather \/ PauseEnd \/ ResumeBegin \/ ResumeEnd
  BY <1>1 DEF PauseBegin, PauseGather, PauseEnd, ResumeBegin, ResumeEnd, serverVars
<1>2. CASE SyncTransfer
  BY <1>2, ServerAssumption DEF SyncTransfer, Transfer
<1>3. CASE UpdateVersion
  BY <1>3 DEF UpdateVersion, serverVars
<1>4. ASSUME NEW srv \in Servers, CancelServer(srv) PROVE TypeOK'
  BY <1>4 DEF CancelServer, Cancel, Listening
<1>5. ASSUME NEW srv \in Servers,
             ResetServer(srv) \/ ResetDone(srv) \/ ResumeServer(srv)
      PROVE  TypeOK'
  BY <1>5 DEF ResetServer, ResetDone, ResumeServer, ResetBegin, ResetEnd, Resume,
              syncVars
<1>. QED  BY <1>1, <1>2, <1>3, <1>4, <1>5 DEF Sync

(* Every value stays in its type, and no token names a version that no     *)
(* engine has loaded.                                                      *)
THEOREM SpecTypeOK == SafetySpec => []TypeOK
<1>1. Init => TypeOK
  <2>. SUFFICES ASSUME Init PROVE TypeOK
    OBVIOUS
  <2>1. Fresh \in Outputs
    BY ServerAssumption DEF Fresh, Outputs
  <2>. QED
    BY <2>1, IdleType, ServerAssumption DEF Init, ServerInit, TypeOK, Phases
<1>2. TypeOK /\ [Next]_vars => TypeOK'
  <2>. SUFFICES ASSUME TypeOK, [Next]_vars PROVE TypeOK'
    OBVIOUS
  <2>1. ASSUME NEW s \in Samples, Submit(s) \/ Gathered(s) PROVE TypeOK'
    BY <2>1 DEF Submit, Gathered, TypeOK, serverVars, syncVars
  <2>2. ASSUME NEW r \in Responses, ServerStep(r) PROVE TypeOK'
    <3>1. ServerTypes'
      BY <2>2, ServeTypes, TypesAreTypeOK DEF ServerStep
    <3>. QED  BY <2>2, <3>1 DEF ServerStep, TypeOK, ServerTypes, syncVars
  <2>3. CASE UNCHANGED vars
    BY <2>3 DEF vars, serverVars, syncVars, TypeOK
  <2>. QED
    BY <2>1, <2>2, <2>3, StartTypes, AbsorbTypes, SyncStepTypes
       DEF Next, AllComplete
<1>. QED  BY <1>1, <1>2, PTL DEF SafetySpec
-----------------------------------------------------------------------------
(* Why nothing generates while the weights change.                         *)

Silent == {"reset", "transfer", "update", "updated"}

(* pause() reaches the servers one after the other; from its gather on and *)
(* until resume() all of them are paused.                                  *)
PausedServers ==
  /\ phase = "cancel" => Servers \ todo \subseteq paused
  /\ phase \in Silent => paused = Servers

(* A call belongs to a task that pause() gathers.                          *)
CallsHaveTasks ==
  \A r \in Responses : call[r].at # "none" => task[r[1]] = "active"

(* After that gather a call can at most be refused.                        *)
NoneAdmitted ==
  phase \in Silent =>
    \A r \in Responses : call[r].at \notin {"running", "finished", "closing"}

QuietInv == CancelReaches /\ PausedServers /\ CallsHaveTasks /\ NoneAdmitted

(* What a server does with one call, as far as the others can tell.        *)
LEMMA ServeEffect ==
  ASSUME ServerTypes, NEW r \in Responses, Serve(r)
  PROVE  /\ paused' = paused /\ weights' = weights
         /\ \A q \in Responses \ {r} :
           /\ call'[q] = call[q]
           /\ q \in signalled => q \in signalled'
         /\ call'[r].server = call[r].server
         /\ call[r].at # "none"
         /\ \/ call[r].at = "sent" /\ call'[r].at = "running"
               /\ call[r].server \notin paused
            \/ call[r].at = "running" /\ call'[r].at = "running"
               /\ signalled' = signalled
            \/ call[r].at \in {"running", "finished", "closing"}
               /\ call'[r].at \in {"finished", "closing", "replied"}
            \/ call[r].at = "sent" /\ call'[r].at = "replied"
<1>. USE DEF ServerTypes, Calls
<1>1. CASE Admit(r)
  BY <1>1 DEF Admit, Moved
<1>2. CASE Generate(r)
  BY <1>2 DEF Generate, Moved
<1>3. CASE Wake(r)
  BY <1>3 DEF Wake
<1>4. CASE Close(r)
  BY <1>4 DEF Close, Moved
<1>. QED  BY <1>1, <1>2, <1>3, <1>4 DEF Serve

LEMMA ServeQuiet ==
  ASSUME ServerTypes, QuietInv, NEW r \in Responses, ServerStep(r)
  PROVE  QuietInv'
<1>. Serve(r) /\ UNCHANGED <<out, task, syncVars>>
  BY DEF ServerStep
<1>. phase' = phase /\ todo' = todo /\ task' = task
  BY DEF syncVars
<1>. USE DEF QuietInv
<1>0. /\ paused' = paused
      /\ \A q \in Responses \ {r} :
           /\ call'[q] = call[q]
           /\ q \in signalled => q \in signalled'
      /\ call'[r].server = call[r].server
      /\ call[r].at # "none"
  BY ServeEffect
<1>00. \/ call[r].at = "sent" /\ call'[r].at = "running" /\ call[r].server \notin paused
       \/ call[r].at = "running" /\ call'[r].at = "running" /\ signalled' = signalled
       \/ call[r].at \in {"running", "finished", "closing"}
          /\ call'[r].at \in {"finished", "closing", "replied"}
       \/ call[r].at = "sent" /\ call'[r].at = "replied"
  BY ServeEffect
<1>1. CancelReaches'
  <2>. SUFFICES ASSUME NEW q \in Responses,
                       call'[q].at = "running", call'[q].server \in paused'
                PROVE  q \in signalled'
    BY DEF CancelReaches
  <2>0. call[q].at = "running" /\ call[q].server \in paused => q \in signalled
    BY DEF CancelReaches
  <2>1. CASE q = r
    BY <1>0, <1>00, <2>0, <2>1
  <2>2. CASE q # r
    BY <1>0, <2>0, <2>2
  <2>. QED  BY <2>1, <2>2
<1>2. PausedServers'
  BY <1>0 DEF PausedServers
<1>3. CallsHaveTasks'
  <2>. SUFFICES ASSUME NEW q \in Responses, call'[q].at # "none"
                PROVE  task[q[1]] = "active"
    BY DEF CallsHaveTasks
  <2>1. call[q].at # "none"
    BY <1>0
  <2>. QED  BY <2>1 DEF CallsHaveTasks
<1>4. NoneAdmitted'
  <2>. SUFFICES ASSUME phase \in Silent, NEW q \in Responses
                PROVE  call'[q].at \notin {"running", "finished", "closing"}
    BY DEF NoneAdmitted
  <2>1. /\ call[q].at \notin {"running", "finished", "closing"}
        /\ call[r].at \notin {"running", "finished", "closing"}
    BY DEF NoneAdmitted
  <2>2. call[r].server \in paused
    BY DEF PausedServers, ServerTypes, Calls
  <2>3. CASE q = r
    BY <1>00, <2>1, <2>2, <2>3
  <2>4. CASE q # r
    BY <1>0, <2>1, <2>4
  <2>. QED  BY <2>3, <2>4
<1>. QED  BY <1>1, <1>2, <1>3, <1>4

LEMMA TaskQuiet ==
  ASSUME TypeOK, QuietInv, NEW s \in Samples,
         Submit(s) \/ Start(s) \/ Gathered(s)
  PROVE  QuietInv'
<1>. USE DEF QuietInv
<1>0. /\ call \in [Responses -> Calls]
      /\ task \in [Samples -> {"waiting", "created", "active", "done"}]
  BY DEF TypeOK
<1>00. \A r \in Responses : r[1] \in Samples /\ r[2] \in Rollouts /\ r = <<r[1], r[2]>>
  BY DEF Responses
<1>1. CASE Submit(s)
  BY <1>0, <1>00, <1>1 DEF Submit, CancelReaches, PausedServers, CallsHaveTasks,
        NoneAdmitted, serverVars, syncVars
<1>2. CASE Start(s)
  <2>1. \A r \in Responses : call'[r].at = "sent" \/ call'[r] = call[r]
    BY <1>2 DEF Start
  <2>2. \A r \in Responses : call'[r].at # "none" => r[1] = s \/ call[r].at # "none"
    BY <1>2 DEF Start
  <2>3. \A t \in Samples : task'[t] = "active" <=> t = s \/ task[t] = "active"
    BY <1>0, <1>2 DEF Start
  <2>4. CallsHaveTasks'
    BY <1>00, <2>2, <2>3 DEF CallsHaveTasks
  <2>5. CancelReaches' /\ PausedServers' /\ NoneAdmitted'
    BY <1>2, <2>1 DEF Start, CancelReaches, PausedServers, NoneAdmitted, syncVars
  <2>. QED  BY <2>4, <2>5
<1>3. CASE Gathered(s)
  <2>1. \A r \in Responses : call[r].at # "none" => r[1] # s
    BY <1>00, <1>3 DEF Gathered
  <2>2. \A t \in Samples \ {s} : task'[t] = task[t]
    BY <1>0, <1>3 DEF Gathered
  <2>. QED
    BY <1>00, <1>3, <2>1, <2>2
       DEF Gathered, CancelReaches, PausedServers, CallsHaveTasks, NoneAdmitted,
           serverVars, syncVars
<1>. QED  BY <1>1, <1>2, <1>3

LEMMA AbsorbQuiet ==
  ASSUME TypeOK, QuietInv, NEW r \in Responses, Absorb(r)
  PROVE  QuietInv'
<1>1. /\ call'[r].at = "none"
      /\ \A q \in Responses \ {r} : call'[q] = call[q]
  BY DEF Absorb, TypeOK, Idle
<1>2. UNCHANGED <<paused, signalled, task, phase, todo>>
  BY DEF Absorb, syncVars
<1>. QED
  BY <1>1, <1>2
     DEF QuietInv, CancelReaches, PausedServers, CallsHaveTasks, NoneAdmitted

LEMMA SyncQuiet ==
  ASSUME TypeOK, QuietInv, Sync
  PROVE  QuietInv'
<1>. USE DEF QuietInv, CancelReaches, PausedServers, CallsHaveTasks, NoneAdmitted,
             Silent, Goto
<1>1. CASE PauseBegin
  BY <1>1 DEF PauseBegin, serverVars
<1>2. CASE PauseGather
  <2>1. \A r \in Responses : call[r].at = "none"
    BY <1>2 DEF PauseGather, Responses
  <2>2. paused = Servers
    BY <1>2 DEF PauseGather, TypeOK
  <2>. QED  BY <1>2, <2>1, <2>2 DEF PauseGather, serverVars
<1>3. CASE PauseEnd \/ SyncTransfer \/ UpdateVersion \/ ResumeBegin \/ ResumeEnd
  BY <1>3
     DEF PauseEnd, SyncTransfer, Transfer, UpdateVersion, ResumeBegin, ResumeEnd,
         serverVars
<1>4. ASSUME NEW srv \in Servers, CancelServer(srv) PROVE QuietInv'
  BY <1>4 DEF CancelServer, Cancel, Listening
<1>5. ASSUME NEW srv \in Servers,
             ResetServer(srv) \/ ResetDone(srv) \/ ResumeServer(srv)
      PROVE  QuietInv'
  BY <1>5 DEF ResetServer, ResetDone, ResumeServer, ResetBegin, ResetEnd, Resume,
              syncVars
<1>. QED  BY <1>1, <1>2, <1>3, <1>4, <1>5 DEF Sync

LEMMA SpecQuietInv == SafetySpec => []QuietInv
<1>1. Init => QuietInv
  <2>. SUFFICES ASSUME Init PROVE QuietInv
    OBVIOUS
  <2>1. \A r \in Responses : call[r].at = "none"
    BY DEF Init, ServerInit, Idle
  <2>2. phase = "run"
    BY DEF Init
  <2>. QED
    BY <2>1, <2>2 DEF QuietInv, CancelReaches, PausedServers, CallsHaveTasks,
                      NoneAdmitted, Silent
<1>2. TypeOK /\ QuietInv /\ [Next]_vars => QuietInv'
  <2>. SUFFICES ASSUME TypeOK, QuietInv, [Next]_vars PROVE QuietInv'
    OBVIOUS
  <2>1. ServerTypes
    BY TypesAreTypeOK
  <2>2. CASE UNCHANGED vars
    BY <2>2 DEF vars, serverVars, syncVars, QuietInv, CancelReaches, PausedServers,
                CallsHaveTasks, NoneAdmitted
  <2>. QED
    BY <2>1, <2>2, ServeQuiet, TaskQuiet, AbsorbQuiet, SyncQuiet DEF Next, AllComplete
<1>. QED  BY <1>1, <1>2, SpecTypeOK, PTL DEF SafetySpec

(* cancel() tells every request on its server, and no request starts       *)
(* behind it (vllm_async_server.py:86-89, 120-124).                        *)
THEOREM SpecCancelReaches == SafetySpec => []CancelReaches
BY SpecQuietInv, PTL DEF QuietInv

(* No generation is under way on any server when the weights change        *)
(* (param_sync.py:84-90), whatever the monitor of the Rollouter does.      *)
THEOREM SpecTransferIsQuiet == SafetySpec => TransferIsQuiet
<1>1. QuietInv /\ [Next]_vars
        => [weights' # weights => \A r \in Responses : call[r].at # "running"]_vars
  <2>. SUFFICES ASSUME QuietInv, Next, weights' # weights
                PROVE  \A r \in Responses : call[r].at # "running"
    OBVIOUS
  <2>1. SyncTransfer
    BY DEF Next, Submit, Start, Gathered, ServerStep, Serve, Admit, Generate, Wake,
           Close, Absorb, Sync, PauseBegin, PauseGather, PauseEnd, UpdateVersion,
           ResumeBegin, ResumeEnd, CancelServer, Cancel, ResetServer, ResetBegin,
           ResetDone, ResetEnd, ResumeServer, Resume, AllComplete, vars, serverVars
  <2>. QED  BY <2>1 DEF SyncTransfer, QuietInv, NoneAdmitted, Silent
<1>. QED  BY <1>1, SpecQuietInv, PTL DEF SafetySpec, TransferIsQuiet
-----------------------------------------------------------------------------
(* What a response and its call know of each other.                        *)

(* A call continues the output of its response, which is not complete.     *)
Carried(r) ==
  call[r].at # "none" => /\ out[r].cut
                         /\ call[r].context = PromptLen + Len(out[r].text)

(* Its tokens follow each other and what was there before.                 *)
Generated(r) ==
  /\ call[r].at \in {"none", "sent"} => gen[r] = << >>
  /\ \A k \in 1 .. Len(gen[r]) : gen[r][k].pos = call[r].context + k

AnsweredCut(r) == call[r].at \in {"closing", "replied"} /\ call[r].cut

(* Only a generation that ended has used up the length of the model.       *)
HasRoom(r) ==
  /\ out[r].cut => PromptLen + Len(out[r].text) < MaxModelLen
  /\ call[r].at \in {"sent", "running"} \/ AnsweredCut(r)
       => call[r].context + Len(gen[r]) < MaxModelLen

(* log_probs runs ahead of response_ids only where response_ids is full.   *)
Aligned(r) ==
  /\ Len(out[r].text) <= ResponseLen
  /\ Len(out[r].text) <= Len(out[r].probs)
  /\ Len(out[r].text) < ResponseLen => Len(out[r].probs) = Len(out[r].text)
  /\ \A i \in 1 .. Len(out[r].text) :
       /\ out[r].text[i] = out[r].probs[i]
       /\ out[r].text[i].pos = PromptLen + i

ResponseInv ==
  \A r \in Responses : Carried(r) /\ Generated(r) /\ HasRoom(r) /\ Aligned(r)

(* A step that leaves a response, its call and its tokens alone.           *)
Untouched(r) == out'[r] = out[r] /\ call'[r] = call[r] /\ gen'[r] = gen[r]

LEMMA UntouchedResponse ==
  ASSUME NEW r \in Responses, Untouched(r),
         Carried(r), Generated(r), HasRoom(r), Aligned(r)
  PROVE  Carried(r)' /\ Generated(r)' /\ HasRoom(r)' /\ Aligned(r)'
BY DEF Untouched, Carried, Generated, HasRoom, AnsweredCut, Aligned

(* Generate keeps the tokens in a row.                                     *)
LEMMA GenerateResponse ==
  ASSUME TypeOK, NEW r \in Responses, Generate(r), out' = out,
         Carried(r), Generated(r), HasRoom(r), Aligned(r)
  PROVE  Carried(r)' /\ Generated(r)' /\ HasRoom(r)' /\ Aligned(r)'
<1>. DEFINE token == [w |-> weights, pos |-> call[r].context + Len(gen[r]) + 1]
<1>0. /\ call[r] \in Calls /\ gen[r] \in Seq(Tokens) /\ out[r] \in Outputs
      /\ call \in [Responses -> Calls] /\ gen \in [Responses -> Seq(Tokens)]
  BY DEF TypeOK
<1>1. gen'[r] = Append(gen[r], token)
  BY <1>0 DEF Generate
<1>2. /\ call[r].at = "running"
      /\ call'[r].context = call[r].context
      /\ \/ call'[r].at = "running" /\ Len(gen'[r]) + call[r].context < MaxModelLen
         \/ call'[r].at = "finished"
  <2>1. PICK last \in BOOLEAN :
           /\ Len(gen'[r]) + call[r].context >= MaxModelLen => last
           /\ IF last THEN Moved(r, "finished") ELSE UNCHANGED call
    BY DEF Generate
  <2>2. call[r].at = "running"
    BY DEF Generate
  <2>3. CASE last
    BY <1>0, <2>1, <2>2, <2>3 DEF Moved, Calls
  <2>4. CASE ~last
    <3>1. ~(Len(gen'[r]) + call[r].context >= MaxModelLen)
      BY <2>1, <2>4
    <3>2. Len(gen'[r]) + call[r].context < MaxModelLen
      BY <1>0, <1>1, <3>1, ServerAssumption DEF Calls
    <3>. QED  BY <2>1, <2>2, <2>4, <3>2
  <2>. QED  BY <2>3, <2>4
<1>3. Carried(r)'
  BY <1>2 DEF Carried
<1>4. Generated(r)'
  <2>0. /\ Len(gen'[r]) = Len(gen[r]) + 1
        /\ \A k \in 1 .. Len(gen[r]) : gen'[r][k] = gen[r][k]
        /\ gen'[r][Len(gen[r]) + 1].pos = call[r].context + (Len(gen[r]) + 1)
        /\ Len(gen[r]) \in Nat /\ call[r].context \in Nat
    <3>1. /\ token \in Tokens
          /\ Len(gen[r]) \in Nat /\ call[r].context \in Nat
          /\ token.pos = call[r].context + (Len(gen[r]) + 1)
      BY <1>0 DEF Calls, Tokens, TypeOK
    <3>. HIDE DEF token
    <3>2. /\ Len(gen'[r]) = Len(gen[r]) + 1
          /\ \A k \in 1 .. Len(gen[r]) : gen'[r][k] = gen[r][k]
          /\ gen'[r][Len(gen[r]) + 1] = token
      BY <1>0, <1>1, <3>1
    <3>. QED  BY <3>1, <3>2
  <2>1. \A k \in 1 .. Len(gen'[r]) : gen'[r][k].pos = call[r].context + k
    <3>. SUFFICES ASSUME NEW k \in 1 .. Len(gen'[r])
                  PROVE  gen'[r][k].pos = call[r].context + k
      OBVIOUS
    <3>1. CASE k \in 1 .. Len(gen[r])
      BY <2>0, <3>1 DEF Generated
    <3>2. CASE k = Len(gen[r]) + 1
      BY <2>0, <3>2
    <3>. QED  BY <2>0, <3>1, <3>2
  <2>. QED  BY <1>2, <2>1 DEF Generated
<1>5. HasRoom(r)'
  BY <1>0, <1>2, ServerAssumption DEF HasRoom, AnsweredCut, Calls
<1>6. Aligned(r)'
  BY DEF Aligned
<1>. QED  BY <1>3, <1>4, <1>5, <1>6

LEMMA ServeResponse ==
  ASSUME TypeOK, NEW r \in Responses, Serve(r), out' = out,
         Carried(r), Generated(r), HasRoom(r), Aligned(r)
  PROVE  Carried(r)' /\ Generated(r)' /\ HasRoom(r)' /\ Aligned(r)'
<1>0. call[r] \in Calls /\ call \in [Responses -> Calls]
  BY DEF TypeOK
<1>. USE DEF Carried, Generated, HasRoom, AnsweredCut, Aligned
<1>1. CASE Admit(r)
  BY <1>0, <1>1 DEF Admit, Moved, Calls
<1>2. CASE Wake(r)
  <2>1. /\ call'[r].context = call[r].context
        /\ call'[r].at \in {"replied", "closing"}
        /\ call[r].at \in {"running", "finished"}
        /\ call'[r].cut => call[r].at = "running"
    BY <1>0, <1>2 DEF Wake, Calls
  <2>. QED  BY <1>2, <2>1 DEF Wake
<1>3. CASE Close(r)
  BY <1>0, <1>3 DEF Close, Moved, Calls
<1>. QED  BY <1>1, <1>2, <1>3, GenerateResponse DEF Serve

LEMMA ShorterFits ==
  ASSUME NEW p \in Nat, NEW t \in Nat, NEW g \in Nat, NEW n \in Nat, NEW m \in Nat,
         n <= t + g, p + t + g < m
  PROVE  p + n < m
OBVIOUS

(* What run() builds is aligned again.                                     *)
LEMMA AbsorbResponse ==
  ASSUME TypeOK, NEW r \in Responses, Absorb(r),
         Carried(r), Generated(r), HasRoom(r), Aligned(r)
  PROVE  /\ Carried(r)' /\ Generated(r)' /\ HasRoom(r)' /\ Aligned(r)'
         /\ out[r].cut
         /\ Len(out[r].text) <= Len(out'[r].text)
         /\ \A i \in 1 .. Len(out[r].text) : out'[r].text[i] = out[r].text[i]
<1>. DEFINE text == out[r].text
            probs == out[r].probs
            all == text \o gen[r]
            allProbs == probs \o gen[r]
            new == Cut(all, ResponseLen)
<1>0. /\ call[r] \in Calls /\ gen[r] \in Seq(Tokens)
      /\ text \in Seq(Tokens) /\ probs \in Seq(Tokens)
      /\ out \in [Responses -> Outputs]
      /\ call \in [Responses -> Calls] /\ gen \in [Responses -> Seq(Tokens)]
  BY DEF TypeOK, Outputs
<1>1. /\ out'[r].cut = call[r].cut
      /\ out'[r].text = new
      /\ out'[r].probs = allProbs
      /\ call'[r].at = "none" /\ gen'[r] = << >>
      /\ call[r].at = "replied"
  BY <1>0 DEF Absorb, Idle
<1>2. out[r].cut /\ call[r].context = PromptLen + Len(text)
  BY <1>1 DEF Carried
<1>3. /\ all \in Seq(Tokens) /\ allProbs \in Seq(Tokens)
      /\ Len(all) = Len(text) + Len(gen[r])
      /\ Len(allProbs) = Len(probs) + Len(gen[r])
      /\ \A i \in 1 .. Len(text) : all[i] = text[i]
      /\ \A i \in 1 .. Len(probs) : allProbs[i] = probs[i]
      /\ \A i \in 1 .. Len(gen[r]) : all[Len(text) + i] = gen[r][i]
      /\ \A i \in 1 .. Len(gen[r]) : allProbs[Len(probs) + i] = gen[r][i]
  BY <1>0
<1>4. /\ Len(new) = IF Len(all) > ResponseLen THEN ResponseLen ELSE Len(all)
      /\ \A i \in 1 .. Len(new) : new[i] = all[i]
  BY <1>3, CutType, AgentAssumption
<1>5. /\ Len(text) <= ResponseLen /\ Len(text) <= Len(probs)
      /\ Len(text) < ResponseLen => Len(probs) = Len(text)
      /\ \A i \in 1 .. Len(text) : text[i] = probs[i] /\ text[i].pos = PromptLen + i
  BY DEF Aligned
<1>6. \A i \in 1 .. Len(gen[r]) : gen[r][i].pos = PromptLen + Len(text) + i
  BY <1>2 DEF Generated
<1>. HIDE DEF all, allProbs, new, text, probs
<1>7. /\ Len(text) \in Nat /\ Len(probs) \in Nat /\ Len(gen[r]) \in Nat
      /\ ResponseLen \in Nat /\ PromptLen \in Nat /\ MaxModelLen \in Nat
      /\ Len(all) = Len(text) + Len(gen[r])
      /\ Len(allProbs) = Len(probs) + Len(gen[r])
      /\ Len(new) \in Nat /\ Len(new) <= ResponseLen /\ Len(new) <= Len(all)
      /\ Len(new) < ResponseLen => Len(new) = Len(all)
      /\ Len(text) <= Len(new)
  <2>1. /\ Len(text) \in Nat /\ Len(probs) \in Nat /\ Len(gen[r]) \in Nat
        /\ ResponseLen \in Nat /\ PromptLen \in Nat /\ MaxModelLen \in Nat
    BY <1>0, AgentAssumption, ServerAssumption
  <2>. QED  BY <1>3, <1>4, <1>5, <2>1
<1>8. \A i \in 1 .. Len(new) :
        /\ all[i] = allProbs[i]
        /\ all[i].pos = PromptLen + i
  <2>. SUFFICES ASSUME NEW i \in 1 .. Len(new)
                PROVE  all[i] = allProbs[i] /\ all[i].pos = PromptLen + i
    OBVIOUS
  <2>1. CASE i \in 1 .. Len(text)
    <3>1. i \in 1 .. Len(probs)
      BY <1>5, <1>7, <2>1
    <3>. QED  BY <1>3, <1>5, <2>1, <3>1
  <2>2. CASE i \notin 1 .. Len(text)
    <3>1. i <= ResponseLen /\ i <= Len(all)
      BY <1>3, <1>4, <1>7
    <3>2. Len(probs) = Len(text)
      BY <1>5, <1>7, <2>2, <3>1
    <3>3. PICK k \in 1 .. Len(gen[r]) : i = Len(text) + k
      <4>1. i - Len(text) \in 1 .. Len(gen[r])
        BY <1>3, <1>7, <2>2, <3>1
      <4>2. i = Len(text) + (i - Len(text))
        BY <1>7
      <4>. QED  BY <4>1, <4>2
    <3>4. all[i] = gen[r][k] /\ allProbs[i] = gen[r][k]
      <4>1. all[Len(text) + k] = gen[r][k] /\ allProbs[Len(probs) + k] = gen[r][k]
        BY <1>3, <3>3
      <4>. QED  BY <3>2, <3>3, <4>1
    <3>5. gen[r][k].pos = PromptLen + Len(text) + k
      BY <1>6, <3>3
    <3>. QED  BY <1>7, <3>3, <3>4, <3>5
  <2>. QED  BY <1>7, <2>1, <2>2
<1>9. Aligned(r)'
  <2>1. /\ Len(new) <= ResponseLen
        /\ Len(new) <= Len(allProbs)
        /\ Len(new) < ResponseLen
             => Len(allProbs) = Len(new)
    <3>1. Len(text) <= Len(probs) /\ (Len(text) < ResponseLen => Len(probs) = Len(text))
      BY <1>5
    <3>. QED  BY <1>7, <3>1
  <2>2. \A i \in 1 .. Len(new) :
           new[i] = allProbs[i] /\ new[i].pos = PromptLen + i
    BY <1>4, <1>8
  <2>. QED  BY <1>1, <2>1, <2>2 DEF Aligned
<1>10. HasRoom(r)'
  <2>1. call[r].cut => PromptLen + Len(text) + Len(gen[r]) < MaxModelLen
    <3>1. call[r].cut => call[r].context + Len(gen[r]) < MaxModelLen
      BY <1>1 DEF HasRoom, AnsweredCut
    <3>. QED  BY <1>2, <1>7, <3>1
  <2>2. ASSUME call[r].cut PROVE PromptLen + Len(new) < MaxModelLen
    <3>1. PromptLen + Len(text) + Len(gen[r]) < MaxModelLen
      BY <2>1, <2>2
    <3>2. Len(new) <= Len(text) + Len(gen[r])
      BY <1>7
    <3>. QED  BY <1>7, <3>1, <3>2, ShorterFits
  <2>. QED  BY <1>1, <2>2 DEF HasRoom, AnsweredCut
<1>11. Carried(r)' /\ Generated(r)'
  BY <1>1 DEF Carried, Generated
<1>12. Len(text) <= Len(out'[r].text) /\ \A i \in 1 .. Len(text) : out'[r].text[i] = text[i]
  <2>1. Len(text) <= Len(new)
    BY <1>7
  <2>2. ASSUME NEW i \in 1 .. Len(text) PROVE new[i] = text[i]
    <3>1. i \in 1 .. Len(new)
      BY <1>7, <2>1
    <3>. QED  BY <1>3, <1>4, <3>1
  <2>. QED  BY <1>1, <2>1, <2>2
<1>. QED  BY <1>2, <1>9, <1>10, <1>11, <1>12 DEF text

(* A response that is sent has room, because it was cut.                   *)
LEMMA StartResponse ==
  ASSUME TypeOK, CallsHaveTasks, NEW s \in Samples, Start(s), NEW r \in Responses,
         Carried(r), Generated(r), HasRoom(r), Aligned(r)
  PROVE  Carried(r)' /\ Generated(r)' /\ HasRoom(r)' /\ Aligned(r)'
<1>0. out' = out /\ gen' = gen /\ call \in [Responses -> Calls]
  BY DEF Start, TypeOK
<1>1. CASE r[1] = s /\ out[r].cut
  <2>1. /\ call'[r].at = "sent"
        /\ call'[r].context = PromptLen + Len(out[r].text)
    BY <1>1 DEF Start
  <2>2. call[r].at = "none"
    BY <1>1 DEF Start, CallsHaveTasks
  <2>3. gen[r] = << >>
    BY <2>2 DEF Generated
  <2>4. Len(out[r].text) \in Nat /\ PromptLen \in Nat /\ Len(gen[r]) = 0
    BY <2>3, AgentAssumption DEF TypeOK, Outputs
  <2>5. Carried(r)' /\ Generated(r)'
    BY <1>0, <1>1, <2>1, <2>3, <2>4 DEF Carried, Generated
  <2>6. HasRoom(r)'
    BY <1>0, <1>1, <2>1, <2>4 DEF HasRoom, AnsweredCut
  <2>7. Aligned(r)'
    BY <1>0 DEF Aligned
  <2>. QED  BY <2>5, <2>6, <2>7
<1>2. CASE ~(r[1] = s /\ out[r].cut)
  <2>1. Untouched(r)
    BY <1>0, <1>2 DEF Start, Untouched
  <2>. QED  BY <2>1, UntouchedResponse
<1>. QED  BY <1>1, <1>2

(* Which responses a step touches.                                         *)
LEMMA StepTouches ==
  ASSUME TypeOK, [Next]_vars
  PROVE  \/ \A q \in Responses : Untouched(q)
         \/ \E s \in Samples : Start(s)
         \/ \E r \in Responses : /\ Serve(r) /\ out' = out
                                 /\ \A q \in Responses \ {r} : Untouched(q)
         \/ \E r \in Responses : /\ Absorb(r)
                                 /\ \A q \in Responses \ {r} : Untouched(q)
<1>. USE DEF Untouched
<1>1. ASSUME NEW s \in Samples, Submit(s) \/ Gathered(s)
      PROVE  \A q \in Responses : Untouched(q)
  BY <1>1 DEF Submit, Gathered, serverVars
<1>2. ASSUME NEW r \in Responses, ServerStep(r)
      PROVE  Serve(r) /\ out' = out /\ \A q \in Responses \ {r} : Untouched(q)
  <2>1. Serve(r) /\ out' = out
    BY <1>2 DEF ServerStep
  <2>2. \A q \in Responses \ {r} : call'[q] = call[q] /\ gen'[q] = gen[q]
    BY <2>1 DEF Serve, Admit, Generate, Wake, Close, Moved, TypeOK
  <2>. QED  BY <2>1, <2>2
<1>3. ASSUME NEW r \in Responses, Absorb(r)
      PROVE  \A q \in Responses \ {r} : Untouched(q)
  BY <1>3 DEF Absorb, TypeOK
<1>4. ASSUME Sync PROVE \A q \in Responses : Untouched(q)
  BY <1>4
     DEF Sync, PauseBegin, PauseGather, PauseEnd, SyncTransfer, Transfer,
         UpdateVersion, ResumeBegin, ResumeEnd, CancelServer, Cancel, ResetServer,
         ResetBegin, ResetDone, ResetEnd, ResumeServer, Resume, serverVars
<1>5. ASSUME UNCHANGED vars PROVE \A q \in Responses : Untouched(q)
  BY <1>5 DEF vars, serverVars
<1>. QED  BY <1>1, <1>2, <1>3, <1>4, <1>5 DEF Next, AllComplete

LEMMA ResponseStep ==
  ASSUME TypeOK, CallsHaveTasks, ResponseInv, [Next]_vars
  PROVE  ResponseInv'
<1>. SUFFICES ASSUME NEW q \in Responses
              PROVE  Carried(q)' /\ Generated(q)' /\ HasRoom(q)' /\ Aligned(q)'
  BY DEF ResponseInv
<1>0. Carried(q) /\ Generated(q) /\ HasRoom(q) /\ Aligned(q)
  BY DEF ResponseInv
<1>1. CASE Untouched(q)
  BY <1>0, <1>1, UntouchedResponse
<1>2. CASE \E s \in Samples : Start(s)
  BY <1>0, <1>2, StartResponse
<1>3. CASE Serve(q) /\ out' = out
  BY <1>0, <1>3, ServeResponse
<1>4. CASE Absorb(q)
  BY <1>0, <1>4, AbsorbResponse
<1>. QED  BY <1>1, <1>2, <1>3, <1>4, StepTouches

LEMMA SpecResponseInv == SafetySpec => []ResponseInv
<1>1. Init => ResponseInv
  <2>. SUFFICES ASSUME Init, NEW r \in Responses
                PROVE  Carried(r) /\ Generated(r) /\ HasRoom(r) /\ Aligned(r)
    BY DEF ResponseInv
  <2>1. out[r] = Fresh /\ call[r].at = "none" /\ gen[r] = << >>
    BY DEF Init, ServerInit, Idle
  <2>2. Len(out[r].text) = 0 /\ Len(out[r].probs) = 0 /\ Len(gen[r]) = 0
    BY <2>1 DEF Fresh
  <2>. QED
    BY <2>1, <2>2, AgentAssumption
       DEF Carried, Generated, HasRoom, AnsweredCut, Aligned
<1>2. TypeOK /\ CallsHaveTasks /\ ResponseInv /\ [Next]_vars => ResponseInv'
  BY ResponseStep
<1>3. QuietInv => CallsHaveTasks
  BY DEF QuietInv
<1>. QED  BY <1>1, <1>2, <1>3, SpecTypeOK, SpecQuietInv, PTL DEF SafetySpec

(* Token i of a response and log_prob i belong together, and the token was *)
(* sampled behind exactly the i - 1 tokens before it, however often the    *)
(* response was refused, cut and resumed (README.md:150-154).              *)
THEOREM SpecLogProbsAligned == SafetySpec => []LogProbsAligned
<1>1. TypeOK /\ ResponseInv => LogProbsAligned
  <2>. SUFFICES ASSUME TypeOK, ResponseInv, NEW r \in Responses,
                       NEW i \in DOMAIN out[r].text
                PROVE  /\ i \in DOMAIN out[r].probs
                       /\ out[r].text[i] = out[r].probs[i]
                       /\ out[r].text[i].pos = PromptLen + i
    BY DEF LogProbsAligned
  <2>1. /\ out[r].text \in Seq(Tokens) /\ out[r].probs \in Seq(Tokens)
        /\ Aligned(r)
    BY DEF TypeOK, Outputs, ResponseInv
  <2>2. i \in 1 .. Len(out[r].text) /\ Len(out[r].text) <= Len(out[r].probs)
    BY <2>1 DEF Aligned
  <2>3. i \in 1 .. Len(out[r].probs)
    BY <2>1, <2>2
  <2>. QED  BY <2>1, <2>2, <2>3 DEF Aligned
<1>. QED  BY <1>1, SpecTypeOK, SpecResponseInv, PTL

(* max_tokens of a request is positive (vllm_async_server.py:64): a        *)
(* response that comes back as cut was not ended by the model's length.    *)
THEOREM SpecRoomLeft == SafetySpec => []RoomLeft
<1>1. ResponseInv => RoomLeft
  BY DEF ResponseInv, HasRoom, RoomLeft
<1>. QED  BY <1>1, SpecResponseInv, PTL

(* A response only grows, and is final once it is complete                 *)
(* (partial_single_turn_agent_loop.py:76-87).                              *)
THEOREM SpecOnlyGrows == SafetySpec => OnlyGrows
<1>. DEFINE Grows(r) ==
       /\ ~out[r].cut => out'[r] = out[r]
       /\ Len(out[r].text) <= Len(out'[r].text)
       /\ \A i \in DOMAIN out[r].text : out'[r].text[i] = out[r].text[i]
<1>1. TypeOK /\ ResponseInv /\ [Next]_vars => [\A r \in Responses : Grows(r)]_vars
  <2>. SUFFICES ASSUME TypeOK, ResponseInv, [Next]_vars, NEW r \in Responses
                PROVE  Grows(r)
    OBVIOUS
  <2>1. out[r].text \in Seq(Tokens) /\ DOMAIN out[r].text = 1 .. Len(out[r].text)
    BY DEF TypeOK, Outputs
  <2>2. CASE out'[r] = out[r]
    BY <2>1, <2>2
  <2>3. CASE Absorb(r)
    BY <2>1, <2>3, AbsorbResponse DEF ResponseInv
  <2>4. ASSUME NEW s \in Samples, Start(s) PROVE out'[r] = out[r]
    BY <2>4 DEF Start
  <2>. QED  BY <2>2, <2>3, <2>4, StepTouches DEF Untouched
<1>. QED  BY <1>1, SpecTypeOK, SpecResponseInv, PTL DEF SafetySpec, OnlyGrows

-----------------------------------------------------------------------------
(* The versions of a response.                                             *)

(* From the gather of pause() until resume() has reached a server, no      *)
(* tokens are on any server: a call of that time can only be refused.      *)
NothingGenerated ==
  phase \in Silent => \A r \in Responses : gen[r] = << >>

(* The Rollouter knows the version of the engines, except between the      *)
(* transfer and update_param_version, when it is one behind.               *)
VersionKnown ==
  /\ phase # "update" => version = weights
  /\ phase = "update" => weights = version + 1

(* A call is stamped with the version that generates it, or with the one   *)
(* before when its task started during that gap.  It ends before the next  *)
(* synchronisation, which gathers it.                                      *)
Stamped(r) ==
  /\ call[r].at # "none" =>
       /\ out[r].end <= call[r].version /\ call[r].version <= version
       /\ weights <= call[r].version + 1
       /\ phase \in {"reset", "transfer"} => call[r].version = weights
  /\ \A k \in 1 .. Len(gen[r]) : gen[r][k].w = weights

Spanned(r) ==
  /\ out[r].start <= out[r].end /\ out[r].end <= version
  /\ out[r].start = -1 => Len(out[r].text) = 0
  /\ \A i \in 1 .. Len(out[r].text) :
       /\ out[r].start <= out[r].text[i].w
       /\ out[r].text[i].w <= out[r].end + 1 /\ out[r].text[i].w <= weights
       /\ i > 1 => out[r].text[i - 1].w <= out[r].text[i].w

SpanInv ==
  /\ NothingGenerated /\ VersionKnown
  /\ \A r \in Responses : Stamped(r) /\ Spanned(r)

(* Only the synchronisation moves the versions and the phase.              *)
LEMMA VersionsMove ==
  ASSUME [Next]_vars
  PROVE  Sync \/ UNCHANGED <<version, weights, phase>>
<1>1. ASSUME NEW s \in Samples, Submit(s) \/ Start(s) \/ Gathered(s)
      PROVE  UNCHANGED <<version, weights, phase>>
  BY <1>1 DEF Submit, Start, Gathered, serverVars, syncVars
<1>2. ASSUME NEW r \in Responses, ServerStep(r) \/ Absorb(r)
      PROVE  UNCHANGED <<version, weights, phase>>
  BY <1>2 DEF ServerStep, Serve, Admit, Generate, Wake, Close, Absorb, syncVars
<1>3. CASE UNCHANGED vars
  BY <1>3 DEF vars, serverVars, syncVars
<1>. QED  BY <1>1, <1>2, <1>3 DEF Next, AllComplete

(* What a step of the synchronisation does to versions, phase and calls.   *)
LEMMA SyncEffect ==
  ASSUME Sync
  PROVE  /\ UNCHANGED <<out, call, gen, task>>
         /\ \/ SyncTransfer \/ UpdateVersion \/ PauseGather
            \/ UNCHANGED <<version, weights, phase>>
            \/ UNCHANGED <<version, weights>>
               /\ <<phase, phase'>> \in {<<"run", "cancel">>, <<"reset", "transfer">>,
                                         <<"updated", "resume">>, <<"resume", "run">>}
<1>. USE DEF Goto, serverVars, syncVars
<1>1. CASE PauseBegin \/ PauseGather \/ PauseEnd
  BY <1>1 DEF PauseBegin, PauseGather, PauseEnd
<1>2. CASE SyncTransfer \/ UpdateVersion
  BY <1>2 DEF SyncTransfer, Transfer, UpdateVersion
<1>3. CASE ResumeBegin \/ ResumeEnd
  BY <1>3 DEF ResumeBegin, ResumeEnd
<1>4. ASSUME NEW srv \in Servers,
             CancelServer(srv) \/ ResumeServer(srv) \/ ResetServer(srv) \/ ResetDone(srv)
      PROVE  UNCHANGED <<out, call, gen, task, version, weights, phase>>
  BY <1>4
     DEF CancelServer, Cancel, ResumeServer, Resume, ResetServer, ResetBegin,
         ResetDone, ResetEnd
<1>. QED  BY <1>1, <1>2, <1>3, <1>4 DEF Sync

LEMMA NothingGeneratedStep ==
  ASSUME TypeOK, QuietInv, ResponseInv, NothingGenerated, [Next]_vars
  PROVE  NothingGenerated'
<1>. SUFFICES ASSUME phase' \in Silent, NEW r \in Responses PROVE gen'[r] = << >>
  BY DEF NothingGenerated
<1>1. CASE Sync
  <2>1. CASE PauseGather
    <3>1. call[r].at = "none"
      BY <2>1 DEF PauseGather, Responses, QuietInv, CallsHaveTasks
    <3>2. gen[r] = << >>
      BY <3>1 DEF ResponseInv, Generated
    <3>. QED  BY <1>1, <3>2, SyncEffect
  <2>2. CASE ~PauseGather
    <3>1. phase \in Silent
      BY <1>1, <2>2, SyncEffect DEF Silent, SyncTransfer, UpdateVersion
    <3>. QED  BY <1>1, <3>1, SyncEffect DEF NothingGenerated
  <2>. QED  BY <2>1, <2>2
<1>2. CASE UNCHANGED <<version, weights, phase>>
  <2>1. gen[r] = << >> /\ call[r].at \notin {"running", "finished", "closing"}
    BY <1>2 DEF NothingGenerated, QuietInv, NoneAdmitted
  <2>2. CASE Untouched(r)
    BY <2>1, <2>2 DEF Untouched
  <2>3. CASE \E s \in Samples : Start(s)
    BY <2>1, <2>3 DEF Start
  <2>4. CASE Serve(r) /\ out' = out
    BY <2>1, <2>4 DEF Serve, Admit, Generate, Wake, Close
  <2>5. CASE Absorb(r)
    BY <2>5 DEF Absorb, TypeOK
  <2>. QED  BY <2>2, <2>3, <2>4, <2>5, StepTouches
<1>. QED  BY <1>1, <1>2, VersionsMove

LEMMA VersionKnownStep ==
  ASSUME TypeOK, VersionKnown, [Next]_vars
  PROVE  VersionKnown'
<1>. USE DEF VersionKnown
<1>0. version \in Int /\ weights \in Int
  BY DEF TypeOK
<1>1. CASE SyncTransfer
  BY <1>0, <1>1 DEF SyncTransfer, Transfer, Goto
<1>2. CASE UpdateVersion
  BY <1>0, <1>2 DEF UpdateVersion, Goto, serverVars
<1>3. CASE PauseGather
  BY <1>3 DEF PauseGather, Goto, serverVars
<1>4. CASE UNCHANGED <<version, weights, phase>>
  BY <1>4
<1>5. CASE /\ UNCHANGED <<version, weights>>
           /\ <<phase, phase'>> \in {<<"run", "cancel">>, <<"reset", "transfer">>,
                                     <<"updated", "resume">>, <<"resume", "run">>}
  BY <1>5
<1>. QED  BY <1>1, <1>2, <1>3, <1>4, <1>5, SyncEffect, VersionsMove

LEMMA UntouchedSpan ==
  ASSUME NEW r \in Responses, Untouched(r), UNCHANGED <<version, weights, phase>>,
         Stamped(r), Spanned(r)
  PROVE  Stamped(r)' /\ Spanned(r)'
BY DEF Untouched, Stamped, Spanned

LEMMA ServeSpan ==
  ASSUME TypeOK, NEW r \in Responses, Serve(r), out' = out,
         UNCHANGED <<version, weights, phase>>, Stamped(r), Spanned(r)
  PROVE  Stamped(r)' /\ Spanned(r)'
<1>0. /\ call \in [Responses -> Calls] /\ call[r] \in Calls
      /\ gen \in [Responses -> Seq(Tokens)] /\ gen[r] \in Seq(Tokens)
  BY DEF TypeOK
<1>1. call[r].at # "none" /\ call'[r].version = call[r].version
  <2>1. CASE Admit(r)
    BY <1>0, <2>1 DEF Admit, Moved, Calls
  <2>2. CASE Generate(r)
    BY <1>0, <2>2 DEF Generate, Moved, Calls
  <2>3. CASE Wake(r)
    BY <1>0, <2>3 DEF Wake, Calls
  <2>4. CASE Close(r)
    BY <1>0, <2>4 DEF Close, Moved, Calls
  <2>. QED  BY <2>1, <2>2, <2>3, <2>4 DEF Serve
<1>2. \A k \in 1 .. Len(gen'[r]) : gen'[r][k].w = weights
  <2>1. CASE gen' = gen
    BY <2>1 DEF Stamped
  <2>2. CASE Generate(r)
    <3>. DEFINE token == [w |-> weights, pos |-> call[r].context + Len(gen[r]) + 1]
    <3>1. token \in Tokens /\ token.w = weights /\ Len(gen[r]) \in Nat
      BY <1>0 DEF Calls, Tokens, TypeOK
    <3>2. gen'[r] = Append(gen[r], token)
      BY <1>0, <2>2 DEF Generate
    <3>. HIDE DEF token
    <3>3. /\ Len(gen'[r]) = Len(gen[r]) + 1
          /\ \A k \in 1 .. Len(gen[r]) : gen'[r][k] = gen[r][k]
          /\ gen'[r][Len(gen[r]) + 1] = token
      BY <1>0, <3>1, <3>2
    <3>4. \A k \in 1 .. Len(gen[r]) : gen[r][k].w = weights
      BY DEF Stamped
    <3>5. ASSUME NEW k \in 1 .. Len(gen'[r])
          PROVE  k \in 1 .. Len(gen[r]) \/ k = Len(gen[r]) + 1
      BY <3>1, <3>3
    <3>. QED  BY <3>1, <3>3, <3>4, <3>5
  <2>. QED  BY <2>1, <2>2 DEF Serve, Admit, Wake, Close
<1>3. Stamped(r)'
  BY <1>1, <1>2 DEF Stamped
<1>4. Spanned(r)'
  BY DEF Spanned
<1>. QED  BY <1>3, <1>4

(* The part a call adds is of one version, no older than what was there    *)
(* and at most one newer than the stamp of the call.                       *)
LEMMA AbsorbSpan ==
  ASSUME TypeOK, VersionKnown, NEW r \in Responses, Absorb(r),
         UNCHANGED <<version, weights, phase>>, Stamped(r), Spanned(r)
  PROVE  Stamped(r)' /\ Spanned(r)'
<1>. DEFINE text == out[r].text
            all == text \o gen[r]
            new == Cut(all, ResponseLen)
            stamp == call[r].version
            start == IF out[r].start = -1 THEN stamp ELSE out[r].start
<1>0. /\ call[r] \in Calls /\ gen[r] \in Seq(Tokens) /\ text \in Seq(Tokens)
      /\ out[r] \in Outputs
      /\ out \in [Responses -> Outputs]
      /\ call \in [Responses -> Calls] /\ gen \in [Responses -> Seq(Tokens)]
      /\ version \in Nat /\ weights \in Nat
  BY DEF TypeOK, Outputs
<1>1. /\ out'[r].text = new /\ out'[r].start = start /\ out'[r].end = stamp
      /\ call'[r].at = "none" /\ gen'[r] = << >>
      /\ call[r].at = "replied"
  BY <1>0 DEF Absorb, Idle
<1>2. /\ stamp \in Nat /\ out[r].end <= stamp
      /\ stamp <= version /\ version <= weights /\ weights <= stamp + 1
  <2>1. version = weights \/ weights = version + 1
    BY DEF VersionKnown
  <2>. QED  BY <1>0, <1>1, <2>1 DEF Stamped, Calls
<1>3. /\ all \in Seq(Tokens)
      /\ Len(all) = Len(text) + Len(gen[r])
      /\ \A i \in 1 .. Len(text) : all[i] = text[i]
      /\ \A i \in 1 .. Len(gen[r]) : all[Len(text) + i] = gen[r][i]
  BY <1>0
<1>4. /\ Len(new) \in Nat /\ Len(new) <= Len(all)
      /\ \A i \in 1 .. Len(new) : new[i] = all[i]
  <2>1. new \in Seq(Tokens)
    BY <1>3, CutType, AgentAssumption
  <2>2. /\ Len(new) = IF Len(all) > ResponseLen THEN ResponseLen ELSE Len(all)
        /\ \A i \in 1 .. Len(new) : new[i] = all[i]
    BY <1>3, CutType, AgentAssumption
  <2>. HIDE DEF all, new
  <2>3. Len(all) \in Nat
    <3>1. all \in Seq(Tokens)
      BY <1>3
    <3>. QED  BY <3>1
  <2>4. Len(new) \in Nat
    BY <2>1
  <2>5. ResponseLen \in Nat
    BY AgentAssumption
  <2>. QED  BY <2>2, <2>3, <2>4, <2>5
<1>5. /\ Len(text) \in Nat /\ Len(gen[r]) \in Nat
      /\ out[r].start \in -1 .. MaxVersion /\ out[r].end \in -1 .. MaxVersion
  BY <1>0 DEF Outputs
<1>6. /\ out[r].start <= out[r].end /\ out[r].end <= version
      /\ out[r].start = -1 => Len(text) = 0
      /\ \A i \in 1 .. Len(text) :
           /\ out[r].start <= text[i].w /\ text[i].w <= out[r].end + 1
           /\ text[i].w <= weights
           /\ i > 1 => text[i - 1].w <= text[i].w
  BY DEF Spanned
<1>7. \A i \in 1 .. Len(gen[r]) : gen[r][i].w = weights
  BY DEF Stamped
<1>8. \A i \in 1 .. Len(text) : text[i].w \in Nat
  <2>1. \A i \in 1 .. Len(text) : text[i] \in Tokens
    BY <1>0
  <2>2. \A t \in Tokens : t.w \in Nat
    BY ServerAssumption DEF Tokens
  <2>. QED  BY <2>1, <2>2
<1>9. start \in Nat /\ start <= stamp /\ (Len(text) > 0 => start = out[r].start)
  BY <1>0, <1>2, <1>5, <1>6, ServerAssumption
<1>. HIDE DEF text, all, new, start, stamp
<1>10. \A i \in 1 .. Len(new) :
         \/ i \in 1 .. Len(text) /\ new[i] = text[i]
         \/ i > Len(text) /\ new[i].w = weights
  <2>. SUFFICES ASSUME NEW i \in 1 .. Len(new), i \notin 1 .. Len(text)
                PROVE  i > Len(text) /\ new[i].w = weights
    BY <1>3, <1>4
  <2>1. i > Len(text) /\ i - Len(text) \in 1 .. Len(gen[r])
    BY <1>3, <1>4, <1>5
  <2>2. PICK k \in 1 .. Len(gen[r]) : i = Len(text) + k
    <3>1. i = Len(text) + (i - Len(text))
      BY <1>5
    <3>. QED  BY <2>1, <3>1
  <2>3. new[i] = gen[r][k]
    BY <1>3, <1>4, <2>2
  <2>. QED  BY <1>7, <2>1, <2>3
<1>11. ASSUME NEW i \in 1 .. Len(new)
       PROVE  start <= new[i].w /\ new[i].w <= stamp + 1 /\ new[i].w <= weights
  <2>1. CASE i \in 1 .. Len(text) /\ new[i] = text[i]
    <3>1. /\ out[r].start <= text[i].w /\ text[i].w <= out[r].end + 1
          /\ text[i].w <= weights /\ start = out[r].start
      BY <1>5, <1>6, <1>9, <2>1
    <3>. QED  BY <1>0, <1>2, <1>5, <1>8, <2>1, <3>1
  <2>2. CASE new[i].w = weights
    BY <1>0, <1>2, <1>9, <2>2
  <2>. QED  BY <1>10, <2>1, <2>2
<1>12. ASSUME NEW i \in 1 .. Len(new), i > 1
       PROVE  new[i - 1].w <= new[i].w
  <2>0. i - 1 \in 1 .. Len(new)
    BY <1>4, <1>12
  <2>1. CASE i \in 1 .. Len(text) /\ new[i] = text[i]
    <3>1. i - 1 \in 1 .. Len(text)
      BY <1>5, <1>12, <2>1
    <3>2. new[i - 1] = text[i - 1]
      BY <1>3, <1>4, <2>0, <3>1
    <3>. QED  BY <1>6, <1>12, <2>1, <3>2
  <2>2. CASE new[i].w = weights
    BY <1>11, <2>0, <2>2
  <2>. QED  BY <1>10, <2>1, <2>2
<1>13. Spanned(r)'
  BY <1>0, <1>1, <1>2, <1>9, <1>11, <1>12 DEF Spanned
<1>14. Stamped(r)'
  BY <1>1 DEF Stamped
<1>. QED  BY <1>13, <1>14

LEMMA StartSpan ==
  ASSUME TypeOK, VersionKnown, NEW s \in Samples, Start(s),
         NEW r \in Responses, Stamped(r), Spanned(r)
  PROVE  Stamped(r)' /\ Spanned(r)'
<1>1. UNCHANGED <<out, gen, weights, version, phase>>
  BY DEF Start, syncVars
<1>2. /\ version \in Nat /\ weights <= version + 1
      /\ phase \in {"reset", "transfer"} => version = weights
  BY DEF VersionKnown, TypeOK
<1>3. call'[r] = call[r] \/ call'[r].version = version
  BY DEF Start
<1>4. out[r].end <= version /\ version <= version
  BY <1>2 DEF Spanned
<1>5. Stamped(r)'
  BY <1>1, <1>2, <1>3, <1>4 DEF Stamped
<1>6. Spanned(r)'
  BY <1>1 DEF Spanned
<1>. QED  BY <1>5, <1>6

(* The weights change while no server holds a token, and every call that   *)
(* is under way then was stamped with the weights they replace.            *)
LEMMA SyncSpan ==
  ASSUME TypeOK, CallsHaveTasks, SpanInv, Sync, NEW r \in Responses
  PROVE  Stamped(r)' /\ Spanned(r)'
<1>. USE DEF Goto
<1>0. /\ version \in Nat /\ weights \in Nat
      /\ call[r].version \in Nat /\ out[r].end \in Int
      /\ \A i \in 1 .. Len(out[r].text) : out[r].text[i].w \in Nat
  <2>1. out[r] \in Outputs /\ call[r] \in Calls
    BY DEF TypeOK
  <2>2. out[r].text \in Seq(Tokens)
    BY <2>1 DEF Outputs
  <2>3. \A t \in Tokens : t.w \in Nat
    BY ServerAssumption DEF Tokens
  <2>4. \A i \in 1 .. Len(out[r].text) : out[r].text[i] \in Tokens
    BY <2>2
  <2>. QED  BY <2>1, <2>3, <2>4 DEF TypeOK, Calls, Outputs
<1>1. UNCHANGED <<out, call, gen>> /\ Stamped(r) /\ Spanned(r) /\ VersionKnown
  BY SyncEffect DEF SpanInv
<1>2. CASE SyncTransfer
  <2>1. /\ phase = "transfer" /\ phase' = "update"
        /\ version' = version /\ weights' = weights + 1
    BY <1>2 DEF SyncTransfer, Transfer
  <2>2. Len(gen[r]) = 0
    BY <2>1 DEF SpanInv, NothingGenerated, Silent
  <2>3. Stamped(r)'
    BY <1>0, <1>1, <2>1, <2>2 DEF Stamped
  <2>4. Spanned(r)'
    BY <1>0, <1>1, <2>1 DEF Spanned
  <2>. QED  BY <2>3, <2>4
<1>3. CASE UpdateVersion
  <2>1. /\ phase' = "updated" /\ weights' = weights
        /\ version' = version + 1
    BY <1>1, <1>3 DEF UpdateVersion, VersionKnown, serverVars
  <2>2. Stamped(r)'
    BY <1>0, <1>1, <2>1 DEF Stamped
  <2>3. Spanned(r)'
    BY <1>0, <1>1, <2>1 DEF Spanned
  <2>. QED  BY <2>2, <2>3
<1>4. CASE PauseGather
  <2>1. call[r].at = "none" /\ UNCHANGED <<version, weights>>
    BY <1>4 DEF PauseGather, Responses, CallsHaveTasks, serverVars
  <2>. QED  BY <1>1, <2>1 DEF Stamped, Spanned
<1>5. CASE /\ UNCHANGED <<version, weights>>
           /\ phase' \in {"reset", "transfer"} => phase \in {"reset", "transfer"}
  BY <1>1, <1>5 DEF Stamped, Spanned
<1>. QED  BY <1>2, <1>3, <1>4, <1>5, SyncEffect

LEMMA SpanStep ==
  ASSUME TypeOK, QuietInv, ResponseInv, SpanInv, [Next]_vars
  PROVE  SpanInv'
<1>1. NothingGenerated' /\ VersionKnown'
  BY NothingGeneratedStep, VersionKnownStep DEF SpanInv
<1>2. ASSUME NEW q \in Responses PROVE Stamped(q)' /\ Spanned(q)'
  <2>0. Stamped(q) /\ Spanned(q) /\ VersionKnown
    BY DEF SpanInv
  <2>1. CASE Sync
    BY <2>1, SyncSpan DEF QuietInv
  <2>2. CASE UNCHANGED <<version, weights, phase>>
    <3>1. CASE Untouched(q)
      BY <2>0, <2>2, <3>1, UntouchedSpan
    <3>2. CASE \E s \in Samples : Start(s)
      BY <2>0, <3>2, StartSpan
    <3>3. CASE Serve(q) /\ out' = out
      BY <2>0, <2>2, <3>3, ServeSpan
    <3>4. CASE Absorb(q)
      BY <2>0, <2>2, <3>4, AbsorbSpan
    <3>. QED  BY <3>1, <3>2, <3>3, <3>4, StepTouches
  <2>. QED  BY <2>1, <2>2, VersionsMove
<1>. QED  BY <1>1, <1>2 DEF SpanInv

(* The versions of the tokens of a response never fall, and lie between    *)
(* its param_version_start and one behind its param_version_end            *)
(* (agent_loop.py:64-67), whatever the monitor of the Rollouter does       *)
(* behind pause() (fully_async_rollouter.py:564-570).                      *)
THEOREM SpecVersionSpan == SafetySpec => []VersionSpan
<1>1. Init => SpanInv
  <2>. SUFFICES ASSUME Init PROVE SpanInv
    OBVIOUS
  <2>1. NothingGenerated /\ VersionKnown
    BY DEF Init, ServerInit, NothingGenerated, VersionKnown, Silent
  <2>2. ASSUME NEW r \in Responses PROVE Stamped(r) /\ Spanned(r)
    <3>1. /\ out[r] = Fresh /\ call[r].at = "none" /\ gen[r] = << >> /\ version = 0
      BY DEF Init, ServerInit, Idle
    <3>2. Len(gen[r]) = 0 /\ Len(out[r].text) = 0
      BY <3>1 DEF Fresh
    <3>. QED  BY <3>1, <3>2 DEF Stamped, Spanned, Fresh
  <2>. QED  BY <2>1, <2>2 DEF SpanInv
<1>2. TypeOK /\ QuietInv /\ ResponseInv /\ SpanInv /\ [Next]_vars => SpanInv'
  BY SpanStep
<1>3. TypeOK /\ SpanInv => VersionSpan
  <2>. SUFFICES ASSUME TypeOK, SpanInv, NEW r \in Responses,
                       NEW i \in DOMAIN out[r].text
                PROVE  /\ out[r].text[i].w \in out[r].start .. out[r].end + 1
                       /\ i > 1 => out[r].text[i - 1].w <= out[r].text[i].w
    BY DEF VersionSpan
  <2>1. /\ out[r].text \in Seq(Tokens) /\ Spanned(r)
        /\ out[r].start \in Int /\ out[r].end \in Int
    BY DEF TypeOK, Outputs, SpanInv
  <2>2. i \in 1 .. Len(out[r].text) /\ out[r].text[i] \in Tokens
    BY <2>1
  <2>3. out[r].text[i].w \in Int
    BY <2>2 DEF Tokens
  <2>. QED  BY <2>1, <2>2, <2>3 DEF Spanned
<1>. QED
  BY <1>1, <1>2, <1>3, SpecTypeOK, SpecQuietInv, SpecResponseInv, PTL
     DEF SafetySpec
=============================================================================
