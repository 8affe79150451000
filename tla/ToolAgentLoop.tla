--------------------------- MODULE ToolAgentLoop ---------------------------
(***************************************************************************)
(* Conversations with tools and a simulated user (tool_agent_loop.py), the *)
(* server manager they share (AsyncLLMServerManager) and what the agent    *)
(* loop worker makes of a finished one: padded ids, mask and log-probs,    *)
(* with the score on the last token (_run_agent_loop, _postprocess).       *)
(*                                                                         *)
(* A token is who wrote it and in which turn.  The manager's LRU cache     *)
(* (10000 conversations) is taken to be large enough never to evict.       *)
(***************************************************************************)
EXTENDS Gae, FiniteSets, FiniteSetsExt

CONSTANTS Talks,           \* conversations of one worker
          NumServers,
          PromptLen,       \* tokens of a prompt
          MaxPromptLen,    \* prompt_length
          ResponseLen,     \* response_length
          MaxAssistant,    \* max_assistant_turns
          MaxUser,         \* max_user_turns
          MaxParallel,     \* max_parallel_calls
          MaxCalls,        \* bound: tool calls in one answer
          MaxAnswer        \* bound: tokens of a tool's or user's answer

ASSUME ToolAssumption ==
  /\ {NumServers, PromptLen, MaxPromptLen, ResponseLen, MaxAssistant, MaxUser,
      MaxParallel, MaxCalls, MaxAnswer} \subseteq Nat \ {0}
  /\ PromptLen <= MaxPromptLen
  /\ IsFiniteSet(Talks)

VARIABLES
  interactive, \* interaction_config_path is set
  load,        \* weighted_serveres
  server,      \* request_id_to_server; 0 if none
  state,       \* AgentState, split at the waits
  ids,         \* prompt_ids: the prompt and all that follows
  mask,        \* response_mask
  probs,       \* response_logprobs: the token a log-prob belongs to
  assistant,   \* assistant_turns
  user,        \* user_turns
  calls,       \* of _call_tool, by number
  instances,   \* tool instances whose id create() returned, until release()
  out          \* AgentLoopOutput

manager == <<load, server>>
text == <<ids, mask, probs>>
turns == <<assistant, user>>
tools == <<calls, instances>>
vars == <<interactive, manager, state, text, turns, tools, out>>

Servers == 1 .. NumServers
MaxModelLen == MaxPromptLen + ResponseLen

Times(n, x) == [i \in 1 .. n |-> x]
UpTo(s, n) == SubSeq(s, 1, Min({Len(s), n}))
Prompt == Times(PromptLen, [by |-> "prompt", turn |-> 0])
Nothing == [prompt |-> <<>>, ids |-> <<>>, mask |-> <<>>, probs |-> <<>>, turns |-> 0]
NoProb == [by |-> "nobody", turn |-> 0]

Init ==
  /\ interactive \in BOOLEAN
  /\ load = [s \in Servers |-> 0]
  /\ server = [r \in Talks |-> 0]
  /\ state = [r \in Talks |-> "pending"]
  /\ ids = [r \in Talks |-> <<>>]
  /\ mask = [r \in Talks |-> <<>>]
  /\ probs = [r \in Talks |-> <<>>]
  /\ assistant = [r \in Talks |-> 0] /\ user = [r \in Talks |-> 0]
  /\ calls = [r \in Talks |-> <<>>] /\ instances = [r \in Talks |-> {}]
  /\ out = [r \in Talks |-> Nothing]

-----------------------------------------------------------------------------

Goto(r, to) == state' = [state EXCEPT ![r] = to]

(* n tokens of one writer follow: the three lists grow together.           *)
Append3(r, by, turn, n) ==
  LET new == Times(n, [by |-> by, turn |-> turn])
  IN  /\ ids' = [ids EXCEPT ![r] = @ \o new]
      /\ mask' = [mask EXCEPT ![r] = @ \o Times(n, IF by = "model" THEN 1 ELSE 0)]
      /\ probs' = [probs EXCEPT ![r] =
                     @ \o (IF by = "model" THEN new ELSE Times(n, NoProb))]

(* Python's s[-n:] and s[:len(s) - n].                                     *)
LastOf(s, n) == IF n = 0 THEN s ELSE SubSeq(s, Len(s) - n + 1, Len(s))
AllBut(s, n) == SubSeq(s, 1, Len(s) - n)

(* The end of run(): what lies behind the prompt, cut to response_length.  *)
Finish(r) ==
  /\ Goto(r, "done")
  /\ out' = [out EXCEPT ![r] =
       [prompt |-> AllBut(ids'[r], Len(mask'[r])),
        ids |-> UpTo(LastOf(ids'[r], Len(mask'[r])), ResponseLen),
        mask |-> UpTo(mask'[r], ResponseLen),
        probs |-> UpTo(probs'[r], ResponseLen),
        turns |-> assistant'[r] + user'[r] + 1]]

GoOn(r, to) == Goto(r, to) /\ UNCHANGED out

Prepare(r) ==
  /\ state[r] = "pending"
  /\ ids' = [ids EXCEPT ![r] = Prompt]
  /\ GoOn(r, "generating")
  /\ UNCHANGED <<interactive, manager, mask, probs, turns, tools>>

-----------------------------------------------------------------------------

(* Mutant: the server of a conversation is not remembered.                 *)
KnownNever(r) == FALSE

Known(r) == server[r] # 0

(* The root of the heap: the least weight, ties in a fixed order.          *)
Root == CHOOSE s \in Servers : \A t \in Servers :
          load[s] < load[t] \/ (load[s] = load[t] /\ s <= t)

(* What max_tokens leaves for the answer.                                  *)
Room(r) == MaxModelLen - Len(ids[r])

(* generate() picks the server and sends; the server refuses a prompt that *)
(* leaves no room for a token.  An exception that leaves run(), this one   *)
(* or one of those below ("raised"), fails the conversation and its batch. *)
Send(r) ==
  /\ state[r] = "generating"
  /\ IF Known(r) THEN UNCHANGED manager
     ELSE /\ server' = [server EXCEPT ![r] = Root]
          /\ load' = [load EXCEPT ![Root] = @ + 1]
  /\ GoOn(r, IF Room(r) > 0 THEN "waiting" ELSE "refused")
  /\ UNCHANGED <<interactive, text, turns, tools>>

Terminates(r) ==
  \/ Len(mask'[r]) >= ResponseLen
  \/ assistant'[r] >= MaxAssistant
  \/ user[r] >= MaxUser

(* Of the tool calls found in an answer, max_parallel_calls are made.      *)
Made(found) == Min({found, MaxParallel})

(* The answer: it ends the conversation, calls tools, or goes to the user. *)
Answer(r) ==
  /\ state[r] = "waiting"
  /\ assistant' = [assistant EXCEPT ![r] = @ + 1]
  /\ UNCHANGED <<interactive, manager, user, instances>>
  /\ \E n \in 1 .. Room(r) : Append3(r, "model", assistant'[r], n)
  /\ IF Terminates(r) THEN Finish(r) /\ UNCHANGED calls
     ELSE \/ \E found \in 1 .. MaxCalls :
               /\ calls' = [calls EXCEPT ![r] = Times(Made(found), "made")]
               /\ GoOn(r, "tools")
          \/ interactive /\ GoOn(r, "interacting") /\ UNCHANGED calls
          \/ ~interactive /\ Finish(r) /\ UNCHANGED calls

-----------------------------------------------------------------------------

(* A call goes on when another one has failed the conversation: gather()   *)
(* raises the first exception and cancels nothing.                         *)
Calling(r) == state[r] \in {"tools", "raised"}

(* _call_tool: create() returns an id,                                     *)
OpenCall(r, k) ==
  /\ Calling(r) /\ k \in DOMAIN calls[r] /\ calls[r][k] = "made"
  /\ calls' = [calls EXCEPT ![r][k] = "open"]
  /\ instances' = [instances EXCEPT ![r] = @ \cup {k}]
  /\ UNCHANGED <<interactive, manager, state, text, turns, out>>

(* or there is no id: the arguments are no JSON, there is no such tool, or *)
(* create() raised.  The exception becomes the answer, and the finally     *)
(* clause releases nothing, whatever create() has set up before it raised. *)
FailCall(r, k) ==
  /\ Calling(r) /\ k \in DOMAIN calls[r] /\ calls[r][k] = "made"
  /\ calls' = [calls EXCEPT ![r][k] = "over"]
  /\ UNCHANGED <<interactive, manager, state, text, turns, instances, out>>

(* Mutant: release() only behind an execute() that returned.               *)
CloseCallLeaks(r, k) ==
  /\ Calling(r) /\ k \in DOMAIN calls[r] /\ calls[r][k] = "open"
  /\ calls' = [calls EXCEPT ![r][k] = "over"]
  /\ instances' = [instances EXCEPT ![r] = @ \ {k}] \/ UNCHANGED instances
  /\ UNCHANGED <<interactive, manager, state, text, turns, out>>

(* execute() returns or raises, which becomes the answer, and the finally  *)
(* clause releases the instance.                                           *)
CloseCall(r, k) ==
  /\ Calling(r) /\ k \in DOMAIN calls[r] /\ calls[r][k] = "open"
  /\ calls' = [calls EXCEPT ![r][k] = "over"]
  /\ instances' = [instances EXCEPT ![r] = @ \ {k}]
  /\ UNCHANGED <<interactive, manager, state, text, turns, out>>

(* release() raises, or what execute() returned is no ToolResponse: nobody *)
(* catches that.                                                           *)
RaiseCall(r, k) ==
  /\ Calling(r) /\ k \in DOMAIN calls[r] /\ calls[r][k] = "open"
  /\ calls' = [calls EXCEPT ![r][k] = "over"]
  /\ instances' = [instances EXCEPT ![r] = @ \ {k}]
  /\ GoOn(r, "raised")
  /\ UNCHANGED <<interactive, manager, text, turns>>

(* Mutant: the answer may fill the response.                               *)
FitsExactly(r, n) == Len(mask[r]) + n <= ResponseLen

(* Room for the tools' answers and a token of the model behind them.       *)
Fits(r, n) == Len(mask[r]) + n < ResponseLen

(* gather() returns: the answers follow, or the conversation ends without  *)
(* them, or an answer raises, with an image where there is no processor or *)
(* with a video.                                                           *)
Gathered(r) ==
  /\ state[r] = "tools" /\ \A k \in DOMAIN calls[r] : calls[r][k] = "over"
  /\ calls' = [calls EXCEPT ![r] = <<>>]
  /\ UNCHANGED <<interactive, manager, assistant, instances>>
  /\ \/ \E n \in 1 .. MaxAnswer :
          IF Fits(r, n)
          THEN /\ Append3(r, "tool", user[r], n)
               /\ user' = [user EXCEPT ![r] = @ + 1]
               /\ GoOn(r, "generating")
          ELSE UNCHANGED <<text, user>> /\ Finish(r)
     \/ UNCHANGED <<text, user>> /\ GoOn(r, "raised")

(* Mutant: the mask does not grow with the words of the user.              *)
InteractUnmasked(r) ==
  /\ state[r] = "interacting"
  /\ user' = [user EXCEPT ![r] = @ + 1]
  /\ UNCHANGED <<interactive, manager, assistant, tools>>
  /\ \E n \in 1 .. MaxAnswer :
       /\ ids' = [ids EXCEPT ![r] = @ \o Times(n, [by |-> "user", turn |-> user[r]])]
       /\ UNCHANGED <<mask, probs>>
  /\ Finish(r) \/ GoOn(r, "generating")

(* The user answers, whatever the length, and may end the conversation.    *)
Interact(r) ==
  /\ state[r] = "interacting"
  /\ user' = [user EXCEPT ![r] = @ + 1]
  /\ UNCHANGED <<interactive, manager, assistant, tools>>
  /\ \E n \in 1 .. MaxAnswer : Append3(r, "user", user[r], n)
  /\ Finish(r) \/ GoOn(r, "generating")

(* generate_response() of the interaction raises.                          *)
InteractRaises(r) ==
  /\ state[r] = "interacting"
  /\ GoOn(r, "raised")
  /\ UNCHANGED <<interactive, manager, text, turns, tools>>

-----------------------------------------------------------------------------

Step(r) ==
  \/ Prepare(r) \/ Send(r) \/ Answer(r) \/ Gathered(r)
  \/ Interact(r) \/ InteractRaises(r)
  \/ \E k \in 1 .. MaxParallel :
       OpenCall(r, k) \/ FailCall(r, k) \/ CloseCall(r, k) \/ RaiseCall(r, k)

Over(r) == state[r] \in {"done", "refused", "raised"}

AllOver == (\A r \in Talks : Over(r)) /\ UNCHANGED vars

Next == (\E r \in Talks : Step(r)) \/ AllOver

(* The event loop, the servers and the tools go on, also when a            *)
(* conversation has failed.                                                *)
Spec == Init /\ [][Next]_vars /\ \A r \in Talks : WF_vars(Step(r))

-----------------------------------------------------------------------------

(* _postprocess: the score is the reward of the last token.                *)
Score == 1
Rewards(r) == [i \in 1 .. Len(out[r].ids) |-> IF i = Len(out[r].ids) THEN Score ELSE 0]

(* The advantages of a response, undiscounted, with a critic that knows    *)
(* nothing: how much of the score each token is given.                     *)
Credit(r) == Gae(Rewards(r), Times(Len(out[r].ids), 0), out[r].mask, 1, 1)

-----------------------------------------------------------------------------

Tokens == [by : {"prompt", "model", "tool", "user", "nobody"}, turn : Nat]
States == {"pending", "generating", "waiting", "tools", "interacting",
           "done", "refused", "raised"}
Outputs == [prompt : Seq(Tokens), ids : Seq(Tokens), mask : Seq({0, 1}),
            probs : Seq(Tokens), turns : Nat]

(* Types; the turns keep to their limits.                                  *)
TypeOK ==
  /\ interactive \in BOOLEAN
  /\ load \in [Servers -> Nat] /\ server \in [Talks -> {0} \cup Servers]
  /\ state \in [Talks -> States]
  /\ ids \in [Talks -> Seq(Tokens)]
  /\ mask \in [Talks -> Seq({0, 1})]
  /\ probs \in [Talks -> Seq(Tokens)]
  /\ assistant \in [Talks -> 0 .. MaxAssistant] /\ user \in [Talks -> 0 .. MaxUser]
  /\ calls \in [Talks -> Seq({"made", "open", "over"})]
  /\ instances \in [Talks -> SUBSET (1 .. MaxParallel)]
  /\ out \in [Talks -> Outputs]

(* agent_loop.py:320-330: whatever is said and however it is cut, prompt   *)
(* and response are told apart where they meet, the mask is 1 on the       *)
(* model's tokens only, and every one of those has its own log-prob.       *)
Aligned ==
  \A r \in Talks : state[r] = "done" =>
    /\ out[r].prompt = Prompt
    /\ Len(out[r].ids) \in 1 .. ResponseLen
    /\ DOMAIN out[r].mask = DOMAIN out[r].ids /\ DOMAIN out[r].probs = DOMAIN out[r].ids
    /\ \A i \in DOMAIN out[r].ids :
         IF out[r].ids[i].by = "model"
         THEN out[r].mask[i] = 1 /\ out[r].probs[i] = out[r].ids[i]
         ELSE out[r].mask[i] = 0 /\ out[r].probs[i] = NoProb

(* agent_loop.rst:25: the reward of the final output trains the            *)
(* trajectory.  Every token of the model is credited with the score: it    *)
(* must not end up on an observation token, which the estimator skips.     *)
CreditedIn(r) == \A i \in DOMAIN out[r].mask : out[r].mask[i] = 1 => Credit(r)[i] = Score

(* It holds for conversations with tools only,                             *)
ToolsCredited == \A r \in Talks : state[r] = "done" /\ ~interactive => CreditedIn(r)

(* and is claimed for all.                                                 *)
Credited == \A r \in Talks : state[r] = "done" => CreditedIn(r)

(* agent_loop.rst:96: a conversation stays on the server chosen in its     *)
(* first turn, the one with the fewest conversations: the numbers of       *)
(* conversations of two servers differ by one at most.                     *)
EvenSessions ==
  \A s, t \in Servers :
    Cardinality({r \in Talks : server[r] = s}) <= Cardinality({r \in Talks : server[r] = t}) + 1

(* core_algos.py:251-253: for every finished conversation the estimator is *)
(* the textbook one on the model's tokens alone, as if the observations    *)
(* were not there.  Every token has a reward and a value of its own.       *)
Kept(s, m) == LET on == SelectSeq([i \in DOMAIN m |-> i], LAMBDA i : m[i] = 1)
              IN  [j \in DOMAIN on |-> s[on[j]]]

Textbook(reward, value, gamma, lam) ==
  LET n == Len(reward)
      delta(t) == reward[t] - value[t] + (IF t < n THEN gamma * value[t + 1] ELSE 0)
  IN  [t \in 1 .. n |-> MapThenSumSet(LAMBDA u : (gamma * lam) ^ (u - t) * delta(u), t .. n)]

GaeSkips ==
  \A r \in Talks : state[r] = "done" =>
    LET m == out[r].mask
        reward == [t \in DOMAIN m |-> 7 * t]
        value == [t \in DOMAIN m |-> 2 ^ t]
    IN  Kept(Gae(reward, value, m, 2, 3), m) = Textbook(Kept(reward, m), Kept(value, m), 2, 3)

(* Every conversation comes to an end and leaves no tool behind, whatever  *)
(* its tools do: every call that was made is over and every instance whose *)
(* id the loop ever held has been released, also those of calls that were  *)
(* under way when another one failed the conversation (run() and its       *)
(* gather at tool_agent_loop.py:272, the finally clause at 452-454).  A    *)
(* conversation with tools alone never outgrows the model: the server      *)
(* refuses only behind the words of a simulated user.                      *)
Settled(r) ==
  /\ Over(r) /\ instances[r] = {}
  /\ \A k \in DOMAIN calls[r] : calls[r][k] = "over"
  /\ state[r] = "refused" => interactive

Ends == \A r \in Talks : <>Settled(r)
=============================================================================
