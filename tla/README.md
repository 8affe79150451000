# Formal model of the on-policy distillation pipeline (opd_slqp_pipeline)

The repository trains a language model by on-policy distillation with *SLQP*
(single-response latent quality projection): it collects responses and their
hidden states (`src/slqp_collect_200`), fits a calibration to them
(`slqp_calibration`), trains with a loss that uses it, on a vendored copy of verl
(`opd_slqp_pipeline/verl`), and evaluates the result (`math_eval`). Most of the
code is verl; what carries the program's own logic is

* the *fully asynchronous* recipe: a Rollouter that generates samples, a Trainer
  that consumes them, a queue between them, a synchroniser that stops the one to
  copy the weights of the other;
* the collection, which can be killed and run again;
* the training loop with its checkpoints, which can be killed and run again;
* the way of a batch through the workers: balanced, dispatched, cut into
  micro-batches, put back in order;
* the agent loop with tools, its server manager and what becomes of the score.

Paths below are relative to `src/opd_slqp_pipeline/verl/recipe/fully_async_policy`
for the first of these, else to `src/opd_slqp_pipeline/verl/verl`, unless they
begin with `src/`.

## Inventory

| Component | State | Operations | Talks to |
|---|---|---|---|
| Rollouter (`fully_async_rollouter.py`) | `lock`/`condition`, `pending_queue`, `active_tasks`, `result_queue`, `cancel_queue`, `paused`, `monitor_loop_trigger`, `running`, `current_param_version`, `staleness_samples` | feeder, processor, one task per sample, consumer, main, monitor, `pause`, `update_param_version`, `resume` | MessageQueue (puts, sizes), servers (generate, cancel, resume), called by the synchroniser |
| Trainer (`fully_async_trainer.py`) | collected batch, `local_trigger_step`, `current_param_version`, `val_data` | collect, train, trigger a synchronisation, final synchronisation | MessageQueue (gets), synchroniser |
| ParameterSynchronizer (`param_sync.py`) | `wait_last_update`, `wait_last_resume` | `sync_weights`, `wait_last_valid` | Rollouter's `pause`, `update_param_version`, `resume` |
| MessageQueue (`message_queue.py`) | deque, condition, `running`, counters, `val_queue` | put, get (waits), clear, shutdown, validation results | Rollouter, Trainer |
| Task runner (`fully_async_main.py`) | actors | create everything, synchronise version 0, start both `fit()`, wait | all |
| LLM server, agent loop (`vllm_rollout/`, `agent_loop/`) | `paused`, events and outputs of each request | generate, cancel, resume, reset cache | sample tasks, `pause`, `resume` |
| Tool agent loop, server manager (`experimental/agent_loop`) | a conversation's ids, mask, log-probs, turns, tool calls; weights of the servers, sticky sessions | prepare, generate, call tools in parallel, ask the simulated user, finish; choose a server; place the score | servers, tools, advantage estimator |
| Training loop and checkpoints (`trainer/ppo/ray_trainer.py`, `utils/checkpoint`, `recipe/one_step_off_policy`) | step, dataloader, weights of each role; step folders, tracker file | generate, prefetch, train, save, rotate, load | file system, workers |
| Batches (`utils/seqlen_balancing.py`, `workers/actor/dp_actor.py`, `single_controller`) | order of the rows, chunks, mini- and micro-batches | balance, dispatch, partition, forward, restore, step, collect | workers of a group by collectives |
| Quality loss (`workers/actor/slqp.py`) | - | steps of a trajectory, token weights | update of the actor |
| Advantages (`trainer/ppo/core_algos.py`) | - | GAE over masked responses | training loop |
| SLQP collection (`src/slqp_collect_200`) | JSONL files, hidden files, manifest, archive | generate, replay, reject and refill, package; run again | file system |
| SLQP calibration, math evaluation, data preparation | files | sequential scripts | - |

Behaviour that is hard to get right, by component (each at its line in
`PROJECT.json`, "hazards"):

* **Rollouter.** Nine coroutines take turns on one event loop. Every `await` is a
  point where another one runs, `async with self.lock` yields only if the lock is
  held, and the condition is waited on in two places. State is tested before the
  lock is awaited and used after it (monitor, concurrency limit, `active_tasks`),
  a sum is evaluated around an `await`, and the end of the data races with
  interrupted samples that come back. What makes it correct: no sample is lost or
  duplicated, `pause` isolates the weight transfer, no more than
  `max_concurrent_samples` run, versions are stamped in order, staleness stays
  bounded, the end marker is last, and it always ends.
* **Trainer.** When it synchronises (`trigger_parameter_sync_step`), and that the
  last steps are synchronised too; in synchronous mode, that a batch was generated
  by the version it trains.
* **ParameterSynchronizer.** `update_param_version` and `resume` are fired without
  waiting; the next synchronisation must find them done.
* **Servers and agent loop.** A cancellation meets a request before, during or
  after its generation; cut responses are sent again with what they have, and
  their tokens, log-probabilities and versions are carried over. What makes it
  correct: nothing is generated while the weights change, `pause` does not wait
  for ever, a retry keeps what there is and keeps it aligned.
* **MessageQueue.** Lost wakeups, readers released by a shutdown but not before
  the queue is empty, a bounded deque whose losses are counted.
* **Collection.** Eight kinds of files written one after the other, some in place
  and some atomically, by three processes of which any may be killed. What makes it
  correct: a good answer is kept and not asked for again, the rows are the first
  usable ones of the seeded order whatever happened, the archive is whole and final.
* **Checkpoints.** Shards of every role and rank, a rotation that removes before it
  writes, the state of a dataloader that may be one batch ahead, a tracker written
  last and in place. What makes it correct: the tracker names what is whole, and
  batches are trained on in order and once across restarts.
* **Batches.** Workers that get different rows must enter the same collectives, a
  result must find its row again behind two permutations and a chunking, each row
  must count once and by its tokens, at every remainder of every division.
* **Tool agent loop.** Lists that grow in four places and are cut in two ways, parallel
  calls that fail, and a score that is placed by position.

## Modules

| Module | Models |
|---|---|
| `SampleChannel` | What the queue promises: a bounded FIFO that pushes its oldest sample out. |
| `MessageQueue` | The actor: bodies under one lock, readers parked on the condition, counters. Implements `SampleChannel`. `MCMessageQueue` gives it a finite instance. |
| `Rollouter` | The event loop of the Rollouter with all its coroutines; uses `SampleChannel` for the queue. |
| `Trainer` | Trainer and ParameterSynchronizer, on top of `Rollouter`. |
| `FullyAsync` | The running system: `Init`, `Next`, fairness and all properties. |
| `SampleFlow` | The life of a sample as a user sees it: data, rollout, queued, batched, trained; or dropped, or discarded. `FullyAsync` implements it. |
| `PartialServer` | The LLM servers for partial rollout and their engines: one action per locked section of `generate_for_partial`, `cancel`, `resume`, `reset_prefix_cache`, the transfer of the weights. |
| `AgentLoop` | The agent loop and the sample task on top of `PartialServer`, with a synchronisation as the servers see it, and its properties. |
| `ResponseCollection` | What the collection promises: a walk over the prompts in one order, each answered once, kept or rejected for good, published once. |
| `CollectSlqp` | The collector under its shell loop: one action per write, a kill anywhere, with half-written files. Implements `ResponseCollection`. |
| `TrainingRun` | What checkpoints promise: a run that trains on its batches in order, with checkpoints that take effect at once. |
| `CheckpointManager` | Files of the ranks of each role: rotation, shards behind barriers, loading. |
| `RayTrainer` | The driver, synchronous or one step off, on top of `CheckpointManager`: data, training, the order of the files, kills and restarts. Implements `TrainingRun`. |
| `SeqlenBalance` | Karmarkar-Karp partitioning, with and without equal sizes: the groups it starts from, one merge, the parts. |
| `Slqp` | Steps and token weights of the quality loss, and the collector's version of the steps. |
| `BatchFlow` | Driver and workers around these two: balancing, log-probs, update, collectives. `MCBatchFlow` gives it shapes. |
| `Gae` | The advantage estimator as a fold from the back. |
| `ToolAgentLoop` | Conversations with tools and a user, the server manager, the score; uses `Gae`. |
| `MessageQueueProofs`, `FullyAsyncProofs`, `AgentLoopProofs`, `CollectSlqpProofs`, `RayTrainerProofs`, `BatchFlowProofs`, `BatchRowsProofs`, `ToolAgentLoopProofs` | Proofs. `BatchRowsProofs` extends `BatchFlowProofs`. |

How the state corresponds to the code. An event loop runs a coroutine until it
really waits: `cpu` names the coroutine in the middle of such a run, and only that
one may step until it yields. `pc[c]` says where coroutine `c` will go on; its
labels are the waiting points of the code. `lockQ` is the lock: its holder, then
the waiters in order, since `asyncio.Lock` is FIFO. A reaping loop
(`while self.active_tasks: async with self.lock: asyncio.wait(...)`) is the label
`drain`, `lastTasks` or `slot`. `condition.wait()` is `parked` or `parkedSubmit`;
`notify_all` turns it into `notified`, `notifiedSubmit`, from where the lock is
taken again. `pending_queue` is the interval `taken+1 .. fed`, since prompts are
read in order; a sample is its index. A task is `created`, `running` (its requests
are out), `interrupted` (the servers were cancelled while they worked on it) or
`finished`; a finished task stays in `active` until it is reaped, as in the code.
A call of the synchroniser is `called`, then steps through the awaits of its body,
then `returned`, which is what ends the caller's `ray.get`.

`Rollouter` treats a task as a black box: it is refused, cut or complete.
`AgentLoop` opens that box and has the Rollouter only as far as the servers see
it: `phase` is where `pause`, the transfer, `update_param_version` and `resume`
are, `todo` the servers their `gather` has still to reach. A task is `created`
when the processor adds it and `active` once it has read the version; `call[r]` is
the one request of response `r` that is under way, and its places are the waiting
points of `generate_for_partial`. A token is the version of the weights that chose
it and its position, so that a token out of place, lost, or of other weights can
be told from the right one; a log-probability is named by its token.

Every action is one run between two waiting points with everything it assigns;
calls to the MessageQueue actor that are awaited are a step of their own
(`ConsumerPut`, `UpdateSize`, `MainPutEnd`), synchronous ones
(`get_statistics_sync`) happen inside the run.

In `CollectSlqp` a file of rows is the set of its ids, numbered by their place in
the seeded permutation; `stage` is where the script is, `work` and `done` are what
its process remembers and loses with it. In `RayTrainer` a batch is the number of
times the dataloader was read before it, the weights of a role are the batches
they were trained on, and a file is absent, torn or whole with what it holds;
`left` are the ranks that have not written yet. In `BatchFlow` a row is its
number before balancing and so is its log-prob, so that a result that lands at
another row is seen; `heap` holds the states of a partitioning under way, for the
driver and for each worker; `ops` are the collectives a worker has entered during
the call, and a worker passes one when all have entered it. In `ToolAgentLoop` a
token is who wrote it and in which turn, a log-prob the token it belongs to.

### Abstractions

* In `Rollouter` a sample stands for its `rollout.n` responses: it is handed back
  if any of them was interrupted, as the code decides. Cancelling the servers is
  one step there. `AgentLoop` has the responses, and the servers one by one.
* In `AgentLoop` a request goes to any server; the choice of the least loaded one,
  and that a server manager prefers the one it used before, has no influence on
  the properties. A prompt has `PromptLen` tokens for every sample. The
  monitor can always lift a pause behind `pause` (`NoNewTasks` below): a
  sample may be submitted in every phase in which nobody holds the lock, so also
  during the transfer and before `resume`, where a task is stamped or refused. A
  synchronisation begins at any time, `MaxVersion` times at most.
* The abort of a request inside the engine, after the server has stopped waiting
  for it, has no step; so have the entries of `cancel_event` and `req_output` that
  a request cut before its first output leaves behind: no later request has its
  uuid.
* `max_concurrent_samples` (16 per server) and the size of `pending_queue` (128)
  are parameters, as is `max_required_samples`, which the code computes from
  `required_samples`, `staleness_threshold` and `trigger_parameter_sync_step`; the
  only relation assumed is the one that `staleness_threshold >= 0` implies.
* The ten second sleep of the monitor is an arbitrary delay.
* Validation takes no step of its own, it blocks the loop; its result is
  "metrics" or "plain".
* The weights, the gradient step and the checkpoint of a step have no state.
* Exceptions raised by a task or by the consumer are not modelled, the one the
  processor itself can raise (`done_tasks` unbound) is.
* `CollectSlqp`: whether a response is degenerate is decided when it is written;
  a kill loses what is being written or leaves half of it; `os.replace` is atomic.
  The directory is empty at the start or holds what the version of the script
  before this one left (rows, some hidden files without a feature version).
* `RayTrainer`: the model, optimizer and extra files of a rank are one shard; HDFS,
  `resume_path` and the Hugging Face copy are left out. `Expires` lets the
  synchronous trainer save at any step, as it does when the instance is about to
  expire. A driver that has finished stays so.
* `BatchFlow`: lengths are small numbers, their workload is computed as in the code.
  Where the order of equal states in the heap is left to `heapq`, a merge takes any
  of them. Between workers any interleaving is possible. The rank that collects is
  the first of a sequence-parallel group.
* `ToolAgentLoop`: what an answer says is open: it ends, calls tools or goes to the
  user. The manager's cache of 10000 conversations never evicts. Servers of equal
  weight are taken in one fixed order, as their hashes give it.
  An answer the loop cannot take (an image without a processor, a video), a
  `release` or a user that raises, and an answer that is no `ToolResponse`, are
  outcomes like any other: the conversation is `raised`, and the calls of its
  siblings go on, since `gather` does not cancel them. `instances` are the ids that
  `create` returned, until `release` is called: what a `create` that raises has set
  up before is inside the tool, the loop has no id of it and never releases it.
  A failed conversation fails its batch, but the loop of the worker lives on.
  Errors in `start_interaction` and the death of an engine are not modelled.
* `Gae` is undiscounted where it credits a score (`gamma = lam = 1`); `GaeSkips`
  compares it with the textbook on other integers, for the masks of all conversations.

## Runs

| Run | Configuration | Shows |
|---|---|---|
| `message_queue` | 2 readers, 2 kinds of samples, 2 places, 4 puts | `NoLostWakeup`, refinement of `SampleChannel` |
| `on_policy` | 7 samples, batches of 2, 2 steps per synchronisation, staleness 0, partial rollout | `OnPolicy`, `InFlightBound`, `ConcurrencyBound`, `AllUsed` |
| `async_stream` | 3 samples, batches of 1, staleness 1, validation at every version | types, `VersionOrder`, refinement of `SampleFlow`, termination |
| `partial_rollout` | 3 samples, staleness 1, partial rollout, a `pending_queue` of 1 | `OneHome`, `QuietTransfer` where feeder, processor and `pause` meet at every boundary |
| `agent_loop` | 1 sample of 2 responses, 2 servers, prompt 1, `max_model_len` 4, `response_length` 2, 2 synchronisations | `LogProbsAligned`, `VersionSpan`, `OnlyGrows` |
| `paused_servers` | the same with `max_model_len` 3 | `RoomLeft`, `TransferIsQuiet`, `PauseReturns`, `Completes`, where requests reach paused servers with hardly any room |
| `collect` | 4 responses out of 8 prompts, one too long, 3 kills, half-written files | `ArchiveWhole`, `WorkReused`, `ArchiveFinal`, refinement of `ResponseCollection`, `Publishes` |
| `checkpoint` | both trainers, actor and critic on 2 ranks, 4 steps in epochs of 2 or 4, `save_freq` 3, critic warm-up 2, no limit or 2 checkpoints for each role, 2 kills | `TrackerNamesWhole`, `OneStepOff`, refinement of `TrainingRun`, `Finishes` |
| `balance` | 4 or 6 rows of every mix of two or three lengths on 2 or 4 workers (2 data-parallel, 2 sequence-parallel, both), balancing and dynamic micro-batches on and off, PPO, one-mini-batch distillation, quality loss alone | `Aligned`, `SameCollectives`, `AssertsHold`, `EvenLoads`, `EachRowOnce`, `TokenWeighted`, `SameGeometry` |
| `tool_agent` | 2 conversations, 2 servers, response of 5, 3 assistant turns, 2 user turns, 3 calls found of which 2 are made | `Aligned`, `ToolsCredited`, `EvenSessions`, `GaeSkips`, `Ends`, where tools and users may fail a conversation |
| `partial_starves`, `score_lost` | 3 samples; 2 conversations | the disagreements below |

The bounds are enough for the cases that matter: three or four samples make one
in the hand of the processor, one running and one on its way to the queue at the
same time; a queue of two can fill up and push a sample out; there are two or more
synchronisations, so that one can meet the tail of another; the last batch of
`on_policy` is incomplete; `PendingCap = 1` lets the feeder block. In `agent_loop`
a response can exceed `response_length` before the model's length ends it, and is
cut up to twice; in `paused_servers` the two lengths meet, so that a request for
one more token would have no room. Two servers make a cancellation that has
reached one and not the other, two responses a sample that is complete in part.
In `collect` a refill is itself refilled, and the prompts can run out; three kills
meet a run that repairs what two others left. In `checkpoint` the last step falls
on no multiple of `save_freq`, a dataloader is saved in the middle and at the end
of an epoch, rotation removes a step that was written before a kill, and steps are
written again over what a kill left. In `balance` a worker needs more micro-batches
than another, a mini-batch leaves a remainder, and a length exceeds half of the
token limit. In `tool_agent` a response is cut inside an answer, filled exactly by
one, and left one token short; two parallel calls make one that fails the
conversation while the other is under way. `SameGeometry` is evaluated for all
masks of up to six tokens, the longest row.
Deadlock is checked in every passing run. In `balance`, where workers wait for each
other, this is what shows that a call ends, since its state graph has no cycle but
the last state. In the runs of `FullyAsync` a state where nothing but the monitor's
ticks is possible is no deadlock, which is why termination is a temporal property. `message_queue` bounds only `total_produced`.

The passing runs do not repeat type invariants, whose `TypeOK` is proved for
`MessageQueue`, `FullyAsync`, `AgentLoop`, `CollectSlqp`, `RayTrainer` and
`ToolAgentLoop`; that of `BatchFlow` documents the types and holds in the
configuration of its run.

### Where code and documentation disagree

Two have a run that TLC ends with a counterexample, and the line of the
documentation in `PROJECT.json`, "findings".

1. **Starvation with partial rollout** (`partial_starves`). A cancelled task that is
   not reaped yet is counted in `active_tasks` and in `cancel_queue`; the count can
   then keep the Rollouter paused with nothing left for the Trainer.
2. **A score nobody is credited with** (`score_lost`). The score is put on the last
   token of the response. When the simulated user ends the conversation, that token
   is the user's, and the advantage estimator skips it: no token of the model is
   credited. With tools alone it cannot happen (`ToolsCredited`).

### Disagreements without a run

The following are not runs of the project; each is a definition TLC violates within
a minute when it is put into the configuration named, in place of its properties.
Configurations of `FullyAsync` are given by what differs from
`PartialStarves.cfg`; the safety ones need `SafetySpec` only.

* **Tasks during a transfer**, `NoNewTasks` (`PartialStarves.cfg` as it is, README.md:203-204).
  The monitor tests its conditions, waits for the lock that `pause` holds, and lifts
  the pause when `pause` has returned. The next item is a consequence.
* **A stamp older than its tokens**, `VersionsEnclosed` (`PausedServers.cfg`,
  `agent_loop/agent_loop.py:64-67`). A task that starts between the end of `pause`
  and `update_param_version`, because the monitor lifted the pause, is stamped with
  the old version. When its request reaches the server behind `resume`, it is
  generated by the new weights, and every token is newer than `param_version_end`,
  which is documented as the version at the end of the generation. (A request that
  arrives before is refused, and its sample stamped again.) The error is bounded:
  tokens are at most one version newer than the stamp, none is older than
  `param_version_start`, and they never go back (`VersionSpan`, checked and proved).
* **Interrupted samples at the end**, `EndIsLast` (as it is). On "DONE" the
  processor waits for `active_tasks` only; samples in `cancel_queue` are not
  resumed and the end marker is sent without them.
* **Staleness bound**, `InFlightBound` (`Total = 4`, README.md:132-137; also with
  `Partial = FALSE`). `update_param_version` recounts without the samples held by
  the processor and the consumer, and overwrites an increment made while it waits
  for the size of the queue. In the synchronous mode the bound holds (`on_policy`).
* **Final synchronisation**, `FinalSync` (`Partial = FALSE`, `TestFreq = 1`,
  `Trigger = 2`). Skipped when the last validation has metrics even though training
  steps followed it.
* **Unbound `done_tasks`**, `ProcessorSurvives` (`PendingCap = 1`,
  `ValBefore = TRUE`). `pause` empties `active_tasks` while the processor waits for
  the lock; the loop over `done_tasks` fails and the processor ends.
* **One checkpoint is none**, `TrackerNamesWhole` (`RayTrainer.cfg` with
  `Keeps = {1}`, which `remove_previous_ckpt_in_save` stands for,
  `trainer/ppo/ray_trainer.py:844-850`). The old checkpoint is removed before the
  new one is written; a kill in between leaves a tracker that names nothing, and
  every later start fails, where `docs/examples/config.rst:597-600` says that the
  program resumes from the latest checkpoint.
* **An empty tracker.** The tracker is opened for writing before the number is
  there: after a kill in between, `int('')` fails at every start. `Finishes` names
  this state as its only exception.
* **A collection that cannot be continued**, `RerunCompletes` (`CollectSlqp.cfg`).
  A kill in the middle of a line or of a hidden file makes every later run fail,
  where `src/slqp_collect_200/COLLECT_200_SERVER.md:48` says that the next run
  continues. `Publishes` names these states (`Damaged`) as its exception.
* **Token limit**, `TokenLimit` (`BatchFlow.cfg`). `utils/seqlen_balancing.py:275`
  says that a micro-batch has at most `max_token_len` tokens; it may have more, by
  less than its longest row and a share of the limit that comes from the squares in
  the workload, which `EvenLoads` states and `SpecEvenLoads` proves.

### Fairness

Coroutines that are ready are in the FIFO ready queue of the event loop, so each
runs again and again: strong fairness on the actions of a coroutine, since they
are disabled while another one is running. Servers finish what they are asked to
generate (the fairness of the sample tasks). The Trainer and the synchroniser are
actors with a thread of their own: weak fairness. `pause`, `update` and `resume`
share one condition because they are called in turn, the feeder and main because
the one ends before the other goes on. Nothing is assumed about which outcome an
interrupted request has, or about the time the monitor sleeps. In `AgentLoop` each
task, each request with its engine and each agent loop has weak fairness, since
they run on loops and actors of their own and no step of another one disables
them for good; a synchronisation that has begun goes on, but need not begin. The collector goes on while it
runs, and an operator runs a script that stopped again (weak fairness of `Step`, and
of `Start` when it is stopped); it need not be run again when it has finished. The
training job goes on and is started again; kills are bounded by `MaxCrashes`. In
`ToolAgentLoop` each conversation has weak fairness: the event loop, the servers and
the tools go on, with any outcome, and so do the calls a failed conversation has
left behind, in the loop of the worker. `BatchFlow` states none: every behaviour ends in
the last state, as TLC finds no deadlock and no step goes back. In `MessageQueue`
only the wakeup of notified readers and the return of a call are fair; nobody
need put, clear or shut down.

## Proofs

All proofs are checked by TLAPS for every value of the constants that the named
assumptions allow (`RolloutAssumption`, `TrainerAssumption`, `MQAssumption`,
`ServerAssumption`, `AgentAssumption`, `CollectAssumption`, `BatchAssumption`,
`ToolAssumption`).

* `MessageQueueProofs`: `TypeOK`, `NoLostWakeup`, `Accounting` (the counters account
  for every sample), `DrainsBeforeClosing` (a reader sees the closed queue only when
  it is empty) and the refinement. `TypeOK` and
  `NoLostWakeup` are inductive together with types; `Accounting` needs that a put
  to a full queue removes exactly one; the refinement follows step by step.
* `FullyAsyncProofs`: `TypeOK` of the whole system. It is not inductive alone: a
  task is submitted, and a result put, from a variable that may also hold "no
  sample". `HandsFull` says that the processor and the consumer hold one wherever
  they use it. The lemmas are one per group of variables. In the same module:
  * `SpecActiveCovers`: inductive given types; the interesting step is
    `PauseGather`, which empties `active` only when all tasks are finished.
  * `SpecConcurrencyBound`: strengthened with `SlotsLeft`, room for one more task
    from the test of the limit until the submission, through the wait for the
    lock and the wait on the condition.
  * `SpecLockDiscipline`, `SpecPauseIsolates`: a call inside its critical section
    is the head of `lockQ`; only the head can leave, so the processor cannot be in
    its own critical section and cannot submit.
  * `SpecQuietTransfer`: strengthened with `SyncPhases` (the calls of two
    synchronisations do not overlap) and `QuietServers` (from `cancel` on the
    servers stay paused, and after `gather` no interrupted task is left, which
    needs `ActiveCovers`).
  * `SpecVersionOrder`. The invariant has two parts. `VersionPhases` says which of
    the three version numbers is ahead: the Trainer's from the end of its step to
    the start of the synchronisation, the synchroniser's until
    `update_param_version` has begun. `Stamps` says that a started task has the
    version of its start, that no stamp exceeds the Rollouter's version, and that
    `Delivered` samples (results, the consumer's, queued, batched, trained) have
    both stamps in order. A sample that is started again keeps its first stamp;
    `DeliveredEffects` lists the only steps that deliver one.
* `FullyAsyncProofs`, `SpecOneHome`. The property is inductive together with
  `HandsFull` and `HandsEmpty`: processor and consumer hold nothing when they take
  a sample, and nothing is discarded twice. The lemmas `TimesAppend`, `TimesTail`
  and `TimesPut` count a sample in a queue through every operation on it,
  `PlaceEffects` lists the steps that move one, and each of them takes from one
  place what it adds to another; a set that grows did not hold the sample before,
  because another place does.
* `FullyAsyncProofs`, `SpecImplementsFlow`, for `MaxRequired > 1`: a put that outlives
  its cancelled consumer can push the end marker out of a queue of one place, which
  `SampleFlow` does not allow. Since no two places hold the same sample
  (`PlacesApart`, from `OneHome`), the stage of a sample follows from its place
  (`StageIs`), and the queue is as full as the stages say (`QueueCount`). `EndInv`
  says that the marker is in the queue at most once and nothing but that late put
  comes behind it, `BatchInv` that a batch is complete exactly when it is trained on.
  `FlowInv` joins them with the invariants above; each step that moves a sample is
  then a step of `SampleFlow` (`FlowTake` to `FlowDeliverMarker`), every other one
  stutters.
* `FullyAsyncProofs`, `SpecOnPolicy` and `SpecInFlightBound`, for
  `MaxRequired = Required * Trigger`, which is what `set_max_required_samples` makes
  of a `staleness_threshold` of 0; with a positive one neither is meant to hold, and
  `InFlightBound` does not, see above. The invariant is `SyncParts`. `QuotaInv` keeps
  the two sides in step: a version of the Trainer costs `MaxRequired` samples, the
  Rollouter takes no more for a version, and while `update_param_version` computes
  `staleness_samples` the old value still keeps the processor from taking any. So
  when a new version begins, everything that was taken has been trained on
  (`TrainedTaken`: one set is part of the other and as large, by `PlacesApart`), no
  sample that is left has a stamp, and until the next version all stamps are of this
  one (`FreshInv`). Both are claimed until the Trainer leaves its loop; from then on
  the batch is empty, and `FlightInv` shows that the processor has ended, so no
  sample is started any more.

* `AgentLoopProofs`, from `ServerAssumption` and `AgentAssumption`, for any number
  of servers, samples, responses, tokens and synchronisations:
  * `SpecTypeOK`: inductive as it stands; that no token and no stamp names a
    version beyond `MaxVersion` comes from the guard of `Transfer`.
  * `SpecCancelReaches`, `SpecTransferIsQuiet`: the invariant is `QuietInv`. The
    servers that `cancel` has been through are paused, and all of them until
    `resume`; a request belongs to a task, which `pause` gathers; so after the
    gather there is no request, and one that a later task sends is refused.
  * `SpecLogProbsAligned`, `SpecRoomLeft`, `SpecOnlyGrows`: the invariant is
    `ResponseInv`, about one response. A request continues what its response has,
    which is not complete; its `log_probs`, which nobody cuts, are longer than its
    tokens only when these fill `response_length`, and what a further request adds
    is then cut off again; only a generation that has ended uses up the length of
    the model, and it is not sent again.
  * `SpecVersionSpan`: without any assumption on the monitor. The invariant is
    `SpanInv`: nothing is generated between the gather and `resume`
    (`NothingGenerated`, from `QuietInv`); Rollouter and engines agree on the version
    except between the transfer and `update_param_version`, when the Rollouter is
    one behind (`VersionKnown`); so a call carries the version that generates it or
    the one before, and its tokens are of one version (`Stamped`); it ends before the
    next transfer, because `pause` gathers it, so what a response has stays within
    its stamps and one more (`Spanned`).

* `CollectSlqpProofs`, for any pool, any number of responses and any number of kills,
  with and without half-written files. The invariant is `IInv`, and its parts follow
  the stages: rows that are answered and rejected at once are degenerate (the kill
  between the two files, `RejectedInv`); what `generate` has still to send continues
  the seeded order without a gap and does not exceed what is missing (`WorkInv`);
  from the cleaning on the rows are complete and good, then the hidden files are
  theirs, then the manifest is (`StageInv`); and an archive is made of what is there
  and no stage that changes it is reached again (`ArchiveInv`). `SpecTypeOK` holds
  that there are never more responses than wanted, `SpecSeededOrder` that the answered
  prompts are the first usable ones. Lemmas: `Counting` (subsets of the prompts are
  finite and counted monotonously), `FirstUsableClosed` and `FirstUsableBound` (the
  first n usable prompts leave no gap and are at most n), `PendingWork` (so what
  `generate` takes on satisfies `WorkInv`). `SpecArchiveWhole`, `SpecWorkReused`,
  `SpecArchiveFinal` and the refinement `SpecImplementsWalk` follow from `IInv`, the
  latter three step by step.

* `RayTrainerProofs`, from `TrainerAssumption`, for any number of ranks, steps and
  kills, any save frequency, warm-up and lengths of an epoch:
  * `SpecTypeOK`, `SpecOneStepOff`: the invariant is `JobInv`. `Steps` says that the
    step in training is behind the one the tracker names and that a kill makes a run
    at most one step longer, which is the bound `MaxStep` has to cover (a job killed
    behind its last save starts one step further); `Generations` says by how many
    updates the batch in training and the one in flight may be old at every place of
    the loop. Neither depends on how many checkpoints are kept.
  * `SpecTrackerNamesWhole`, `SpecImplementsRun`: under `1 \notin Keeps`; with one
    checkpoint they fail, see above. The invariant is `RunInv`. What rank 0 remembers
    of a role ends with the step the tracker names until the role itself is saved
    again (`Remembered`), so a rotation that leaves one never takes it
    (`RotateEffect`). A role that is behind its second barrier is complete
    (`StepFiles`), so the step is whole when the tracker is opened, and every other
    write and every kill is in a step the tracker does not name (`TrackerSame`).
    `Order` places the batch in training, the one in flight and the dataloader
    behind the last batch trained on. In the refinement `OpenTracker` is the
    checkpoint, `Crash` the restart, and `Start` a stutter.

* `BatchFlowProofs`, from `BatchAssumption`, for any number of workers of any data- and
  sequence-parallel sizes, any rows and lengths, any mini- and micro-batches. The
  invariant is `IInv`, and `SpecSameCollectives` and `SpecAssertsHold` follow from it.
  * That all agree on the order of their collectives cannot be seen from what they
    have entered; one has to know what they will enter. `Pos` is the collective a
    worker is at, with the mini-batches and micro-batches it still has to do, `Left`
    the number it has left, `After` what it will be at when the one it waits in is
    over. `SyncInv` says of any two: who have left as many are at the same one, and
    who has left one more is where the other will be; nobody is two ahead. A worker
    that enters keeps its `Left` (`EnterSync`); one that leaves has seen all enter, so
    the others are at the same one or behind it (`MoveSync`). That two of them
    have as much to do rests on `Geometry`: mini-batches of the same place have the same
    size on all workers, since all chunks have (`Chunks`, `SplitParts`).
  * With dynamic micro-batches the number agreed on has to become the number of
    passes, which is what the assertions are about. `HeapOf` says that the states of
    karmarkar_karp have every row in one set, in decreasing order of their sums;
    `Even` that the sets of a state of the driver are of one size, `Filling` that a
    worker's state has an empty set only when its sets have at most one row each.
    Merging keeps all three (`MergesHeap`, `MergeEven`, `MergeFilling`: the largest set
    meets the smallest). So the last state has no empty part as long as there are as
    many rows (`LastFilled`, counting); parts that are not empty differ, so as many
    micro-batches are made of them. This is where the order of the sets is needed:
    merged largest with largest, parts stay empty.
  * Lemmas about operators: `Sortable` and `InOrderSorted` (a strict order puts a
    finite set in one sequence), `TotalSteps` and `TotalNat` (`MapThenSumSet` has the
    values of a sum), `FlattenEqual` and `FlatPartition` (`FlattenSeq` of the parts of
    a partition has every row once), `SplitParts` (`Split` leaves no part empty and
    loses no row), `OddsEvens` and `ArrangedParts`.

* `BatchRowsProofs`, from the same, about the rows in these shapes:
  * `SpecAligned`. The invariant is `DataInv`: what a worker has done, what it is at
    and what it has left of its chunk are together its slices, micro-batches are cut
    as the parts say (`CutAs`), and results and steps are at the places of their rows.
    A place of the flattened micro-batches is a pair of a micro-batch and a place in
    it (`Offsets`), and a part of the partition is read back through that place
    (`CutOf`), which is what `restore_dynamic_batch` does with the inverse permutation.
  * `SpecTokenWeighted`. In the collectives of one mini-batch are the sums of all
    workers, the same for all who are past them (`TokenInv`, `MaxInv`); every rank has
    `sp` workers and every row is with one rank, so the sum of the tokens counts each
    row `sp` times (`TotalCounted`), which the average over all workers takes back.
  * `SpecEachRowOnce`. The workers of one rank have the same rows but merge their
    heaps each for itself. That they train on the same micro-batches rests on the
    determinism of karmarkar_karp up to the order of equal states
    (`SortedOne`, `MergesOne`, `ChainOne`).
  * `SpecEvenLoads`. In a `Level` state no set is above another by more than one of
    its own rows; single rows are level, and merging the heaviest set with the
    lightest keeps it. For the driver, whose states start from `World` rows that are
    neighbours by load, this bounds the parts by the gap between neighbours. For a
    worker it bounds a part by the average and one row (`PartLoad`), and
    `WorkloadBounds` turns loads back into tokens. `SpecEvenLoads` is about every
    length a row can have, and this is what corrected the property. A bound by the
    longest row alone, which holds in the configurations of the run, does not hold in
    general: the workload of n tokens is 24576 n + n², so parts of equal load
    can differ in tokens. With three rows of 15000 tokens, eleven of 2000 and a limit
    of 17000, a micro-batch has 22000, five thousand above the limit with no row of
    more than 2000. `LittleExcess` therefore allows in addition the limit for each 24576
    tokens of the longest row of the slice.

* `ToolAgentLoopProofs`, from `ToolAssumption`, for any number of conversations,
  servers, turns and calls and any lengths. The invariant is `IInv`. `TalkInv` is
  about one conversation: turns are left while it goes on, tools and user have
  their turn only after an answer and only while the user has turns left, and
  behind the prompt token, mask and log-prob of a position belong together
  (`Together`), which the two cuts at the end, from the back and from the front,
  turn into `Aligned`. The steps of calls and the exceptions leave the text alone
  (`TextlessStep`). `LoadInv` is about the heap: the weight of a server is the
  number of its conversations, and no two weights differ by more than one, since a
  new conversation goes to a server of least weight (`RootLeast`, by well-founded
  induction on the weights).
  `SpecToolsCredited` needs one more, `TailInv`: without a simulated user there is
  room for a token of the model behind whatever was appended, and tools have their
  turn right behind the model, so the last token of a finished response is the
  model's. From it `Gae` carries the score to every token (`GaeSpreads`: the closed
  form solves the recursion, and no other function does).

Only model-checked: `GaeSkips` of `ToolAgentLoop` and `SameGeometry` of `BatchFlow`,
whose `SelectSeq` is opaque to the prover (it is defined by recursion, and what it
returns needs induction over data); and everything that rests on fairness
(`Terminates`, `AllUsed`, `PauseReturns`, `Completes`, `Publishes`, `Finishes`,
`Ends`), which is out of its reach. Every other property of the passing runs is a
theorem.

## Plan

Done: the modules, runs and theorems above. What is left, the most important first:

1. `RequestOutcome`: an abstract task (refused, cut, complete; a cancelled one ends),
   which `AgentLoop` implements and which is what `Rollouter` assumes.
2. Failures of tasks and of the consumer in `Rollouter` (one hazard has no property).
3. The critic and the Megatron workers in `BatchFlow`; the single-turn agent loop and
   the padding of the worker in `ToolAgentLoop`.

## Not modelled

* Engine workers, GPU collectives, offloading, kernels, model definitions: numeric
  code, whose only control is that a collective waits for all, which `BatchFlow` has.
* The calibration fit, the evaluation, data preparation and their shell scripts: each
  is one sequential pass that writes its result once.
* Losses and metrics as numbers. Where a loss has a discrete part that can be wrong
  (which tokens, with which weight, from which token a step starts), that is `Slqp`,
  `Gae` and `BatchFlow`.
* The rest of verl: of its about 100000 lines, the pipeline runs the FSDP workers,
  the vLLM rollout and the PPO driver. Other engines (Megatron, SGLang, TensorRT),
  other recipes (`transfer_queue`, `spin`, `dapo`, ...), model code, kernels, datasets,
  reward managers and tracking are alternatives the pipeline does not select, or pure
  functions without a state of their own; a model of them would say nothing of this
  program. The share of all lines that the models cover therefore stays small, while
  the recipe's own concurrent code, the collector and the save path are covered
  nearly in full.
