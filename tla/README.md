# TLA+ verification of ms-swift

This directory models the concurrent and distributed parts of ms-swift
(`src/swift`): the weight synchronisation between Megatron trainers and vLLM
rollout engines, the Ray driver that orders it, the asynchronous rollout of
GRPO with its rollout server, the Megatron training loop with its checkpoints,
the streamed and packed training data, and the batching worker of the
Transformers inference engine. TLC checks the models on small instances. TLAPS
proves every invariant, every action property and both refinements of the
passing runs for all instances, some under a hypothesis that section 4 names;
liveness is model-checked only. Where the code does not do what its documents,
comments or tests say, a run shows the counterexample or section 3 names it as
a known limit. Paths below are relative to `src/swift` unless they say
otherwise.

## 1. Inventory

ms-swift is a training and inference framework. Most of its lines are
registries, templates, argument parsing and tensor code; the logic in which
order and failure matter is concentrated in the following parts.

| Component | Code | State | Operations | Modelled by |
|---|---|---|---|---|
| NCCL checkpoint engine | `ray/megatron/checkpoint_engine/nccl.py` | two buckets per rank, the running broadcast, a PUB/SUB channel | `send_weights`, `receive_weights`, `BroadcastOperation` | `NcclCheckpoint` |
| ZMQ/IPC bucket transfer | `ray/megatron/rollout/weight_transfer.py`, `pipelines/infer/rollout.py:365-566` | a shared bucket, one REQ/REP pair, per tensor-parallel rank the weights cloned | `handshake`, `_process`, `_flush`, `update_weights_from_ipc` | `BucketIpc` |
| Ray driver | `ray/megatron/{base,grpo,gkd}_trainer.py`, `checkpoint_engine/manager.py`, `megatron_worker.py`, `rollout/*` | phase of the round, sleeping memory, merged adapter, versions of weights and caches | `sync_weights`, `_generation_context`, `_train_loop`, the remote methods | `RayTrainLoop` |
| Batching worker | `infer_engine/transformers_engine.py` | request queue, task pool, worker thread, adapter pool, callers' queues | `infer_async`, `_fetch_infer_requests`, `_infer_worker`, `_infer_full`, `_infer_stream` | `InferWorker` |
| HCCL checkpoint engine | `ray/megatron/checkpoint_engine/hccl.py` | one bucket, REQ/REP metadata, partly received weights | `_serve_bucket_requests`, `_request_bucket`, send, receive | planned |
| Async rollout (HF GRPO) | `rlhf_trainers/rollout_mixin.py`, `grpo_trainer.py` | train and eval queue, one-thread executor, last loaded step | `_prefetch`, `_fast_infer`, `_wait_queue`, `async_generate_rollout`, `evaluation_loop`, `training_step` | `AsyncRollout` |
| Rollout HTTP server | `pipelines/infer/rollout.py:651-1107`, `rlhf_trainers/vllm_client.py` | one pipe per engine process, the event loop, weights and cache of each engine | `infer`, the weight-update handlers, `llm_worker` | `RolloutServer` |
| Packing of streams | `dataset/packing.py` | in- and out-queue, encoding processes, the open pack | `_put_data_in_queue`, `_fetch_data_out_queue`, `_processor`, `calculate_matched_group` | `StreamPacking` |
| Loader dispatch, sharding | `dataloader/dispatcher.py`, `shard.py` | position of rank 0's iterator, sampler seed | `__iter__`, `_skip_batches`, `set_epoch` | `StreamPacking` (dispatch) |
| Megatron training and checkpoints | `megatron/trainers/base.py`, `batch_sampler.py`, `megatron/utils/megatron_lm_utils.py`, `megatron/callbacks/default_flow.py` | iteration, consumed samples, sampler position, checkpoint directories, last-checkpoint link, asynchronous saves | `train`, `save_checkpoint`, `_rotate_checkpoints`, `maybe_finalize_async_save`, `_load_checkpoint` | `MegatronTrainer`, `PretrainSampler` |
| Worker group slicing | `ray/megatron/worker_group.py` | rank maps | `_slice_dp`, `_collect_dp_flat` | planned |
| Resampling, early stop, shutdown | `rl_core/resample.py`, `callbacks/early_stop.py`, `utils/shutdown_manager.py` | counters, flags | one loop or handler each | planned |
| Models, templates, tuners, losses, datasets, arguments, UI | the rest | registries, tensors | - | not modelled |

How they interact: in every round the driver (`RayTrainLoop`) puts the
engines to sleep, wakes their weights, exports the policy and streams it.
With trainer and engine on the same GPUs the stream goes through a shared
bucket (`BucketIpc`); with separate GPUs rank 0 of the trainer broadcasts
buckets over NCCL (`NcclCheckpoint`) and every rollout rank feeds what it
receives into the same bucket transfer. The driver then wakes the KV cache,
generates, puts the engines to sleep again, brings the training model back and
trains. GRPO on top of transformers reaches its engines by HTTP instead: with
`async_generate` every rank keeps a queue of rollouts that were started one
generation earlier (`AsyncRollout`), and the main rank sends prompts and
weights to a server whose handlers share one pipe per engine process
(`RolloutServer`). The Megatron trainers train on batches that each rank draws
from a sampler of its own and save checkpoints a job can be resumed from
(`MegatronTrainer` with `PretrainSampler`). Streamed datasets are encoded by a
pool of processes, packed, and scattered by rank 0 (`StreamPacking`). The
batching worker is independent of all of them: it serves `infer_async` of the
Transformers engine for `swift infer`, `swift deploy` and the tests.

What is hard: non-blocking device copies and a broadcast in a thread run
against a coroutine that reuses the same memory; acknowledgements release
memory another process still reads; collectives block whoever is inside when
somebody else raises; `ray.get` raises early and leaves calls running; GPU
memory is lent back and forth; a worker thread shared by all callers must
survive every failure of a single batch; a result computed in the background
is used a round later, by ranks that must all agree that it is there; a job
dies between two steps of a save and is resumed from what is on disk; results
of a pool of processes come back in any order. `PROJECT.json` lists each such
place under `hazards` with the property that would catch it, or why none does.

What makes each part correct:

* **weight transfer**: consumers read only complete, current weights; the
  transfer ends for all of them; success means the whole stream arrived;
* **driver**: generation uses the trained policy, memory is used in turns, the
  adapter is unmerged when training and when the driver gives up;
* **batching**: every call ends, with its own configuration and adapter, in
  order, within the batch limit, and no stream is cut short;
* **asynchronous rollout**: a reply reaches the call that asked, an answer
  comes from the weights of one version, training uses the rollout of the call
  before, and ranks enter the same collectives, also after a failure;
* **checkpoints**: the link names a whole checkpoint and only advances, the
  best checkpoint is kept, no sample is repeated or skipped over restarts;
* **streamed data**: packing loses and repeats nothing, ranks train on the
  batches of a sequential run, and the feed ends or fails aloud.

## 2. Modules

### WeightStream: what a synchronisation promises

The abstract specification. A stream of weights is begun for all consumers at
once; a consumer takes each weight once, in any grouping; it closes only when
it holds all of them; no stream begins while a consumer is open.
`NcclCheckpoint` and `BucketIpc` implement it: `ImplementsWeightStream` maps
their program counters to `phase` and shares `stream` and `loaded`.

### NcclCheckpoint: the double-buffered broadcast

Buckets are modelled byte by byte, a byte being `<<sync, weight>>`, so that
reading a wrong, stale or half-written view is visible whatever the reason.

| TLA+ | Code |
|---|---|
| `spc`, `nextW`, `sendBuf`, `offset`, `bucketMeta` | the coroutine `send_weights` and its locals |
| `copies` | `copy_(..., non_blocking=True)` issued and not yet executed; `CopyIn` is the device |
| `sop`, `rop` | the `BroadcastOperation` of rank 0 and of each receiver, running in a thread: `publish`/`recv`, `xfer`, `done` |
| `inbox` | the SUB socket of a rank |
| `rpc`, `recvBuf`, `metadata`, `yielded` | the generator `receive_weights` |
| `reads` | what the consumer has copied from a view and the device has not executed; `CopyOut` |
| `loaded`, `torn` | weights read intact, or otherwise |

`Deliver` transfers the bucket to one receiver at a time, at any moment of the
collective, so the sender's bucket is exposed for as long as NCCL may read it.
`GeneratorRaises` and the oversize check of `BroadcastFull` are the ways
sending fails. `StartSync` starts all calls together because the driver does
(`manager.py:148-157`). A weight too large for a bucket raises *after* the
previous bucket was sent as not the last, as in the code.

### BucketIpc: the shared bucket

One sender, one driver rank with the REP socket, further tensor-parallel ranks
that get every object by a broadcast from the driver rank. `wire` is the
REQ/REP pair, which holds at most one message. `reads` are clones not yet
executed, `Barrier` the CPU barrier before the acknowledgement, `Synchronized`
the device synchronisation on both ends. With `Timeouts` either side may give
up whenever it waits. An adapter (`lora`) is collected and added once at the
end; full weights are loaded bucket by bucket.

### RayTrainLoop: one round of training

`Cycle` is the sequence of remote calls of one round for the chosen mode;
`NotNeeded` are the early returns; `Handler` and `EndOfFinally` are the `try`
statements. The driver issues one call to all its targets and waits for all
answers, or raises with the first that raises, leaving the others in `inbox`
(workers, one call at a time in order) or `threads` (replicas, concurrent).
Collectives (`update`, `send`, `join`, `train`) are joint steps of their
members: they cannot happen when a member has raised, so what the driver does
with a stuck group is part of the model. `version` counts training steps;
`policy` and `cache` record with which versions an engine's weights and prefix
cache were filled. A replica's `sleep` and `wake_up`, which the manager calls
one replica after the other, are issued to all of them at once; nothing in
between reads the difference. Without sleep mode (`SleepMode`, a `sleep_level`
above 0) an engine returns from `sleep` and `wake_up` at once, `Sleep` and
`WakeUp` then change nothing of it, though the manager still records it as
asleep.

### InferWorker: batching of concurrent calls

| TLA+ | Code |
|---|---|
| `Put`, `Await`, `Receive` | `infer_async` up to `sleep(0)`, the start of the worker, the wait on the caller's queue |
| `Cancel`, `CloseLoop` | the caller's task is cancelled; its event loop is closed (outside of this code) |
| `Group`, `TakeBatch` | `_fetch_infer_requests` |
| `InferFull`, `StartStream`, `StreamChunk`, `StreamEnd`, `BatchFails` | `_infer_worker` with `_infer`, `_infer_full`, `_infer_stream` |
| `GenerateDies` | `model.generate` raises in the thread of `_infer_stream` |
| `Deliver` | `run_coroutine_threadsafe` for one caller after the other; it raises for a closed loop, and so does the repetition in the `except` clause |
| `LoadedWith`, `Used` | `_get_adapter_names` |

A result carries the configuration and the adapter it was computed with, which
is what `AnsweredAsAsked` compares. Text, tokens, log probabilities and stop
words are abstracted to "a chunk" and "the chunk with the finish reason".

### RolloutServer and AsyncRollout: rollouts one generation ahead

`RolloutServer` is the server as its callers see it: `Post` and `Broadcast`
put a request in, `Handle` is the handler of `infer` (it writes to the pipes
of all workers, a placeholder to those that have no requests, and then waits
for each reply on the event loop, `Blocking`, or in the thread pool),
`Receive` takes a reply from a pipe, `Answer` is one command of `llm_worker`.
A worker holds the version of each weight bucket and the versions its prefix
cache was computed with; an answer carries the versions it was computed with.

`AsyncRollout` composes it with the ranks of the trainer. A rank's program is
a sequence of steps (`todo`) that `Beginning`, `TrainingStep`, `Evaluation`
and `AfterStep` produce in the order of the trainer's calls (`EvaluatesOnStep`
and `EvaluatesOnEpoch` are the two callbacks that ask for an evaluation,
`Exhausted` the stop at `max_epochs`); the steps are the statements of
`_fast_infer`, `_prefetch` and `_wait_queue` that touch shared state. A
collective happens when all ranks are `inside` one. `tasks` is the one-thread
executor, `queue` the train and eval queues, `took` what has been taken from
one and not yet used. Abstracted: one server instead of several, a rollout is
a number with the step and the versions it was computed at, each rank's slice
of the results, the gather inside a prefetch (merged with the next
collective). Adapter-only synchronisation, the encoder cache and multi-turn
schedulers (excluded with `async_generate`) are left out.

### PretrainSampler and MegatronTrainer: training, saving, dying, resuming

`PretrainSampler` holds the arithmetic of the random sampler: which samples a
pass of a rank yields, from the number of samples consumed so far.
`MegatronTrainer` is the loop around it: `TrainStep` draws `num_microbatches`
batches on every rank; evaluation and saving happen when the callbacks say so;
a save is `MakeDir`, `WriteWeights`, `WriteTracker`, `WriteSafetensors`,
`UpdateLink` and the rotation, one directory at a time. With `async_save` the
weights land later (`Land`) and `FinaliseFirst` finishes saves in order; where
`linkFails` an update of the link may leave the old one, with a warning and
nothing else (`Linked`), and the rotation goes on; `async_save` and
`save_total_limit` exclude each other (`megatron_args.py:932-936`), hence
`Modes`. `Crash` ends the job between any two steps, `CrashWhileRemoving`
inside `shutil.rmtree`; the next job resumes from the link in the same
directory. Ranks run in lockstep because a step ends in collectives; each has
its own sampler. Abstracted: streaming, `group_by_length`, GRPO's division by
`num_generations`, merged copies of an adapter, saves without optimizer state.
A score that is not a number raises in `base.py:796`, which is
`ScoreNotANumber`.

### StreamPacking: from a stream to the ranks

The generator of `IterablePackingDataset` (`at`, `read`, `num`, `fetched`,
`res`, `open`), the encoding processes with their two queues (`Take`,
`Encode`), the data loader that cuts packs into batches, and the ranks with the
scatter of `DataLoaderDispatcher`. A sample is the lengths of the pieces its
encoding yields, or the trouble it makes: too long, invalid (fatal with
`strict`), or killing its process. `binpacking.to_constant_volume` is an
external best-fit-decreasing: the heaviest piece first, pieces of one weight in
the order they came (`HeaviestFirst`), each into the fullest bin it fits. The
stream is the same in every epoch, and rank 1 of the model is rank 0 of the
code. `FetchFails` is the sentinel check after a second without results.

### Proof modules

`NcclCheckpointProofs`, `BucketIpcProofs`, `MegatronTrainerProofs`,
`InferWorkerProofs`, `RayTrainLoopProofs`, `AsyncRolloutProofs` (for
`RolloutServer` too) and `StreamPackingProofs` each extend the module they are
about. `DataLemmas` holds what several of them need of natural numbers, finite
sets and sequences: induction, least and greatest elements, bounded ranges,
products and division with remainder, sizes of disjoint unions, and what
`Append`, `Tail` and concatenation hold. They are described in section 4.

## 3. Checks

Each run finishes within three minutes on two TLC workers. Deadlock checking is
off because every system may stop: calls are served, training is over, a
failed send leaves its receivers waiting.

| Run | Instance | Shows |
|---|---|---|
| `nccl_broadcast` | 2 receivers, 2 synchronisations, all streams of up to 3 weights of 1..3 bytes, buckets of 2, fairness | `NoTornRead`, `InFlightUntouched`, `NoReceiverLeftBehind`, `SyncEnds`, refinement of `WeightStream` |
| `ipc_transfer` | 3 ranks, 2 synchronisations, weights of 0..3 bytes, timeouts at any moment, fairness | `NoTornRead`, `ReplyAfterAllCopied`, `AdapterWhole`, `TransferEnds`, refinement of `WeightStream` |
| `ray_training` | 2 workers, 2 replicas, seven settings (colocated with a merged adapter and calls that raise, with full weights with and without sleep mode, with a synchronised adapter; separate with a synchronised adapter, with a merged adapter, with calls that raise), fairness | `TypeOK`, `HoldsLatest`, `AwakeWhenUsed`, `TakeTurns`, `EndsUnmerged`, `TrainsProperly`, `TrainingEnds` |
| `ray_stale_cache` | NCCL mode | **violates** `CacheFresh` |
| `infer_batching` | 4 calls, 3 with one key and one streamed with an adapter, batches of 2, 2 event loops that may close, failing batches and generation | `NothingLost`, `FirstComeFirstServed`, `DiesOfClosedLoopOnly` |
| `infer_streams` | 3 streamed calls, 2 with one adapter and 1 with another, batches of 2, encoding errors of single requests, failing batches, generation that dies in its thread, fairness | `AnsweredAsAsked`, `StreamsWhole`, `EveryCallEnds` |
| `infer_same_name` | 3 calls, two of them with adapters of one name and different paths | **violates** `AnsweredAsAsked` |
| `rollout_async` | 2 ranks, 2 workers, 2 weight buckets, 4 steps in epochs of 3 and `max_epochs` 1, an evaluation of 2 batches every 2 steps and when `max_epochs` stops the training, one round of dynamic sampling, rollouts and submissions that fail, fairness | `TypeOK`, `RepliesMatch`, `UniformAnswers`, `TrainsOneRoundOld`, `NoneUsesFailed`, `CollectivesMatch`, `FailureReachesAll`, `TrainingEnds` |
| `rollout_eval_by_epoch` | 2 ranks, 1 worker, 2 steps of one epoch, `eval_strategy=epoch` | **violates** `CollectivesMatch` |
| `megatron_checkpoints` | 2 ranks, 11 samples in micro-batches of 2 (8 used per epoch), 7 iterations, a save every 2 and at the end, an evaluation every 4, limit 2 or none, synchronous or asynchronous, with and without data sharding, with and without link updates that fail, up to 3 crashes, fairness | `TypeOK`, `LinkedIsComplete`, `EpochsWhole`, `KeepsBest`, `LinkAdvances`, `TrainingEnds` |
| `megatron_uneven_ranks` | as `megatron_checkpoints`, without crashes and with micro-batches of 1 | **violates** `LastBatchDropped` |
| `stream_packing` | 3 encoding processes, rounds of 3, 2 ranks, 2 epochs, 16 jobs: both strategies, batches of 1 and 2 packs, streams that end within and with a round, trouble, resumption, fairness | `PacksWhole`, `DeliveredInOrder`, `FeedEnds` |

**Why the bounds suffice.** Two buckets are used alternately, so three buckets
in flight (streams of three to four weights with two-byte buckets) show every
reuse, and sizes 1, 2 and 3 are a weight that leaves room, one that fills a
bucket and one that is too large. Two synchronisations show leftovers of the
first in the second. Two receivers show one ahead of the other; the third rank
of `ipc_transfer` is one that has nothing to do with the driver. Three
requests of one key with batches of two leave a rest that returns to the pool
while others arrive. In `infer_streams` two of the calls may share a batch and
the third must not. In `rollout_async` the three steps before `max_epochs`
stops the training (the fourth is never taken) hold a training round before,
at and after an evaluation, an evaluation by each of the two callbacks, and
the two batches of an evaluation use the prefetched and the submitted rollout.
Seven iterations of two ranks over epochs of two pass through three epochs,
with saves at the end and in the middle of one; three crashes allow a crash in
the save that followed a crash. In `stream_packing` three processes return a
round in every order, and the streams hold pieces that fill a pack, exceed it
and share it. The bounds in the specifications are `MaxSync`, `MaxWeights` (MC
modules), `MaxCrashes`, `TrainIters`, `NumSteps`, `Epochs` and `MaxChunks`;
the last four are also parameters of the program (`train_iters`, the steps,
the epochs, the tokens of an answer).

**Fairness.** Threads, event loops, actors and the device are scheduled (`WF`
of each component's own steps). Nothing is assumed of what the environment
decides: no synchronisation has to be started, no call made, no failure has to
happen and no timer has to expire. `SyncEnds` and `TransferEnds` make an
exception for a failed send or a timeout, since the code then leaves the other
ranks in their collectives; `TrainingEnds` of `RayTrainLoop` is checked in the
settings whose calls do not raise, that of `AsyncRollout` accepts a rank that
raises (and `FailureReachesAll` a failure of the last rollout, which the end
of the training does not wait for), that of `MegatronTrainer` counts on
finitely many crashes (`MaxCrashes`) and on a link that is updated where
checkpoints are removed; `EveryCallEnds` holds with failing batches and leaves
out what follows when generation dies in its own thread.

**Disagreements found** (details and quotes in `PROJECT.json`, `findings`):

1. In the NCCL mode the prefix cache of the engines survives a weight update
   (`ray_stale_cache`).
2. Of two adapters with one name and different paths the second is answered with
   the first (`infer_same_name`).
3. With `eval_strategy=epoch` and `async_generate` the last step is evaluated
   twice in a row (`trainers/patcher.py:67-72`). The second evaluation finds its
   queue empty on the main rank only, whose rollout still runs in the background;
   it prefetches alone while the others wait for it in another collective
   (`rollout_eval_by_epoch`). An evaluation by steps at the step `max_epochs`
   stops at does the same (`patcher.py:77-80`).
4. Without data sharding the first ranks, but not the last, train on the
   incomplete last batch that `batch_sampler.py:151` says is dropped, if it is
   large enough: if `FullBucketSize - ActiveTotal > GlobalMicro - DataParallel`,
   as with `micro_batch_size` 1, 11 samples and 2 ranks
   (`megatron_uneven_ranks`). They then fall out of step with the others at the
   end of the epoch, which is why `EpochsWhole` has `RanksDropAlike` as a
   condition. The `group_by_length` path of `dataloader/shard.py` deals its
   indices with the same unevenness.

**Known limits that no run shows.** Seen while modelling. Where a property above
leaves one out, its comment says so:

* With `vllm_enable_lora` the Ray engine loads the adapter it is sent but never
  asks for it (`ray/megatron/rollout/ray_vllm_engine.py:167`), and generates with
  the base model. `HoldsLatest` is about what is loaded, `Answers` is what the
  engine uses of it.
* When one replica raises while generating, the driver does not wait for the
  others: the `finally` block (`ray/megatron/base_trainer.py:97-104`) puts engines
  to sleep that are still generating and reloads the training model to their
  GPUs. `AwakeWhenUsed` ends there.
* An exception of `model.generate` in the thread of a stream
  (`infer_engine/transformers_engine.py:289-301`) blocks the batching worker for
  good; `infer_streams` lets it happen and `EveryCallEnds` leaves out what
  follows.
* With `eval_on_start` and `async_generate` the first training step waits for an
  evaluation rollout that nobody has started (`rlhf_trainers/grpo_trainer.py:1840`,
  `rollout_mixin.py:1684`). TLC finds `TrainingEnds` violated with `EvalOnStart`.
* An update of the last-checkpoint link that fails is only warned about
  (`utils/io_utils.py:134-138`). The rotation goes on and may remove the
  checkpoint the link still names, although the docstring says that readers never
  observe a missing link: without its condition `LinkIsKept`, TLC finds
  `LinkedIsComplete` violated.
* The first batch of a later evaluation uses what the last batch of the
  evaluation before left in the queue, and a prefetch that fails is seen by the
  main rank only (`rollout_mixin.py:1730`).
* An exception in the weight-loading command of a rollout worker is only logged
  (`pipelines/infer/rollout.py:682`).
* A resumed Megatron run with `vllm_enable_lora` starts with an adapter that has
  been trained, but its first synchronisation exports the unmerged base weights
  only (`ray/megatron/checkpoint_engine/manager.py:74-79`, `138-139`), although the
  docstring of `update_weights` speaks of "full merged weights"
  (`ray/megatron/megatron_worker.py`). The first round generates without the
  adapter: `HoldsLatest` fails with `FirstVersion` above 0 in that mode, which is
  why `LatestHeld` excludes it.
* A resumed Megatron job does not know the best checkpoint of the job before and
  may rotate it away; `KeepsBest` is about the scores of one job.
* Skipping more batches than an epoch has (`DataLoaderDispatcher._skip_batches`)
  ends the job with an error on rank 0, and a map-style `PackingDataset` waits
  for ever for a packing process that has died.

The comment at `transformers_engine.py:60` ("0/1: no limit") disagrees with
line 157, which lifts the limit for values `<= 0` only; the model follows the
code.

## 4. Proofs

Every theorem below is about all values of the constants that satisfy the
named assumption of its module (`NcclAssumption`, `IpcAssumption`,
`TrainerAssumption` with `SamplerAssumption`, `InferAssumption`,
`RayAssumption`, `AsyncAssumption` with `ServerAssumption`,
`PackingAssumption`; TLC evaluates them in every run): any number of ranks,
receivers, replicas, callers, processes, weights, samples or iterations, any
bucket, batch or round size. Some theorems have one more hypothesis
(`NamesDiffer`, `FreshAdapters`, `Scheduled`), and some properties a condition
of their own (`LinkIsKept`, `RanksDropAlike`, `SleepMode`, `LeavesMerged`),
discussed below. Section 3 says what the code does where they do not hold.

The proof modules have one layout: an inductive invariant as a conjunction of
named parts (`IInv`; `Feeding` and `Training` for the streams); what the parts
say of the operators of the model, as lemmas; one lemma per action, with one
step per part the action can disturb; that it holds at the start and is kept;
then the theorems. Each invariant was checked by TLC on the run of its module
before it was proved.

| Module | Theorem | States |
|---|---|---|
| `NcclCheckpointProofs` | `TypeCorrect`, `NoTornReads`, `SendBufferSafe`, `NobodyLeftBehind`, `Refinement` | `TypeOK`, `NoTornRead`, `InFlightUntouched`, `NoReceiverLeftBehind`, `ImplementsWeightStream` |
| `BucketIpcProofs` | `Untorn`, `ReplyLast`, `AdaptersWhole`, `Refinement` | `NoTornRead`, `ReplyAfterAllCopied`, `AdapterWhole`, `ImplementsWeightStream` |
| `RayTrainLoopProofs` | `TypeCorrect`, `UsedAwake`, `InTurns`, `Unmerged`, `LatestHeld`, `ProperTraining` | `TypeOK`, `AwakeWhenUsed`, `TakeTurns`, `EndsUnmerged`, `HoldsLatest`, `TrainsProperly` |
| `MegatronTrainerProofs` | `TypeCorrect`, `AlwaysResumable`, `BestSurvives`, `NeverBack`, `SamplesTrainedOnce` | `TypeOK`, `LinkedIsComplete`, `KeepsBest`, `LinkAdvances`, `EpochsWhole` |
| `InferWorkerProofs` | `NobodyForgotten`, `InOrderOfArrival`, `WholeStreams`, `OnlyClosedLoopsKill`, `OwnConfigAndAdapter` | `NothingLost`, `FirstComeFirstServed`, `StreamsWhole`, `DiesOfClosedLoopOnly`, `AnsweredAsAsked` |
| `AsyncRolloutProofs` | `TypesHold`, `RepliesAreOwn`, `AnswersAreUniform`, `RolloutsAreRecent`, `CollectivesAgree`, `FailedAreUnused` | `TypeOK`, `RepliesMatch`, `UniformAnswers`, `TrainsOneRoundOld`, `CollectivesMatch`, `NoneUsesFailed` |
| `StreamPackingProofs` | `FeedingInvariant`, `PackingWhole`, `TrainingInvariant`, `BatchesInOrder` | the invariants below, `PacksWhole`, `DeliveredInOrder` |

**The NCCL broadcast.** `NoTornRead` is not inductive: whether a view is intact
depends on what rank 0 had in its bucket when it was transferred, on which of
the receiver's buckets is being written, and on which of its copies are
pending. The inductive invariant adds

* `Layout`: the weights in a bucket's metadata lie inside the bucket without
  overlapping;
* `PendingCopies`: a pending copy belongs to the bucket being packed and to an
  entry of its metadata, and every packed weight is either pending or present
  in the bytes;
* `SenderOp`: the bucket being broadcast has all its bytes and is not the one
  being packed;
* `Messaging`: published metadata describe the bucket being broadcast, and each
  receiver is at most one broadcast behind;
* `Position`: which of its two buckets a receiver hands out and into which it
  receives, in each state of the generator;
* `PendingReads`: pending reads lie in the bucket handed out, whose bytes are
  those of its metadata.

The refinement needs to know in addition where each weight is. `Coverage` says
that a weight not yet loaded is still unsent, in flight to the receiver, in one
of its buckets or in a pending read; `Ending` and `Following` say when the last
bucket has been announced and who has seen it. A receiver that returns has seen
the last bucket, so nothing is unsent or in flight, and its consumer holds
everything.

**The bucket transfer.** One bucket is shared and an acknowledgement frees it.
The invariant describes the turns: who may act in which pair of program counters
(`Turns`), where every other rank may be relative to the driver rank, a barrier
at most behind or ahead (`Behind`), what a rank that reads has been told
(`Reading`), that the bucket holds what its metadata say whenever somebody may
read it (`Layout`, `PendingCopies`, `BucketFilled`), and which weights a rank
has got (`Holding`), which the refinement and `AdapterWhole` follow from.
Timeouts at any moment are part of it: a side that gave up never writes again.

**The Ray driver.** The cycle of calls is a sequence computed from the setting,
so the first lemmas say which call follows which in each mode. The invariant
relates the place of the driver to everything it has lent out:
`Outstanding` (which calls may still be queued at an actor, those left behind
by a failure included), `Slept` and `Engines` (what the driver believes asleep
and what is), `Models` and `Merges` (where the training model is and whether an
adapter is merged), `GivenUp` (what has been undone when the driver finalizes),
`Rounds`, `Loaded` and `Samples` (which versions have been counted, loaded and
generated with).

What failures leave out: `TakeTurns` is about engines with sleep mode, as the
others never give up their memory. `AwakeWhenUsed` says of streaming that
engines are awake whichever calls have raised, and of generation that they are
until a `generate` raises, because the `finally` block does not wait for the
replicas that still generate (a known limit of section 3). `EndsUnmerged`
leaves out the calls that run on the merged model outside of a `try` block or
in its `finally` (`LeavesMerged`): after those the adapter stays merged, and
the driver ends.

`LatestHeld` assumes `FreshAdapters`: where the adapter is sent apart from its
base (`vllm_enable_lora`), training starts at version 0 and trains on nothing
but samples of its own rounds. The second half holds because only GKD, which
always merges, trains on responses of the dataset. The first half is a real
restriction of the code: see the known limits in section 3.

**The Megatron trainer.** `LinkedIsComplete` depends on saves that were
started and have not landed, by this process or by one that died. `Written`
says which files a directory has at each phase of its save, `InFlight` that
asynchronous saves are queued in order and above the link, `Ahead` that
nothing on disk is ahead of the training, `Rotation` that the newest directory
is the one being saved, so that the rotation never removes what the link
names, and `Best` that the best checkpoint is one the rotation spares.
`Rotation` says so only where updates of the link do not fail: once one has
failed the newest directory is not the one the link names, and only a job that
removes no directories keeps what it does name (`LinkIsKept`). `TypeOK` says
in addition that the ranks count whole batches and draw samples the data set
has, whatever the offset in the epoch: `IndexInside`, by the size of the
buckets.

`SamplesTrainedOnce` counts batches. Whatever pass it is in and wherever the
job was resumed, a sampler that has yielded n batches yields as the next one
`Dealt(_, r, n)`, the one of that number in a run without interruption: its
epoch is `n \div EpochBatches`, its place in the epoch the remainder
(`Follows`, `NextBatchIs`). That needs a pass to end exactly after
`EpochBatches` batches (`HasBatchIs`), which is where `RanksDropAlike` comes
in, the condition of `EpochsWhole`; with data sharding it is not needed.
Batches of different numbers, ranks or places share no sample (division with
remainder is unique), so that n batches of all ranks are n times `GlobalMicro`
samples. The invariant `Progressed` says that weights and samplers agree on n,
in memory and in every checkpoint, so a resumed job goes on where its
checkpoint stopped.

**The batching worker.** `Arrivals` splits the arrived requests into those
grouped and those queued, `Tasks` says that a task of the pool holds requests of
its key in order of arrival, `Running` what the running batch is, what a stream
still owes, and that none of the batch is elsewhere, `Mailbox` that what a
caller has not read ends well.

`OwnConfigAndAdapter` assumes `NamesDiffer`: adapters with one name have one
path. Requests of `swift deploy` satisfy it, whose names are looked up in one
map from names to paths (`pipelines/infer/deploy.py:285`). Without it the code
answers with the first path loaded under the name (disagreement 2).

**Asynchronous rollouts.** The program of a rank is a sequence that grows by
what all of them decide, so the invariant names every remainder a program can
have. `Rounds` says that all ranks are in one round of one queue: `Local` gives,
for each of the phases between two collectives, the remainders a rank may have
and what it holds, and `Alike` that the ranks have submitted equally many
rollouts and agree on whether there is a result, wherever they decide by that.
`Stored` and `InHand` say which rollout a queue holds and which one has been
taken: by count, and by its step (`Recent`). A rank inside a collective is at
the step that is one (`Inside`), so what two ranks wait in is the same.

The server needs `Serving`: at most one call is under way; the pipes hold its
command, at most one bucket in front of it, and no reply of another call. That
holds because the main rank makes no call while its executor has a rollout
(`Quiet`). `Weights` follows the synchronisation call by call (which buckets
have been written or wait in a pipe, whether they have been processed, whether
the prefix cache is empty), so that a rollout is answered by the weights loaded
last (`Calling`), which are those of the step it was started at. Both parts rest
on the order of the programs: a rank waits for the rollout under way before it
synchronises the weights or prefetches.

All six theorems assume `Scheduled`: no `eval_on_start`, and no step that is
evaluated both by `on_step_end` and by `on_epoch_end`. That covers training
without evaluation, evaluation by steps, with `max_epochs` unless it stops at
a step that is evaluated anyway, and evaluation by epoch where `max_epochs`
stops the training before `max_steps`. The excluded schedules are disagreement
3 and the hang with `eval_on_start`. `FailedAreUnused` follows from `Alike`
and the order in a wait: a rank goes on with a queue only after every rank has
looked at a result that is no error, and the results at the heads of the
queues have the same number.

**Streams and packing.** The module begins with what the operators compute:
`FlattenSeq` over concatenations, `NextFit` and `BestFit` piece by piece
(`NextFitIs`, `BestFitIs`), and hence what `MatchedGroup` does with the pieces
of a round (`MatchedGroupIs`). `Lone(j)` is the sequence of what one process
alone would have packed and kept after each round of an epoch. By induction
over the rounds its packs hold every piece read so far once, in order if the
strategy says so, and the packs of a round begin with those of the round
before.

The first invariant, `Feeding`, says that the real generator is always where
`Lone` is after some number of rounds (`Generating`), whatever the processes
do. That depends on the messages of the round under way (`Encoding`): a sample
read is a ticket in the in-queue, in the hands of one process or lost with it,
an answer in the out-queue, or a result stored at its number, and never two of
these; what is counted as fetched is what has been stored (`Fetched`). When all
have been fetched, the results at their numbers are those of one process, in
whichever order they came. `Control` says that the data loader starts and ends
an epoch only while the generator is at its end, so an epoch never sees packs
of the one before. Once the generator has failed because a process died,
nothing more is claimed of the messages of its round, but the packs made remain
those of `Lone`. `PackingWhole` follows.

The second invariant, `Training`, counts: E epochs are finished, and in the
current one c batches have been taken from the packs and g given to every rank
(`Finished`, `Taking`). The batches in the hands of rank 0 are those that follow
(`Grouping`), and what a rank has got is its share of E epochs and the first g
batches after the skipped ones (`Delivered`). `BatchesInOrder` follows from both
invariants.

Both theorems have no hypothesis but `PackingAssumption`. It says, besides the
types, that no batch is larger than `Prefetch`, the packs the loader may ask for
ahead; that is how the model lets the loader run ahead and no restriction of
the program.

**Only model-checked.**

* Liveness (`SyncEnds`, `TransferEnds`, `EveryCallEnds`, `FailureReachesAll`,
  `FeedEnds` and the three `TrainingEnds`): fairness and `ENABLED` are out of the
  prover's reach.
* The counterexamples of section 3: each is of the instance of its run.

## 5. Not modelled

* Registries, templates, tuners, models, losses, arguments, the command line and
  the UI: most of the lines of the repository, and no protocol of their own.
* Process-group set-up beyond its blocking (TCP store, slow subscribers), HMAC
  authentication, CUDA handle caching, the schedulers inside vLLM, what happens
  inside collectives, numerical code.
* Of the modelled components: two event loops racing to start the batching
  worker, the map-style `PackingDataset`, index sharding in `dataloader/shard.py`,
  checkpoints of the trainers built on transformers, colocated engines and
  adapter-only synchronisation in the asynchronous rollout, start-up and
  shutdown of the rollout server.
* The components marked "planned" in section 1.

## 6. Plan

1. The map-style `PackingDataset`: one round over the whole dataset, with an end
   marker per process.
2. `HcclCheckpoint`, against the same `WeightStream`.
3. The start of the batching worker and its pool in single steps.
4. Worker-group slicing, resampling, early stop and shutdown.
