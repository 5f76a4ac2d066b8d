----------------------------- MODULE RayTrainLoop -----------------------------
(***************************************************************************)
(* The driver of Ray training (swift/ray/megatron): synchronise weights,   *)
(* generate, train, repeat (the _train_loop of grpo_trainer.py and         *)
(* gkd_trainer.py, _generation_context of base_trainer.py), with the       *)
(* CheckpointEngineManager between the train actors and the rollout        *)
(* replicas.  The driver issues one call to a whole group and waits with   *)
(* ray.get, which raises with the first call that raises and leaves the    *)
(* others running.  How a call moves the weights is NcclCheckpoint and     *)
(* BucketIpc; here a transfer is one joint step.                           *)
(***************************************************************************)
EXTENDS Integers, Sequences, FiniteSets

CONSTANTS
  Workers,        \* the MegatronWorker actors
  Replicas,       \* the rollout replicas
  Primary,        \* per replica, the worker with rollout_rank 0
  Settings,       \* the arguments to try, and whether calls may raise
  Spg,            \* steps_per_generation
  FirstVersion,   \* the iteration training resumes from
  TrainIters      \* train_iters

ASSUME RayAssumption ==
  /\ Workers # {} /\ Replicas # {} /\ Workers \cap Replicas = {}
  /\ Primary \in [Replicas -> Workers]
  /\ Settings \subseteq [colocated : BOOLEAN, sleepMode : BOOLEAN, lora : BOOLEAN,
                         mergeAndSync : BOOLEAN, offload : BOOLEAN, offPolicy : BOOLEAN,
                         failures : BOOLEAN]
  /\ \A s \in Settings : ~s.mergeAndSync => s.lora   \* vllm_enable_lora is for LoRA
  /\ Spg \in Nat \ {0} /\ FirstVersion \in Nat /\ TrainIters \in Nat

VARIABLES
  setting,        \* one of Settings
  \* ---- the driver ----
  pc,             \* where the driver is: a phase of Cycle, or one of Outside
  issued,         \* it waits in ray.get for the calls of that phase
  failing,        \* an exception is on its way to train()
  failedAt,       \* the phases whose ray.get raised
  sleeping,       \* _sleeping_tags of the manager
  baseSyncDone,   \* base_sync_done of the manager
  sampled,        \* the versions the current batch was generated with
  chunk,          \* step_idx
  \* ---- the workers; `version' counts the training steps of the policy ----
  version, merged, onGpu,
  \* ---- the replicas ----
  awake,          \* the memory each engine holds
  policy,         \* the versions of base weights and adapter it has loaded
  cache,          \* the versions its prefix cache was computed with
  \* ---- Ray ----
  inbox,          \* calls to a worker: executed one at a time, in order
  threads,        \* calls to a replica: executed concurrently
  raised          \* the calls that raised

driverVars  == <<pc, issued, failing, failedAt, sleeping, baseSyncDone, chunk>>
workerVars  == <<version, merged, onGpu>>
replicaVars == <<awake, policy, cache, sampled>>
rayVars     == <<inbox, threads, raised>>
vars == <<setting, driverVars, workerVars, replicaVars, rayVars>>

Colocated    == setting.colocated      \* the replicas share the GPUs of the workers
SleepMode    == setting.sleepMode      \* enable_sleep_mode of the engines: sleep_level > 0
Lora         == setting.lora           \* tuner_type is lora
MergeAndSync == setting.mergeAndSync   \* merge_and_sync: GKD TRUE, GRPO ~vllm_enable_lora
Offload      == setting.offload        \* offload_model or offload_optimizer
OffPolicy    == setting.offPolicy      \* GKD with lmbda < 1 also trains on the dataset's responses
Failures     == setting.failures       \* may a call raise?

Memory == {"weights", "kv_cache"}

-----------------------------------------------------------------------------
(* What the driver does in one round, as the calls it makes                *)

(* Mutants of SyncCalls: the adapter is merged late, or never unmerged.     *)
MergeLate ==
  <<"sleep", "wakeWeights", "offload", "update", "merge", "reload", "unmerge">>
NoUnmerge == <<"sleep", "wakeWeights", "merge", "offload", "update", "reload">>

(* _sync_weights_naive after sleep_rollout and wake_up_rollout, and        *)
(* _sync_weights_nccl.                                                     *)
SyncCalls ==
  IF Colocated
    THEN <<"sleep", "wakeWeights", "merge", "offload", "update", "reload", "unmerge">>
    ELSE <<"prepareTrain", "prepareRollout", "join", "merge", "send", "unmerge", "release">>

(* Mutant of GenerationCalls: training returns before the engine sleeps.    *)
ReloadFirst == <<"genOffload", "wakeKv", "generate", "finalizeGen", "genReload", "genSleep">>

(* _generation_context around the generation.                              *)
GenerationCalls ==
  IF Colocated
    THEN <<"genOffload", "wakeKv", "generate", "finalizeGen", "genSleep", "genReload">>
    ELSE <<"genOffload", "generate", "finalizeGen", "genReload">>

Cycle   == SyncCalls \o GenerationCalls \o <<"logps", "train">>
Outside == {"top", "finalize", "done"}
Phases  == {Cycle[i] : i \in DOMAIN Cycle} \cup {"finalize"}

After(p) == Cycle[1 + CHOOSE i \in DOMAIN Cycle : Cycle[i] = p]

NoFinally(p) == "finalize"   \* mutant of Handler

(* The try blocks: update and generate have a finally.                     *)
Handler(p) ==
  CASE p = "update" -> "reload" [] p = "generate" -> "finalizeGen" [] OTHER -> "finalize"
EndOfFinally == {"unmerge", "genReload"}

(* The same remote method called in two places.                            *)
Method(p) ==
  CASE p = "genSleep" -> "sleep" [] p = "genOffload" -> "offload" [] p = "genReload" -> "reload"
    [] OTHER -> p

OnReplicas == {"sleep", "wakeWeights", "wakeKv", "generate", "genSleep", "prepareRollout",
               "join", "send", "release"}

OnlyReplicasJoin == (Phases \ OnReplicas) \cup {"send", "release"}   \* mutant of OnWorkers

OnWorkers  == (Phases \ OnReplicas) \cup {"join", "send", "release"}

AdapterOnly == baseSyncDone /\ ~MergeAndSync

(* Mutant of NotNeeded: only an engine that is altogether asleep is woken.  *)
NotAltogetherAsleep(p) ==
  \/ p \in {"sleep", "genSleep"} /\ sleeping # {}
  \/ p \in {"wakeWeights", "wakeKv"} /\ sleeping # Memory
  \/ p \in {"merge", "unmerge"} /\ ~MergeAndSync
  \/ p \in {"genOffload", "genReload"} /\ ~(Colocated \/ Offload)

NotNeeded(p) ==
  \/ p \in {"sleep", "genSleep"} /\ sleeping # {}
  \/ p \in {"wakeWeights", "wakeKv"} /\ sleeping = {}
  \/ p \in {"merge", "unmerge"} /\ ~MergeAndSync
  \/ p \in {"genOffload", "genReload"} /\ ~(Colocated \/ Offload)

-----------------------------------------------------------------------------
(* init() has launched the engines, and _colocate_offload_ctx has brought  *)
(* the training model back to the GPU.                                     *)
Init ==
  /\ setting \in Settings
  /\ pc = "top" /\ issued = FALSE /\ failing = FALSE /\ failedAt = {}
  /\ sleeping = {} /\ baseSyncDone = FALSE /\ sampled = {} /\ chunk = 0
  /\ version = FirstVersion
  /\ merged = [w \in Workers |-> FALSE]
  /\ onGpu = [w \in Workers |-> TRUE]
  /\ awake = [r \in Replicas |-> Memory]
  /\ policy = [r \in Replicas |-> [base |-> 0, lora |-> 0]]
  /\ cache = [r \in Replicas |-> {}]
  /\ inbox = [w \in Workers |-> << >>]
  /\ threads = [r \in Replicas |-> {}]
  /\ raised = {}

(* The head of the loop: another round, or tg.finalize().                  *)
Loop ==
  /\ pc = "top"
  /\ \/ version < TrainIters /\ pc' = Head(Cycle) /\ sampled' = {}
     \/ version < TrainIters /\ OffPolicy /\ pc' = "train" /\ sampled' = {}
     \/ version >= TrainIters /\ pc' = "finalize" /\ UNCHANGED sampled
  /\ chunk' = 0
  /\ UNCHANGED <<issued, failing, failedAt, sleeping, baseSyncDone, workerVars, awake, policy, cache, rayVars>>

Goto(p) == IF failing /\ p \in EndOfFinally THEN "finalize" ELSE After(p)

Synced(p) == p = SyncCalls[Len(SyncCalls)] /\ ~failing

Skip ==
  /\ pc \in Phases /\ ~issued /\ NotNeeded(pc)
  /\ pc' = Goto(pc)
  /\ baseSyncDone' = (baseSyncDone \/ Synced(pc))
  /\ UNCHANGED <<issued, failing, failedAt, sleeping, chunk, workerVars, replicaVars, rayVars>>

Issue ==
  /\ pc \in Phases /\ ~issued /\ ~NotNeeded(pc)
  /\ issued' = TRUE
  /\ raised' = raised \ {Method(pc)}
  /\ inbox' = IF pc \in OnWorkers THEN [w \in Workers |-> Append(inbox[w], Method(pc))] ELSE inbox
  /\ threads' = IF pc \in OnReplicas THEN [r \in Replicas |-> threads[r] \cup {Method(pc)}] ELSE threads
  /\ UNCHANGED <<pc, failing, failedAt, sleeping, baseSyncDone, chunk, workerVars, replicaVars>>

Calls(s) == {s[i] : i \in DOMAIN s}

(* No call of this phase is outstanding, and none has raised.              *)
Answered ==
  /\ issued /\ Method(pc) \notin raised
  /\ \A w \in Workers : Method(pc) \notin Calls(inbox[w])
  /\ \A r \in Replicas : Method(pc) \notin threads[r]

(* ray.get returns: the driver notes what it has done and goes on.         *)
Return ==
  /\ pc \notin {"train", "finalize"} /\ Answered
  /\ pc' = Goto(pc) /\ issued' = FALSE
  /\ sleeping' = CASE Method(pc) = "sleep" -> Memory
                   [] pc = "wakeWeights"   -> sleeping \ {"weights"}
                   [] pc = "wakeKv"        -> sleeping \ {"kv_cache"}
                   [] OTHER                -> sleeping
  /\ baseSyncDone' = (baseSyncDone \/ Synced(pc))
  /\ UNCHANGED <<failing, failedAt, chunk, workerVars, replicaVars, rayVars>>

ChunkLeft(n) == n < Spg   \* mutant of MoreOfRound

(* The next chunk of the batch is trained on, if training is not complete. *)
MoreOfRound(n) == n < Spg /\ version < TrainIters

ReturnTrain ==
  /\ pc = "train" /\ Answered
  /\ issued' = FALSE
  /\ chunk' = chunk + 1
  /\ pc' = IF MoreOfRound(chunk') THEN "train" ELSE "top"
  /\ UNCHANGED <<failing, failedAt, sleeping, baseSyncDone, workerVars, replicaVars, rayVars>>

ReturnFinalize ==
  /\ pc = "finalize" /\ Answered
  /\ pc' = "done" /\ issued' = FALSE
  /\ UNCHANGED <<failing, failedAt, sleeping, baseSyncDone, chunk, workerVars, replicaVars, rayVars>>

(* ray.get raises, whatever else is still running.                         *)
Raise ==
  /\ issued /\ Method(pc) \in raised
  /\ pc' = IF pc = "finalize" THEN "done" ELSE Handler(pc)
  /\ issued' = FALSE /\ failing' = TRUE
  /\ failedAt' = failedAt \cup {pc}
  /\ UNCHANGED <<sleeping, baseSyncDone, chunk, workerVars, replicaVars, rayVars>>

Driver ==
  /\ Loop \/ Skip \/ Issue \/ Return \/ ReturnTrain \/ ReturnFinalize \/ Raise
  /\ UNCHANGED setting

-----------------------------------------------------------------------------
(* The actors.  A worker takes its calls in order, a replica in any order. *)

TakenBy(W, m) ==
  /\ \A w \in W : inbox[w] # << >> /\ Head(inbox[w]) = m
  /\ inbox' = [w \in Workers |-> IF w \in W THEN Tail(inbox[w]) ELSE inbox[w]]

TakenIn(R, m) ==
  /\ \A r \in R : m \in threads[r]
  /\ threads' = [r \in Replicas |-> IF r \in R THEN threads[r] \ {m} ELSE threads[r]]

OnWorker(w, m)  == TakenBy({w}, m) /\ UNCHANGED <<driverVars, threads, raised>>
OnReplica(r, m) == TakenIn({r}, m) /\ UNCHANGED <<driverVars, workerVars, inbox, raised>>

(* merge_lora, unmerge_lora, offload_to_cpu and reload_to_gpu of a worker. *)
Merge(w) ==
  /\ OnWorker(w, "merge")
  /\ merged' = [merged EXCEPT ![w] = Lora]
  /\ UNCHANGED <<version, onGpu, replicaVars>>

Unmerge(w) ==
  /\ OnWorker(w, "unmerge")
  /\ merged' = [merged EXCEPT ![w] = FALSE]
  /\ UNCHANGED <<version, onGpu, replicaVars>>

Move(w) ==
  \E m \in {"offload", "reload"} :
    /\ OnWorker(w, m)
    /\ onGpu' = [onGpu EXCEPT ![w] = (m = "reload")]
    /\ UNCHANGED <<version, merged, replicaVars>>

(* bridge.export_weights: the base weights hold what has been merged, and  *)
(* peft_format exports the adapter alone.                                  *)
Exported(p) ==
  IF AdapterOnly THEN [p EXCEPT !.lora = version]
                 ELSE [p EXCEPT !.base = IF Lora /\ \E w \in Workers : ~merged[w] THEN 0 ELSE version]

(* update_weights: a collective of the workers, whose primaries stream to  *)
(* their replicas and then reset the prefix cache.                         *)
UpdateWeights ==
  /\ TakenBy(Workers, "update")
  /\ policy' = [r \in Replicas |-> Exported(policy[r])]
  /\ cache' = [r \in Replicas |-> {}]
  /\ UNCHANGED <<driverVars, workerVars, awake, sampled, threads, raised>>

(* send_checkpoint_weights of every worker with receive_checkpoint_weights *)
(* of every replica.                                                       *)
SendWeights ==
  /\ TakenBy(Workers, "send") /\ TakenIn(Replicas, "send")
  /\ policy' = [r \in Replicas |-> Exported(policy[r])]
  /\ UNCHANGED <<driverVars, workerVars, awake, cache, sampled, raised>>

(* init_checkpoint_process_group waits for all of its members the first    *)
(* time, and finds the group initialized later.                            *)
Join ==
  /\ ~baseSyncDone
  /\ TakenBy(Workers, "join") /\ TakenIn(Replicas, "join")
  /\ UNCHANGED <<driverVars, workerVars, replicaVars, raised>>

Rejoin == IF baseSyncDone THEN {"join"} ELSE {}

(* prepare_checkpoint_engine and finalize_checkpoint_engine (nothing is    *)
(* torn down with rebuild_group=False), and the end of training.           *)
Admin ==
  /\ \/ \E w \in Workers, m \in {"prepareTrain", "release", "finalize"} \cup Rejoin : OnWorker(w, m)
     \/ \E r \in Replicas, m \in {"prepareRollout", "release"} \cup Rejoin : OnReplica(r, m)
  /\ UNCHANGED <<workerVars, replicaVars>>

(* The engine's sleep drops the KV cache, and the prefix cache with it.    *)
(* Without sleep mode sleep and wake_up return at once.                    *)
Sleep(r) ==
  /\ OnReplica(r, "sleep")
  /\ IF SleepMode
       THEN awake' = [awake EXCEPT ![r] = {}] /\ cache' = [cache EXCEPT ![r] = {}]
       ELSE UNCHANGED <<awake, cache>>
  /\ UNCHANGED <<policy, sampled>>

Tag(m)   == IF m = "wakeWeights" THEN "weights" ELSE "kv_cache"
Woken(m) == IF SleepMode THEN {Tag(m)} ELSE {}

WakeUp(r) ==
  \E m \in {"wakeWeights", "wakeKv"} :
    /\ OnReplica(r, m)
    /\ awake' = [awake EXCEPT ![r] = @ \cup Woken(m)]
    /\ UNCHANGED <<policy, cache, sampled>>

(* generate_batch passes no adapter_request: a loaded adapter is not used. *)
Answers(p) == p.base

Generate(r) ==
  /\ OnReplica(r, "generate")
  /\ sampled' = sampled \cup {Answers(policy[r])}
  /\ cache' = [cache EXCEPT ![r] = @ \cup {Answers(policy[r])}]
  /\ UNCHANGED <<awake, policy>>

(* finalize_generation resets the prefix cache through the rollout         *)
(* adapter, which only colocated workers have.                             *)
FinalizeGeneration(w) ==
  /\ OnWorker(w, "finalizeGen")
  /\ cache' = [r \in Replicas |-> IF Colocated /\ Primary[r] = w THEN {} ELSE cache[r]]
  /\ UNCHANGED <<workerVars, awake, policy, sampled>>

(* compute_logps and train_step are collectives of the workers.            *)
ComputeLogps ==
  /\ TakenBy(Workers, "logps")
  /\ UNCHANGED <<driverVars, workerVars, replicaVars, threads, raised>>

TrainStep ==
  /\ TakenBy(Workers, "train")
  /\ version' = version + 1
  /\ UNCHANGED <<driverVars, merged, onGpu, replicaVars, threads, raised>>

(* A call raises and has no effect on the actor; what it was a part of     *)
(* cannot complete on the others.                                          *)
CallRaises ==
  /\ Failures
  /\ \/ \E w \in Workers : inbox[w] # << >> /\ TakenBy({w}, Head(inbox[w]))
                           /\ raised' = raised \cup {Head(inbox[w])} /\ UNCHANGED threads
     \/ \E r \in Replicas : \E m \in threads[r] :
           TakenIn({r}, m) /\ raised' = raised \cup {m} /\ UNCHANGED inbox
  /\ UNCHANGED <<setting, driverVars, workerVars, replicaVars>>

Actors ==
  /\ \/ UpdateWeights \/ SendWeights \/ Join \/ Admin \/ ComputeLogps \/ TrainStep
     \/ \E w \in Workers : Merge(w) \/ Unmerge(w) \/ Move(w) \/ FinalizeGeneration(w)
     \/ \E r \in Replicas : Sleep(r) \/ WakeUp(r) \/ Generate(r)
  /\ UNCHANGED setting

Next == Driver \/ Actors \/ CallRaises

Spec == Init /\ [][Next]_vars

(* The driver and the actors go on as long as they can.                    *)
FairSpec == Spec /\ WF_vars(Driver) /\ WF_vars(Actors)

-----------------------------------------------------------------------------
(* Properties *)

Versions == FirstVersion .. FirstVersion + TrainIters
Methods  == {Method(p) : p \in Phases}

(* Type invariant.                                                         *)
TypeOK ==
  /\ setting \in Settings
  /\ pc \in Phases \cup Outside /\ issued \in BOOLEAN /\ failing \in BOOLEAN
  /\ failedAt \subseteq Phases
  /\ sleeping \subseteq Memory /\ baseSyncDone \in BOOLEAN
  /\ sampled \subseteq Versions \cup {0} /\ chunk \in 0 .. Spg
  /\ version \in Versions
  /\ merged \in [Workers -> BOOLEAN] /\ onGpu \in [Workers -> BOOLEAN]
  /\ awake \in [Replicas -> SUBSET Memory]
  /\ policy \in [Replicas -> [base : Versions \cup {0}, lora : Versions \cup {0}]]
  /\ cache \in [Replicas -> SUBSET (Versions \cup {0})]
  /\ inbox \in [Workers -> Seq(Methods)]
  /\ threads \in [Replicas -> SUBSET Methods]
  /\ raised \subseteq Methods

Waiting(p) == issued /\ pc = p /\ p \notin raised

(* What a replica has loaded when it generates is the trained policy, as   *)
(* merged base weights or as base weights and adapter, and never both.     *)
HoldsLatest ==
  Waiting("generate") => \A r \in Replicas :
    policy[r] \in {[base |-> version, lora |-> 0], [base |-> 0, lora |-> version]}

(* No replica answers from a prefix cache that other weights computed.     *)
CacheFresh ==
  Waiting("generate") => \A r \in Replicas : cache[r] \subseteq {Answers(policy[r])}

(* An engine has the memory it is used with: weights are streamed into a   *)
(* replica only while its weights are awake, whichever calls have raised,  *)
(* and a replica generates only while it is awake altogether.  When one    *)
(* replica has raised, the finally of _generation_context puts to sleep    *)
(* others that still generate, which is left out here.                     *)
AwakeWhenUsed ==
  /\ (\E w \in Workers : "update" \in Calls(inbox[w])) => \A r \in Replicas : "weights" \in awake[r]
  /\ "generate" \notin failedAt =>
       \A r \in Replicas : "generate" \in threads[r] => awake[r] = Memory

(* Colocated training and inference take turns on the GPUs: from the first *)
(* synchronisation on, no engine with sleep mode holds its KV cache while  *)
(* a worker holds the training model there, whichever call raises.         *)
TakeTurns ==
  (Colocated /\ SleepMode /\ baseSyncDone) =>
    \A r \in Replicas, w \in Workers : ~("kv_cache" \in awake[r] /\ onGpu[w])

(* A call that raises and finds no handler while the adapter is merged.    *)
LeavesMerged == {"merge", "offload", "reload", "send", "unmerge"}

(* Whatever else raises, in either mode, no adapter is left merged in the  *)
(* model when the driver gives up.                                         *)
EndsUnmerged ==
  (pc \in {"finalize", "done"} /\ failedAt \cap LeavesMerged = {})
    => \A w \in Workers : ~merged[w]

(* A training step runs on the unmerged model on the GPU of every worker,  *)
(* and, where adapters are merged, the k-th step of a round trains on      *)
(* samples k steps old.                                                    *)
TrainsProperly ==
  [][version' # version =>
       /\ \A w \in Workers : ~merged[w] /\ onGpu[w]
       /\ MergeAndSync => \A v \in sampled : v = version - chunk
       /\ chunk < Spg]_vars

(* Training completes when nothing raises.                                 *)
TrainingEnds == Failures \/ <>(pc = "done" /\ version >= TrainIters)
=============================================================================
