--------------------------- MODULE MegatronTrainer ---------------------------
(***************************************************************************)
(* The training loop of the Megatron trainers and the checkpoints it       *)
(* leaves (src/swift/megatron/trainers/base.py,                            *)
(* src/swift/megatron/utils/megatron_lm_utils.py): a step trains on one    *)
(* batch of every rank, evaluates and saves when the callbacks say so; a   *)
(* save writes a directory in several steps, links it as `last-checkpoint' *)
(* when all of it is there and removes the directories beyond              *)
(* save_total_limit.  Under --async_save the weights land later and the    *)
(* link waits for them.                                                    *)
(*                                                                         *)
(* The job may die between any two of these steps (Crash).  It is started  *)
(* again from what `last-checkpoint' names, into the same output_dir       *)
(* (--add_version false, --finetune false).  The ranks run in lockstep: a  *)
(* step ends in collectives, so one process stands for all of them, but    *)
(* each has a sampler of its own.                                          *)
(***************************************************************************)
EXTENDS PretrainSampler, Sequences, SequencesExt, FiniteSets, FiniteSetsExt

CONSTANTS NumMicro,    \* num_microbatches of a step
          TrainIters, SaveSteps, EvalSteps,
          TotalLimit,  \* save_total_limit, when there is one
          Scores,      \* values of metric_for_best_model (a loss: least is best)
          MaxCrashes   \* bound: how often the job dies

(* async_save excludes save_total_limit; no limit is 0.  Where linkFails    *)
(* the file system may refuse the link, or something else has its name.    *)
Modes == [async : {TRUE}, limit : {0}, sharding : BOOLEAN, linkFails : BOOLEAN]
           \cup [async : {FALSE}, limit : {0, TotalLimit}, sharding : BOOLEAN, linkFails : BOOLEAN]

ASSUME TrainerAssumption ==
  /\ NumMicro \in Nat \ {0}
  /\ TrainIters \in Nat \ {0}
  /\ SaveSteps \in Nat \ {0}
  /\ EvalSteps \in Nat \ {0}
  /\ TotalLimit \in Nat /\ TotalLimit >= 2
  /\ Scores \subseteq Nat
  /\ MaxCrashes \in Nat

Iterations == 1 .. TrainIters
NoIteration == 0

(* global_batch_size *)
GlobalBatch == GlobalMicro * NumMicro

(* What a checkpoint directory is made of: the sharded weights and         *)
(* optimizer state under iter_N, the tracker file that names N, and the    *)
(* exported safetensors.                                                   *)
Parts == {"weights", "tracker", "safetensors"}

VARIABLES
  mode,      \* the job's arguments: async_save, save_total_limit, data_sharding;
             \* and whether `last-checkpoint' can fail to be updated
  phase,     \* where the program is
  iteration, consumed,    \* state.iteration, state.consumed_train_samples
  argConsumed,            \* args.consumed_train_samples, what a checkpoint keeps
  sampler,   \* per rank: its sampler and the pass in progress
  trained,   \* the samples the weights in memory were trained on
  best,      \* state.best_metric and state.best_global_step
  bestDir,   \* state.best_model_checkpoint
  mtime,     \* per iteration: when its directory was last touched, 0 if there is none
  parts,     \* per iteration: what its directory holds in full
  saved,     \* per iteration: what its weights and its common.pt say
  link,      \* the iteration `last-checkpoint' names
  pending,   \* asynchronous saves not yet finalised, oldest first
  crashes

memory == <<iteration, consumed, argConsumed, sampler, trained, best, bestDir>>
disk == <<mtime, parts, saved, link>>
vars == <<mode, phase, memory, disk, pending, crashes>>

NoScore == [metric |-> NoIteration, step |-> NoIteration]
Empty == [consumed |-> 0, trained |-> {}]

-----------------------------------------------------------------------------
(* Starting                                                                *)

Dirs == {i \in Iterations : mtime[i] # 0}
After(i) == Max({mtime[j] : j \in Iterations \ {i}} \cup {0}) + 1

Init ==
  /\ mode \in Modes
  /\ phase = "step"
  /\ iteration = 0 /\ consumed = 0 /\ argConsumed = 0
  /\ sampler = [r \in DPRanks |-> NewPass(0)]
  /\ trained = {}
  /\ best = NoScore /\ bestDir = NoIteration
  /\ mtime = [i \in Iterations |-> 0]
  /\ parts = [i \in Iterations |-> {}]
  /\ saved = [i \in Iterations |-> Empty]
  /\ link = NoIteration
  /\ pending = <<>>
  /\ crashes = 0

(* Trainer.__init__ with _load_checkpoint: the iteration of the tracker    *)
(* file and the count of consumed samples of common.pt; nothing of best_*  *)
(* is restored.  Without a checkpoint the job starts from nothing.         *)
LoadCheckpoint ==
  /\ phase = "down"
  /\ link # NoIteration => {"weights", "tracker"} \subseteq parts[link]
  /\ LET from == IF link = NoIteration THEN Empty ELSE saved[link]
     IN  /\ iteration' = link
         /\ consumed' = from.consumed
         /\ argConsumed' = from.consumed
         /\ trained' = from.trained
         /\ sampler' = [r \in DPRanks |-> NewPass(from.consumed)]
  /\ best' = NoScore /\ bestDir' = NoIteration
  /\ phase' = "step"
  /\ UNCHANGED <<mode, disk, pending, crashes>>

Forget ==
  /\ iteration' = 0 /\ consumed' = 0 /\ argConsumed' = 0
  /\ sampler' = [r \in DPRanks |-> NewPass(0)]
  /\ trained' = {}
  /\ best' = NoScore /\ bestDir' = NoIteration

(* The process ends, and with it its memory and what it had not finished   *)
(* writing.                                                                *)
Die ==
  /\ crashes < MaxCrashes
  /\ crashes' = crashes + 1
  /\ phase' = "down"
  /\ pending' = <<>>
  /\ Forget

-----------------------------------------------------------------------------
(* A step                                                                  *)

(* What `last-checkpoint' names after it was to name the given iterations, *)
(* one after the other and last of all the last.                           *)
Linked(given, last) == IF mode.linkFails THEN {link} \cup given ELSE {last}

(* maybe_finalize_async_save(blocking=False): the oldest saves that have   *)
(* landed are finalised in order, each moving the link: it ends at the     *)
(* last whose update did not fail.                                         *)
Landed(i) == "weights" \in parts[i]
Finalisable == {n \in 0 .. Len(pending) : \A k \in 1 .. n : Landed(pending[k])}
FinaliseAny(n) ==
  IF \E k \in DOMAIN pending : Landed(pending[k])
  THEN \E k \in DOMAIN pending :
         /\ Landed(pending[k])
         /\ link' = pending[k]
         /\ pending' = RemoveAt(pending, k)
  ELSE UNCHANGED <<link, pending>>
FinaliseFirst(n) ==
  /\ link' \in Linked({pending[k] : k \in 1 .. n}, IF n = 0 THEN link ELSE pending[n])
  /\ pending' = SubSeq(pending, n + 1, Len(pending))

(* The batches one rank takes in a step, and its sampler after them.       *)
Draws(r) ==
  LET draw[n \in 0 .. NumMicro] ==
        IF n = 0 THEN [sampler |-> sampler[r], got |-> {}]
        ELSE LET s == Turned(mode.sharding, r, draw[n - 1].sampler)
             IN  [sampler |-> Yielded(s),
                  got |-> draw[n - 1].got \cup BatchOf(mode.sharding, r, s)]
  IN  draw[NumMicro]

(* on_step_end: the last iteration evaluates and saves too.                *)
ShouldEval(i) == i % EvalSteps = 0 \/ i >= TrainIters
ShouldSave(i) == i % SaveSteps = 0 \/ i >= TrainIters

(* train: while state.iteration < args.train_iters                          *)
UnfinishedTooLong == iteration <= TrainIters
Unfinished == iteration < TrainIters

(* run_train_step up to the save: the step ends here when none is due.     *)
TrainStep ==
  /\ phase = "step" /\ Unfinished
  /\ FinaliseFirst(Max(Finalisable))
  /\ trained' = trained \cup UNION {Draws(r).got : r \in DPRanks}
  /\ sampler' = [r \in DPRanks |-> Draws(r).sampler]
  /\ iteration' = iteration + 1
  /\ consumed' = consumed + GlobalBatch
  /\ phase' = IF ~ ShouldSave(iteration') THEN "step"
              ELSE IF ShouldEval(iteration') THEN "score" ELSE "mkdir"
  /\ UNCHANGED <<mode, argConsumed, best, bestDir, mtime, parts, saved, crashes>>

(* _determine_best_metric: a score as good as the best replaces it.        *)
IsBest(score) == best.step = NoIteration \/ score <= best.metric
DetermineBest(score) ==
  /\ phase = "score"
  /\ best' = IF IsBest(score) THEN [metric |-> score, step |-> iteration] ELSE best
  /\ phase' = "mkdir"
  /\ UNCHANGED <<mode, iteration, consumed, argConsumed, sampler, trained, bestDir,
                 disk, pending, crashes>>

(* A first score that is not a number beats nothing: no best step is known *)
(* and the tensor of it cannot be made, which ends the job.                *)
ScoreNotANumber ==
  /\ phase = "score" /\ best.step = NoIteration
  /\ Die
  /\ UNCHANGED <<mode, disk>>

-----------------------------------------------------------------------------
(* save_checkpoint                                                         *)

(* os.makedirs(exist_ok=True).  What an attempt before a crash left there  *)
(* is written over; whether that touches the directory itself depends on   *)
(* whether a file is new.  Without a limit nothing reads the times.        *)
Touched(i) == IF mode.limit = 0 THEN {1} ELSE {After(i)} \cup ({mtime[i]} \ {0})
MakeDirUncounted ==
  /\ phase = "mkdir"
  /\ \E t \in Touched(iteration) : mtime' = [mtime EXCEPT ![iteration] = t]
  /\ parts' = [parts EXCEPT ![iteration] = @ \cap {"tracker"}]
  /\ phase' = "weights"
  /\ UNCHANGED <<mode, memory, saved, link, pending, crashes>>
MakeDir ==
  /\ phase = "mkdir"
  /\ argConsumed' = consumed
  /\ \E t \in Touched(iteration) : mtime' = [mtime EXCEPT ![iteration] = t]
  /\ parts' = [parts EXCEPT ![iteration] = @ \cap {"tracker"}]
  /\ phase' = "weights"
  /\ UNCHANGED <<mode, iteration, consumed, sampler, trained, best, bestDir,
                 saved, link, pending, crashes>>

(* save_mcore_checkpoint: dist_checkpointing.save takes the state now; the *)
(* weights are on disk when it returns, unless it is asynchronous.         *)
WriteWeights ==
  /\ phase = "weights"
  /\ saved' = [saved EXCEPT ![iteration] = [consumed |-> argConsumed, trained |-> trained]]
  /\ parts' = IF mode.async THEN parts ELSE [parts EXCEPT ![iteration] = @ \cup {"weights"}]
  /\ phase' = "tracker"
  /\ UNCHANGED <<mode, memory, mtime, link, pending, crashes>>

(* The tracker file, and schedule_async_save.                              *)
WriteTracker ==
  /\ phase = "tracker"
  /\ parts' = [parts EXCEPT ![iteration] = @ \cup {"tracker"}]
  /\ pending' = IF mode.async THEN Append(pending, iteration) ELSE pending
  /\ phase' = "safetensors"
  /\ UNCHANGED <<mode, memory, mtime, saved, link, crashes>>

(* The best directory is noted, if it is there, and the weights exported.  *)
WriteSafetensors ==
  /\ phase = "safetensors"
  /\ bestDir' = IF best.step \in Dirs THEN best.step ELSE bestDir
  /\ parts' = [parts EXCEPT ![iteration] = @ \cup {"safetensors"}]
  /\ phase' = "link"
  /\ UNCHANGED <<mode, iteration, consumed, argConsumed, sampler, trained, best,
                 mtime, saved, link, pending, crashes>>

(* update_last_checkpoint_symlink, replaced atomically or, with a warning, *)
(* not at all; an asynchronous save leaves it to its finalisation.         *)
UpdateLinkAtOnce ==
  /\ phase = "link"
  /\ link' \in Linked({iteration}, iteration)
  /\ phase' = "rotate"
  /\ UNCHANGED <<mode, memory, mtime, parts, saved, pending, crashes>>
UpdateLink ==
  /\ phase = "link"
  /\ link' \in IF mode.async THEN {link} ELSE Linked({iteration}, iteration)
  /\ phase' = "rotate"
  /\ UNCHANGED <<mode, memory, mtime, parts, saved, pending, crashes>>

(* _rotate_checkpoints: the directories beyond the limit go, oldest first, *)
(* the best one last of all.                                               *)
Excess == mode.limit > 0 /\ Cardinality(Dirs) > mode.limit
IsOldestOfAll(v) ==
  /\ v \in Dirs
  /\ \A d \in Dirs : mtime[v] <= mtime[d]
IsOldest(v) ==
  /\ v \in Dirs \ {bestDir}
  /\ \A d \in Dirs \ {bestDir} : mtime[v] <= mtime[d]

RemoveOldest(v) ==
  /\ phase = "rotate" /\ Excess /\ IsOldest(v)
  /\ mtime' = [mtime EXCEPT ![v] = 0]
  /\ parts' = [parts EXCEPT ![v] = {}]
  /\ UNCHANGED <<mode, phase, memory, saved, link, pending, crashes>>

EndRotation ==
  /\ phase = "rotate" /\ ~ Excess
  /\ phase' = "step"
  /\ UNCHANGED <<mode, memory, disk, pending, crashes>>

-----------------------------------------------------------------------------
(* The asynchronous writer, the end and the death of the job               *)

(* An asynchronous save reaches the disk, in any order.                    *)
Land(i) ==
  /\ phase # "down"
  /\ i \in ToSet(pending) /\ ~ Landed(i)
  /\ parts' = [parts EXCEPT ![i] = @ \cup {"weights"}]
  /\ UNCHANGED <<mode, phase, memory, mtime, saved, link, pending, crashes>>

(* finalize_training: maybe_finalize_async_save(blocking=True) waits.      *)
FinalizeWithoutWaiting ==
  /\ phase = "step" /\ ~ Unfinished
  /\ FinaliseFirst(Max(Finalisable))
  /\ phase' = "done"
  /\ UNCHANGED <<mode, memory, mtime, parts, saved, crashes>>
FinalizeTraining ==
  /\ phase = "step" /\ ~ Unfinished
  /\ \A i \in ToSet(pending) : Landed(i)
  /\ FinaliseFirst(Len(pending))
  /\ phase' = "done"
  /\ UNCHANGED <<mode, memory, mtime, parts, saved, crashes>>

Crash ==
  /\ phase \notin {"down", "done"}
  /\ Die
  /\ UNCHANGED <<mode, disk>>

(* Dying in the middle of rmtree leaves some of the directory, touched.    *)
CrashWhileRemoving(v) ==
  /\ phase = "rotate" /\ Excess /\ IsOldest(v)
  /\ Die
  /\ \E left \in SUBSET parts[v] : parts' = [parts EXCEPT ![v] = left]
  /\ mtime' = [mtime EXCEPT ![v] = After(v)]
  /\ UNCHANGED <<mode, saved, link>>

Progress ==
  \/ LoadCheckpoint
  \/ TrainStep
  \/ \E score \in Scores : DetermineBest(score)
  \/ MakeDir \/ WriteWeights \/ WriteTracker \/ WriteSafetensors \/ UpdateLink
  \/ \E v \in Iterations : RemoveOldest(v)
  \/ EndRotation
  \/ FinalizeTraining

Next ==
  \/ Progress
  \/ \E i \in Iterations : Land(i) \/ CrashWhileRemoving(i)
  \/ ScoreNotANumber
  \/ Crash

Spec == Init /\ [][Next]_vars

(* The job runs, the writer writes, and a job that died is started again.  *)
Fairness == WF_vars(Progress) /\ \A i \in Iterations : WF_vars(Land(i))
FairSpec == Spec /\ Fairness

-----------------------------------------------------------------------------
(* Properties                                                              *)

Phases == {"step", "score", "mkdir", "weights", "tracker", "safetensors", "link",
           "rotate", "down", "done"}
SampleSets == SUBSET (Nat \X (0 .. Total - 1))
Counts == {c \in Nat : c % GlobalMicro = 0}
Snapshots == [consumed : Counts, trained : SampleSets]
BestScores == [metric : Nat, step : 0 .. TrainIters]
Samplers == [consumed : Counts, epoch : Nat, offset : Nat, yielded : Nat]

(* Every variable has its type: the ranks draw samples the data set has    *)
(* and count whole batches of them, a directory that is not there holds    *)
(* nothing, and a save in flight is of an iteration of this process.       *)
TypeOK ==
  /\ mode \in Modes /\ phase \in Phases
  /\ iteration \in 0 .. TrainIters
  /\ consumed \in Counts /\ argConsumed \in Counts
  /\ sampler \in [DPRanks -> Samplers]
  /\ trained \in SampleSets
  /\ best \in BestScores /\ bestDir \in 0 .. TrainIters
  /\ mtime \in [Iterations -> Nat]
  /\ parts \in [Iterations -> SUBSET Parts]
  /\ \A i \in Iterations : mtime[i] = 0 => parts[i] = {}
  /\ saved \in [Iterations -> Snapshots]
  /\ link \in 0 .. TrainIters
  /\ pending \in Seq(1 .. iteration)
  /\ crashes \in 0 .. MaxCrashes

(* "Readers never observe a missing link" (update_last_checkpoint_symlink):*)
(* what `last-checkpoint' names is there in full whenever the job dies.    *)
LinkNeverDangles == link # NoIteration => parts[link] = Parts

(* It is, neither an asynchronous save still being written nor a directory *)
(* the rotation has removed, unless updates of the link fail where         *)
(* directories are removed: a failed update alone leaves the link on an    *)
(* older checkpoint that is there.                                         *)
LinkIsKept == mode.linkFails => mode.limit = 0
LinkedIsComplete == LinkIsKept => LinkNeverDangles

(* "Last batch if not complete will be dropped" (the sampler): no rank     *)
(* trains on a sample behind the active ones of an epoch.                  *)
LastBatchDropped == \A s \in trained : s[2] < ActiveTotal

(* Over all crashes, the weights have been trained on as many distinct     *)
(* samples as they count: a resumed job repeats none and skips none, every *)
(* finished epoch used all of its active samples and the ranks never       *)
(* train in different epochs.  Unless the data set is sharded the ranks    *)
(* must for that drop the same last batch (RanksDropAlike): each of them   *)
(* looks at its own micro-batches only.                                    *)
RanksDropAlike == FullBucketSize + DataParallel <= ActiveTotal + GlobalMicro
EpochSamples(e) == {s \in trained : s[1] = e}
EpochsWhole ==
  mode.sharding \/ RanksDropAlike =>
    /\ Cardinality(trained) = consumed
    /\ \A e \in 0 .. (consumed \div ActiveTotal) - 1 :
         Cardinality(EpochSamples(e)) = ActiveTotal

(* The checkpoint with the best score since the job was started outlives   *)
(* every rotation, in full when saves are synchronous.                     *)
KeepsBest ==
  (phase = "step" /\ best.step # NoIteration) =>
    /\ best.step \in Dirs
    /\ ~ mode.async => parts[best.step] = Parts

(* The link only ever moves to a later iteration: asynchronous saves that  *)
(* land out of order are not finalised out of order, and a job that was    *)
(* started again never falls behind what it was started from.              *)
LinkAdvances == [][link' > link]_link

(* A job that dies finitely often ends, and its last checkpoint is the one *)
(* of the last iteration, if the link could be moved to it.                *)
TrainingEnds ==
  LinkIsKept => <>(phase = "done" /\ (~ mode.linkFails => link = TrainIters))
=============================================================================
