----------------------------- MODULE AsyncRollout -----------------------------
(***************************************************************************)
(* GRPO training with --async_generate (RolloutTrainerMixin in swift/      *)
(* rlhf_trainers/rollout_mixin.py, GRPOTrainer in grpo_trainer.py) on top  *)
(* of RolloutServer.  Each generation call takes the result of the call    *)
(* before and starts the next rollout in a thread, with a queue for        *)
(* training and one for evaluation.  All ranks run the same program, given *)
(* here as a sequence of steps; some of them are collectives, which happen *)
(* when every rank has reached one.  Only the main rank talks to the       *)
(* server; the others hold empty results that obey the same protocol.      *)
(***************************************************************************)
EXTENDS RolloutServer

CONSTANTS Ranks, Main,
          NumSteps,        \* max_steps: optimizer steps of the training
          StepsPerEpoch,   \* optimizer steps of one epoch
          MaxEpochs,       \* max_epochs, 0 without it
          GenerateEvery,   \* optimizer steps per generation call
          EvalStrategy,    \* eval_strategy: "no", by "steps" or by "epoch"
          EvalEvery,       \* eval_steps
          EvalBatches,     \* batches of one evaluation
          MaxResample,     \* max_resample_times of dynamic sampling, 0 without it
          EvalOnStart,     \* eval_on_start
          BatchOf          \* requests of one generation call, per kind of data

ASSUME AsyncAssumption ==
  /\ Main \in Ranks
  /\ {NumSteps, StepsPerEpoch, GenerateEvery, EvalEvery, EvalBatches} \subseteq Nat \ {0}
  /\ EvalStrategy \in {"no", "steps", "epoch"}
  /\ MaxEpochs \in Nat /\ MaxResample \in Nat
  /\ EvalOnStart \in BOOLEAN
  /\ BatchOf \in [{"train", "eval"} -> Nat \ {0}]

Modes == {"train", "eval"}      \* of the queues, and of the data in them

VARIABLES
  step,        \* global_step
  todo,        \* the steps a rank has still to run, see Program below
  inside,      \* what a rank has brought to the collective it waits in, or Outside
  queue,       \* train_queue and eval_queue of a rank
  tasks,       \* rollouts given to the one-thread executor, the first is running
  sent,        \* how many rollouts a rank has started for each queue
  took,        \* the result taken from a queue and not yet used
  lastLoaded,  \* _last_loaded_step
  resampled,   \* dynamic sampling calls of this generation
  raised       \* has the rank raised, and why

trainVars == <<step, todo, inside, queue, tasks, sent, took, lastLoaded,
               resampled, raised>>
vars == <<serverVars, trainVars>>

Outside == "outside"
Nothing == [no |-> 0, data |-> "none", at |-> 0, versions |-> {}]

\* DataCache: the number of the rollout, the data it is of, the step at which it
\* was started and the versions that computed it; Error stands for a failure.
DataCache(no, data, at, versions) ==
  [no |-> no, data |-> data, at |-> at, versions |-> versions]
Error == [Nothing EXCEPT !.data = "error"]

-----------------------------------------------------------------------------
(* Program: what a rank does next *)

Step(op, q, data)  == [op |-> op, q |-> q, data |-> data]
Plain(op)          == Step(op, "train", "train")
CallStep(op, b)    == [op |-> op, q |-> "train", data |-> "train", bucket |-> b]
Wait(q)            == <<Step("wait", q, "train")>>

\* _queue: the evaluation queue while control.should_evaluate.
CurrentQueue(shouldEvaluate) == IF shouldEvaluate THEN "eval" ELSE "train"

\* One call of _fast_infer.
SyncFirst(q, data) ==                   \* mutant of FastInfer
  <<Step("sync", q, data)>> \o Wait(q)
    \o <<Step("take", q, data), Step("submit", q, data), Step("results", q, data)>>
FastInfer(q, data) ==
  Wait(q) \o <<Step("sync", q, data), Step("take", q, data), Step("submit", q, data),
               Step("results", q, data)>>

Prefetch(q, data) ==
  <<Step("inputs", q, data), Step("sync", q, data), Step("infer", q, data)>>

Times(s, n) == [i \in 1 .. n * Len(s) |-> s[1 + ((i - 1) % Len(s))]]

Unprefetched(shouldEvaluate) ==         \* mutant of Evaluation
  Wait("train") \o Times(FastInfer(CurrentQueue(shouldEvaluate), "eval"), EvalBatches)

\* evaluation_loop, for a scheduled evaluation or for the one on start.
Evaluation(shouldEvaluate) ==
  LET q == CurrentQueue(shouldEvaluate)
  IN  Wait("train") \o <<Step("prefetchIfEmpty", q, "eval")>>
        \o Times(FastInfer(q, "eval"), EvalBatches)

\* An epoch ends after its last step and with the training.  The training stops at
\* the end of an epoch once ceil(state.epoch) has reached max_epochs.
EpochEnds(s) == s = NumSteps \/ s % StepsPerEpoch = 0
Exhausted(s) ==
  MaxEpochs # 0 /\ EpochEnds(s) /\ MaxEpochs * StepsPerEpoch < s + StepsPerEpoch

\* training_step, after an evaluation (eval_flag) or after another step.
TrainingStep(s, evalFlag) ==
  IF s = NumSteps \/ Exhausted(s) THEN << >>
  ELSE (IF evalFlag THEN Wait("eval") ELSE << >>)
         \o (IF s % GenerateEvery = 0 THEN FastInfer("train", "train") ELSE << >>)
         \o <<Plain("train")>>

Beginning ==
  Prefetch("train", "train")
    \o (IF EvalOnStart THEN Evaluation(FALSE) ELSE << >>)
    \o TrainingStep(0, EvalOnStart)

\* on_step_end evaluates by steps and after the last step, on_epoch_end by epoch
\* and when max_epochs stops the training.
EvaluatesOnStep(s) ==
  EvalStrategy # "no" /\ (s = NumSteps \/ (EvalStrategy = "steps" /\ s % EvalEvery = 0))
EvaluatesOnEpoch(s) ==
  EvalStrategy # "no" /\ ((EvalStrategy = "epoch" /\ EpochEnds(s)) \/ Exhausted(s))

AfterStep(s) ==
  (IF EvaluatesOnStep(s) THEN Evaluation(TRUE) ELSE << >>)
    \o (IF EvaluatesOnEpoch(s) THEN Evaluation(TRUE) ELSE << >>)
    \o TrainingStep(s, EvaluatesOnStep(s) \/ EvaluatesOnEpoch(s))

\* What the main rank sends when it moves the weights (_move_full_model_to_vllm,
\* _reset_vllm_cache).
CacheKept ==                            \* mutant of SyncCalls
  [b \in Buckets |-> CallStep("update_flattened_params", b)]
    \o <<CallStep("process_weights_after_loading", 0)>>
SyncCalls ==
  [b \in Buckets |-> CallStep("update_flattened_params", b)]
    \o <<CallStep("process_weights_after_loading", 0), CallStep("reset_prefix_cache", 0)>>

Init ==
  /\ ServerInit
  /\ step = 0
  /\ todo = [r \in Ranks |-> Beginning]
  /\ inside = [r \in Ranks |-> Outside]
  /\ queue = [r \in Ranks |-> [q \in Modes |-> << >>]]
  /\ tasks = [r \in Ranks |-> << >>]
  /\ sent = [r \in Ranks |-> [q \in Modes |-> 0]]
  /\ took = [r \in Ranks |-> Nothing]
  /\ lastLoaded = [r \in Ranks |-> -1]
  /\ resampled = 0
  /\ raised = [r \in Ranks |-> "no"]

-----------------------------------------------------------------------------
(* Steps of one rank *)

Running(r, op) ==
  /\ raised[r] = "no" /\ inside[r] = Outside
  /\ todo[r] # << >> /\ Head(todo[r]).op = op
Done(r)        == [todo EXCEPT ![r] = Tail(@)]
Instead(r, s)  == [todo EXCEPT ![r] = s \o Tail(@)]
Raise(r, why)  == [raised EXCEPT ![r] = why]
Enter(r, what) == [inside EXCEPT ![r] = what]
Put(r, q, data) == [queue EXCEPT ![r][q] = Append(@, data)]

AnyResult(q) == IF q = << >> THEN "empty" ELSE "ready"     \* mutant of Status
Status(q) ==
  IF q = << >> THEN "empty" ELSE IF Head(q) = Error THEN "error" ELSE "ready"

(* _wait_queue looks at the head of the queue without taking it.           *)
Peek(r) ==
  /\ Running(r, "wait")
  /\ inside' = Enter(r, Status(queue[r][Head(todo[r]).q]))
  /\ UNCHANGED <<serverVars, step, todo, queue, tasks, sent, took, lastLoaded,
                 resampled, raised>>

(* Weights move when the step is not the one loaded last; only the main    *)
(* rank sends them.                                                        *)
Sync(r) ==
  /\ Running(r, "sync")
  /\ todo' = Instead(r, IF lastLoaded[r] # step /\ r = Main THEN SyncCalls ELSE << >>)
  /\ lastLoaded' = [lastLoaded EXCEPT ![r] = step]
  /\ UNCHANGED <<serverVars, step, inside, queue, tasks, sent, took, resampled, raised>>

(* A call of the main rank's own thread to the server, and its return.     *)
SyncOps == Requests \ {"infer"}

SyncCall ==
  /\ \E op \in SyncOps : /\ Running(Main, op)
                          /\ Post("trainer", Request(op, Head(todo[Main]).bucket, step, {}))
  /\ UNCHANGED trainVars

SyncReturn ==
  /\ \E op \in SyncOps : Running(Main, op)
  /\ Returned("trainer") /\ Forget("trainer")
  /\ todo' = Done(Main)
  /\ UNCHANGED <<step, inside, queue, tasks, sent, took, lastLoaded, resampled, raised>>

Looked(r, q) == queue[r][q]             \* mutant of Remaining
Remaining(r, q) == Tail(queue[r][q])

(* get_nowait; an empty queue raises on this rank alone.                   *)
Take(r) ==
  /\ Running(r, "take")
  /\ LET q == Head(todo[r]).q
     IN  IF queue[r][q] = << >>
         THEN /\ raised' = Raise(r, "alone")
              /\ UNCHANGED <<inside, queue, took>>
         ELSE /\ took' = [took EXCEPT ![r] = Head(queue[r][q])]
              /\ queue' = [queue EXCEPT ![r][q] = Remaining(r, q)]
              /\ inside' = Enter(r, "inputs")
              /\ UNCHANGED raised
  /\ UNCHANGED <<serverVars, step, todo, tasks, sent, lastLoaded, resampled>>

(* async_generate_rollout: the task remembers its queue.  A submission     *)
(* that fails is treated as a rollout that failed.                         *)
Submit(r) ==
  /\ Running(r, "submit")
  /\ LET s == Head(todo[r])
         n == sent[r][s.q] + 1
     IN  /\ sent' = [sent EXCEPT ![r][s.q] = n]
         /\ \/ /\ tasks' = [tasks EXCEPT ![r] =
                              Append(@, [q |-> s.q, no |-> n, data |-> s.data, at |-> step])]
               /\ UNCHANGED queue
            \/ /\ "submit" \in Fallible
               /\ queue' = Put(r, s.q, Error)
               /\ UNCHANGED tasks
  /\ todo' = Done(r)
  /\ UNCHANGED <<serverVars, step, inside, took, lastLoaded, resampled, raised>>

PrefetchIfEmpty(r) ==
  /\ Running(r, "prefetchIfEmpty")
  /\ LET s == Head(todo[r])
     IN  todo' = Instead(r, IF queue[r][s.q] = << >> THEN Prefetch(s.q, s.data) ELSE << >>)
  /\ UNCHANGED <<serverVars, step, inside, queue, tasks, sent, took, lastLoaded,
                 resampled, raised>>

(* _prefetch infers in the main thread.  The other ranks have nothing to   *)
(* do and do not learn of a failure.                                       *)
PrefetchCall ==
  /\ Running(Main, "infer")
  /\ Post("trainer", Request("infer", 0, 0, Asked(BatchOf[Head(todo[Main]).data])))
  /\ UNCHANGED trainVars

PutPrefetched(r, versions) ==
  LET s == Head(todo[r])
      n == sent[r][s.q] + 1
  IN  /\ sent' = [sent EXCEPT ![r][s.q] = n]
      /\ queue' = Put(r, s.q, DataCache(n, s.data, step, versions))
      /\ todo' = Done(r)
      /\ UNCHANGED <<step, inside, tasks, took, lastLoaded, resampled>>

PrefetchReturn ==
  /\ Running(Main, "infer") /\ Returned("trainer") /\ Forget("trainer")
  /\ IF call["trainer"].at = "answered"
     THEN PutPrefetched(Main, Versions("trainer")) /\ UNCHANGED raised
     ELSE /\ raised' = Raise(Main, "alone")
          /\ UNCHANGED <<step, todo, inside, queue, tasks, sent, took, lastLoaded, resampled>>

PrefetchNothing(r) ==
  /\ r # Main /\ Running(r, "infer")
  /\ PutPrefetched(r, {})
  /\ UNCHANGED <<serverVars, raised>>

\* Reaching a collective that only synchronises or exchanges samples.
Arrive(r) ==
  /\ \E op \in {"inputs", "results", "train"} : Running(r, op) /\ inside' = Enter(r, op)
  /\ UNCHANGED <<serverVars, step, todo, queue, tasks, sent, took, lastLoaded,
                 resampled, raised>>

-----------------------------------------------------------------------------
(* The executor thread *)

PutResult(r, data) ==
  /\ queue' = Put(r, Head(tasks[r]).q, data)
  /\ tasks' = [tasks EXCEPT ![r] = Tail(@)]
  /\ UNCHANGED <<step, todo, inside, sent, took, lastLoaded, resampled, raised>>

RolloutCall ==
  /\ tasks[Main] # << >>
  /\ Post("rollout", Request("infer", 0, 0, Asked(BatchOf[Head(tasks[Main]).data])))
  /\ UNCHANGED trainVars

RolloutReturn ==
  /\ tasks[Main] # << >> /\ Returned("rollout") /\ Forget("rollout")
  /\ LET t == Head(tasks[Main])
     IN  PutResult(Main, IF call["rollout"].at = "failed" THEN Error
                         ELSE DataCache(t.no, t.data, t.at, Versions("rollout")))

RolloutNothing(r) ==
  /\ r # Main /\ tasks[r] # << >>
  /\ LET t == Head(tasks[r]) IN PutResult(r, DataCache(t.no, t.data, t.at, {}))
  /\ UNCHANGED serverVars

-----------------------------------------------------------------------------
(* Collectives *)

AllInside(op) ==
  \A r \in Ranks : inside[r] # Outside /\ Head(todo[r]).op = op

\* What a rank does with the statuses of all ranks in _wait_queue.
OwnError(r) == inside[r] = "error"      \* mutant of ErrorSeen
ErrorSeen(r) == \E s \in Ranks : inside[s] = "error"
OwnReady(r) == inside[r] = "ready"      \* mutant of AllReady
AllReady(r) == \A s \in Ranks : inside[s] = "ready"

GatherStatuses ==
  /\ AllInside("wait")
  /\ raised' = [r \in Ranks |-> IF ErrorSeen(r) THEN "together" ELSE "no"]
  /\ todo' = [r \in Ranks |-> IF AllReady(r) THEN Tail(todo[r]) ELSE todo[r]]
  /\ inside' = [r \in Ranks |-> Outside]
  /\ UNCHANGED <<serverVars, step, queue, tasks, sent, took, lastLoaded, resampled>>

GatherInputs ==
  /\ AllInside("inputs") \/ AllInside("take")
  /\ todo' = [r \in Ranks |-> Tail(todo[r])]
  /\ inside' = [r \in Ranks |-> Outside]
  /\ UNCHANGED <<serverVars, step, queue, tasks, sent, took, lastLoaded, resampled, raised>>

(* The results of all ranks are gathered and dealt out.  Rewards, which    *)
(* all ranks compute alike, decide whether dynamic sampling generates      *)
(* again.                                                                  *)
GatherResults ==
  /\ AllInside("results")
  /\ \E again \in BOOLEAN :
       /\ again => Head(todo[Main]).data = "train" /\ resampled < MaxResample
       /\ resampled' = IF again THEN resampled + 1 ELSE 0
       /\ todo' = [r \in Ranks |->
                     (IF again THEN FastInfer("train", "train") ELSE << >>) \o Tail(todo[r])]
  /\ took' = [r \in Ranks |-> Nothing]
  /\ inside' = [r \in Ranks |-> Outside]
  /\ UNCHANGED <<serverVars, step, queue, tasks, sent, lastLoaded, raised>>

Train ==
  /\ AllInside("train")
  /\ step' = step + 1
  /\ todo' = [r \in Ranks |-> AfterStep(step + 1)]
  /\ inside' = [r \in Ranks |-> Outside]
  /\ UNCHANGED <<serverVars, queue, tasks, sent, took, lastLoaded, resampled, raised>>

-----------------------------------------------------------------------------

RankStep(r) ==
  \/ Peek(r) \/ Sync(r) \/ Take(r) \/ Submit(r) \/ PrefetchIfEmpty(r)
  \/ PrefetchNothing(r) \/ Arrive(r)

MainStep == SyncCall \/ SyncReturn \/ PrefetchCall \/ PrefetchReturn

Executor == RolloutCall \/ RolloutReturn \/ \E r \in Ranks : RolloutNothing(r)

Collective == GatherStatuses \/ GatherInputs \/ GatherResults \/ Train

Server == ServerNext /\ UNCHANGED trainVars

Next == MainStep \/ Executor \/ Collective \/ Server \/ \E r \in Ranks : RankStep(r)

Spec == Init /\ [][Next]_vars

\* Processes and threads run, and a collective happens once all ranks are there.
FairSpec ==
  /\ Spec
  /\ ServerFairness
  /\ \A r \in Ranks : WF_vars(RankStep(r)) /\ WF_vars(RolloutNothing(r))
  /\ WF_vars(MainStep) /\ WF_vars(RolloutCall) /\ WF_vars(RolloutReturn)
  /\ WF_vars(Collective)

-----------------------------------------------------------------------------
(* Properties *)

\* The step the training ends with.
LastStep ==
  IF MaxEpochs # 0 /\ MaxEpochs * StepsPerEpoch < NumSteps THEN MaxEpochs * StepsPerEpoch
                                                         ELSE NumSteps

DataCaches ==
  [no : Nat, data : Modes \cup {"error", "none"}, at : 0 .. LastStep,
   versions : SUBSET (-1 .. LastStep)]
Ops == {"wait", "sync", "take", "submit", "results", "inputs", "infer", "train",
        "prefetchIfEmpty"} \cup Requests

\* Every variable keeps its type; at most one rollout of a rank is under way, so
\* the executor never holds a second one back (rollout_mixin.py:102, :1187), and
\* a queue holds at most one result.
TypeOK ==
  /\ step \in 0 .. LastStep
  /\ \A r \in Ranks :
       /\ \A i \in DOMAIN todo[r] : todo[r][i].op \in Ops /\ todo[r][i].q \in Modes
       /\ inside[r] \in {Outside, "empty", "ready", "error", "inputs", "results", "train"}
       /\ \A q \in Modes : /\ Len(queue[r][q]) <= 1
                           /\ \A i \in DOMAIN queue[r][q] : queue[r][q][i] \in DataCaches
       /\ Len(tasks[r]) <= 1
       /\ took[r] \in DataCaches
       /\ lastLoaded[r] \in -1 .. LastStep
       /\ raised[r] \in {"no", "alone", "together"}
  /\ resampled \in 0 .. MaxResample
  /\ serving \in Callers \cup {"nobody"}
  /\ \A w \in Workers : Len(pipe[w]) <= NumBuckets + 1 /\ Len(reply[w]) <= 1

\* Every answer is computed by the weights of one version, those of the step at
\* which the rollout was started: no worker loads a bucket, and no cache of older
\* weights is used, between the submission and the answer (rollout_mixin.py:1189
\* "Check every rank before updating weights or starting another rollout").
UniformAnswers ==
  \A q \in Modes : \A i \in DOMAIN queue[Main][q] :
    LET d == queue[Main][q][i] IN d = Error \/ d.versions = {d.at}

InUse(d) == {r \in Ranks : took[r] # Nothing /\ Head(todo[r]).data = d}

\* What a generation call of the training uses is the rollout of the call before:
\* of training prompts, the same on every rank, by weights at most one round old
\* (rollout_mixin.py:1220: the queue is shared by name with evaluation).
TrainsOneRoundOld ==
  \A r \in InUse("train") :
    /\ took[r].data = "train"
    /\ step - took[r].at <= GenerateEvery
    /\ \A s \in InUse("train") : took[s].no = took[r].no
    /\ inside[r] = "results" => took[r].no = sent[r]["train"] - 1

FailedIn(r, q) == queue[r][q] # << >> /\ Head(queue[r][q]) = Error

\* A rollout that failed on one rank is used by none, neither there nor by a rank
\* whose own share of it has succeeded (rollout_mixin.py:1692 "propagating
\* failures before further collectives").
NoneUsesFailed ==
  /\ \A r \in Ranks : took[r] # Error
  /\ \A r, s \in Ranks, q \in Modes :
       FailedIn(r, q) /\ took[s] # Nothing /\ Head(todo[s]).q = q => took[s].no # sent[r][q]

\* No rank waits in one collective while another has reached a different one.
CollectivesMatch ==
  \A r, s \in Ranks :
    inside[r] # Outside /\ inside[s] # Outside => Head(todo[r]).op = Head(todo[s]).op

\* A background rollout that fails on some rank, or that a worker answers with
\* None, makes all ranks raise in the same round, none is left waiting in a
\* collective; or the training has ended without waiting for it
\* (rollout_mixin.py:1692, rollout.py:683).
NoneReceived ==
  call["rollout"].op = "infer" /\ call["rollout"].at = "receiving"
    /\ \E w \in call["rollout"].asked \cap DOMAIN call["rollout"].got :
         call["rollout"].got[w].value = Failed
SomeFailed == \E r \in Ranks, q \in Modes : FailedIn(r, q)
FailureReachesAll ==
  SomeFailed \/ NoneReceived ~>
    \/ \A r \in Ranks : raised[r] = "together"
    \/ SomeFailed /\ \A r \in Ranks : todo[r] = << >>

\* The training ends, unless a failure ends it (rollout_mixin.py:1694).
TrainingEnds == <>((\A r \in Ranks : todo[r] = << >>) \/ (\E r \in Ranks : raised[r] # "no"))
=============================================================================
