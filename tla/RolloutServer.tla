---------------------------- MODULE RolloutServer ----------------------------
(***************************************************************************)
(* `swift rollout`: an HTTP server in front of one engine process per data *)
(* parallel worker (SwiftRolloutDeploy and llm_worker in swift/pipelines/  *)
(* infer/rollout.py) and the client that calls it from the main rank of a  *)
(* training (VLLMClient in swift/rlhf_trainers/vllm_client.py).  Every     *)
(* handler is a coroutine of one event loop; it writes a command into the  *)
(* pipe of each worker.  infer and reset_prefix_cache then block the loop  *)
(* in recv(); process_weights_after_loading receives in threads and leaves *)
(* the loop free; an update returns at once and the weights follow by a    *)
(* collective broadcast from the client.                                   *)
(***************************************************************************)
EXTENDS Integers, Sequences, FiniteSets

CONSTANTS NumWorkers,   \* data parallel workers
          NumBuckets,   \* buckets of one weight synchronisation
          Fallible      \* what may fail: "infer", "submit" (see AsyncRollout)

ASSUME ServerAssumption ==
  /\ NumWorkers \in Nat \ {0}
  /\ NumBuckets \in Nat \ {0}
  /\ Fallible \subseteq {"infer", "submit"}

Workers == 1 .. NumWorkers
Buckets == 1 .. NumBuckets
Callers == {"trainer", "rollout"}   \* threads of the main rank that use the client

Blocking  == {"infer", "reset_prefix_cache"}
Answering == Blocking \cup {"process_weights_after_loading"}
Requests  == Answering \cup {"update_flattened_params"}

VARIABLES
  call,      \* what each caller asks for and how far the request is
  serving,   \* the caller whose handler blocks the event loop, or "nobody"
  pipe,      \* commands a worker has not finished, oldest first
  reply,     \* what a worker has sent back and nobody has received
  received,  \* has the worker passed the barrier of the update it executes?
  weights,   \* the version of each bucket in the model of a worker
  processed, \* post-processing done since the last bucket was loaded?
  cache      \* versions under which the prefix cache has been filled

serverVars == <<call, serving, pipe, reply, received, weights, processed, cache>>

Idle == [op |-> "none", bucket |-> 0, version |-> 0, asked |-> {}, at |-> "idle",
         got |-> [w \in {} |-> 0]]
Request(op, bucket, version, asked) ==
  [Idle EXCEPT !.op = op, !.bucket = bucket, !.version = version, !.asked = asked,
               !.at = "sent"]
Command(c) == [op |-> call[c].op, from |-> c, bucket |-> call[c].bucket,
               version |-> call[c].version]
Reply(cmd, value) == [op |-> cmd.op, from |-> cmd.from, value |-> value]
Failed == {}                        \* the value None

\* The engines have loaded the initial model when the server accepts requests.
ServerInit ==
  /\ call = [c \in Callers |-> Idle]
  /\ serving = "nobody"
  /\ pipe = [w \in Workers |-> << >>]
  /\ reply = [w \in Workers |-> << >>]
  /\ received = [w \in Workers |-> FALSE]
  /\ weights = [w \in Workers |-> [b \in Buckets |-> 0]]
  /\ processed = [w \in Workers |-> TRUE]
  /\ cache = [w \in Workers |-> {}]

-----------------------------------------------------------------------------
(* The client *)

\* chunk_list: n requests over the workers, the first ones get theirs first.
Asked(n) == {w \in Workers : w <= n}

Post(c, request) ==
  /\ call[c].at = "idle"
  /\ call' = [call EXCEPT ![c] = request]
  /\ UNCHANGED <<serving, pipe, reply, received, weights, processed, cache>>

Returned(c) == call[c].at \in {"answered", "failed"}

Forget(c) ==
  /\ call' = [call EXCEPT ![c] = Idle]
  /\ UNCHANGED <<serving, pipe, reply, received, weights, processed, cache>>

\* The versions that took part in an answer: those of the workers whose share
\* was not a placeholder.
Versions(c) == UNION {call[c].got[w].value : w \in call[c].asked}

-----------------------------------------------------------------------------
(* The handlers on the event loop *)

LoopFree == serving = "nobody"

(* One handler up to its first await, recv() or return.                    *)
Handle(c) ==
  /\ LoopFree
  /\ call[c].at = "sent"
  /\ pipe' = [w \in Workers |-> Append(pipe[w], Command(c))]
  /\ call' = [call EXCEPT ![c].at =
                 IF call[c].op \in Answering THEN "receiving" ELSE "accepted"]
  /\ serving' = IF call[c].op \in Blocking THEN c ELSE serving
  /\ UNCHANGED <<reply, received, weights, processed, cache>>

(* recv() on one connection, in the handler or in one of its threads: it   *)
(* takes whatever the worker has sent.                                     *)
Receive(c, w) ==
  /\ call[c].at = "receiving"
  /\ w \notin DOMAIN call[c].got
  /\ reply[w] # << >>
  /\ call' = [call EXCEPT ![c].got =
                 [v \in DOMAIN call[c].got \cup {w} |->
                    IF v = w THEN Head(reply[w]) ELSE call[c].got[v]]]
  /\ reply' = [reply EXCEPT ![w] = Tail(@)]
  /\ UNCHANGED <<serving, pipe, received, weights, processed, cache>>

(* infer cannot chain a None that answers real requests: status 500, which *)
(* the client raises.  The other handlers do not look at what came back.   *)
Fails(c) ==
  /\ call[c].op = "infer"
  /\ \E w \in call[c].asked : call[c].got[w].value = Failed

Respond(c) ==
  /\ call[c].at = "receiving"
  /\ DOMAIN call[c].got = Workers
  /\ call' = [call EXCEPT ![c].at = IF Fails(c) THEN "failed" ELSE "answered"]
  /\ serving' = IF serving = c THEN "nobody" ELSE serving
  /\ UNCHANGED <<pipe, reply, received, weights, processed, cache>>

-----------------------------------------------------------------------------
(* The workers: one command after the other *)

Executing(w, op) == pipe[w] # << >> /\ Head(pipe[w]).op = op
Next1(w) == [pipe EXCEPT ![w] = Tail(@)]
Answer(w, value) == [reply EXCEPT ![w] = Append(@, Reply(Head(pipe[w]), value))]

(* The client's broadcast and barrier with all workers.                    *)
Broadcast ==
  /\ call["trainer"].at = "accepted"
  /\ \A w \in Workers : Executing(w, "update_flattened_params") /\ ~received[w]
  /\ received' = [w \in Workers |-> TRUE]
  /\ call' = [call EXCEPT !["trainer"].at = "answered"]
  /\ UNCHANGED <<serving, pipe, reply, weights, processed, cache>>

Load(w) ==
  /\ received[w]
  /\ weights' = [weights EXCEPT ![w][Head(pipe[w]).bucket] = Head(pipe[w]).version]
  /\ processed' = [processed EXCEPT ![w] = FALSE]
  /\ received' = [received EXCEPT ![w] = FALSE]
  /\ pipe' = Next1(w)
  /\ UNCHANGED <<call, serving, reply, cache>>

ProcessWeights(w) ==
  /\ Executing(w, "process_weights_after_loading")
  /\ processed' = [processed EXCEPT ![w] = TRUE]
  /\ reply' = Answer(w, {0})
  /\ pipe' = Next1(w)
  /\ UNCHANGED <<call, serving, received, weights, cache>>

ResetPrefixCache(w) ==
  /\ Executing(w, "reset_prefix_cache")
  /\ cache' = [cache EXCEPT ![w] = {}]
  /\ reply' = Answer(w, {0})
  /\ pipe' = Next1(w)
  /\ UNCHANGED <<call, serving, received, weights, processed>>

\* -1 stands for a kernel layout that does not belong to the weights.
Computed(w) == {weights[w][b] : b \in Buckets} \cup cache[w]
                 \cup (IF processed[w] THEN {} ELSE {-1})

Infer(w) ==
  /\ Executing(w, "infer")
  /\ cache' = [cache EXCEPT ![w] = Computed(w)]
  /\ reply' = Answer(w, Computed(w))
  /\ pipe' = Next1(w)
  /\ UNCHANGED <<call, serving, received, weights, processed>>

(* An exception of the engine is logged; the reply is None.                *)
InferRaises(w) ==
  /\ "infer" \in Fallible
  /\ Executing(w, "infer")
  /\ reply' = Answer(w, Failed)
  /\ pipe' = Next1(w)
  /\ UNCHANGED <<call, serving, received, weights, processed, cache>>

-----------------------------------------------------------------------------

WorkerStep(w) ==
  Load(w) \/ ProcessWeights(w) \/ ResetPrefixCache(w) \/ Infer(w) \/ InferRaises(w)

ServerNext ==
  \/ Broadcast
  \/ \E c \in Callers : Handle(c) \/ Respond(c)
  \/ \E c \in Callers, w \in Workers : Receive(c, w)
  \/ \E w \in Workers : WorkerStep(w)

\* The event loop, its threads, the collective and the processes are scheduled.
ServerFairness ==
  /\ WF_serverVars(Broadcast)
  /\ \A c \in Callers : WF_serverVars(Handle(c)) /\ WF_serverVars(Respond(c))
  /\ \A c \in Callers, w \in Workers : WF_serverVars(Receive(c, w))
  /\ \A w \in Workers : WF_serverVars(WorkerStep(w))

\* Every reply goes to the call it answers: no handler takes from a pipe what a
\* worker sent for another request (rollout.py:1011 and :1098 both receive from
\* the same connections, one of them while the event loop is free).
RepliesMatch ==
  \A c \in Callers : \A w \in DOMAIN call[c].got :
    call[c].got[w].from = c /\ call[c].got[w].op = call[c].op
=============================================================================
