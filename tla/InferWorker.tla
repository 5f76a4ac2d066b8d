----------------------------- MODULE InferWorker -----------------------------
(***************************************************************************)
(* The batching worker of TransformersEngine (swift/infer_engine/          *)
(* transformers_engine.py).  Every call of infer_async puts its request on *)
(* a thread-safe queue and waits on an asyncio queue of its own event      *)
(* loop; one worker thread groups the requests by request config and       *)
(* adapter, runs them in batches and hands every caller its results, or    *)
(* the chunks of its stream, with run_coroutine_threadsafe.                *)
(***************************************************************************)
EXTENDS Integers, Sequences, FiniteSets

CONSTANTS
  Requests,       \* the calls of infer_async
  Config,         \* per request, its request_config
  Adapter,        \* per request, its adapter_request
  Loop,           \* per request, the event loop its caller runs in
  Streaming,      \* the configs with stream=True
  MaxBatchSize,   \* max_batch_size
  Strict,         \* strict: an encoding error fails the batch
  GenerateFails,  \* may model.generate raise in its thread?
  LoopsClose,     \* may an event loop be closed?
  MaxChunks       \* bound: the chunks of a stream

NoAdapter == [name |-> "", path |-> ""]

ASSUME InferAssumption ==
  /\ DOMAIN Config = Requests /\ DOMAIN Loop = Requests
  /\ Adapter \in [Requests -> [name : STRING, path : STRING]]
  /\ MaxBatchSize \in Int /\ MaxChunks \in Nat \ {0}
  /\ Strict \in BOOLEAN /\ GenerateFails \in BOOLEAN /\ LoopsClose \in BOOLEAN

VARIABLES
  client,     \* how far the call of infer_async is
  arrived,    \* history: the requests in the order they were put
  queue,      \* _queue
  pool,       \* _task_pool: an ordered dict, as a sequence of its items
  worker,     \* the worker thread
  kwargs, batch,  \* what it runs
  errors,     \* requests of the batch whose encoding failed (not strict)
  finished,   \* requests of the batch whose stream has finished
  chunks,     \* chunks the stream has yielded
  loaded,     \* _adapters_pool: the path each adapter name was loaded from
  mail,       \* what the callers' queues hold; dropped with the caller
  closed      \* closed event loops

callerVars == <<client, arrived, closed>>
taskVars   == <<queue, pool>>
batchVars  == <<kwargs, batch, errors, finished, chunks>>
vars == <<callerVars, taskVars, worker, batchVars, loaded, mail>>

Elements(s) == {s[i] : i \in DOMAIN s}

Kwargs(r) == [config |-> Config[r], adapter |-> Adapter[r]]
Idle == [config |-> "", adapter |-> NoAdapter]

Error == [kind |-> "error"]
End   == [kind |-> "end"]                      \* the end-of-stream sentinel
Part(kind, kw) == [kind |-> kind, kw |-> kw]   \* "chunk", or "final"

Init ==
  /\ client = [r \in Requests |-> "new"]
  /\ arrived = << >> /\ queue = << >> /\ pool = << >>
  /\ worker = "none" /\ kwargs = Idle /\ batch = << >>
  /\ errors = {} /\ finished = {} /\ chunks = 0
  /\ loaded = [n \in {} |-> ""]
  /\ mail = [r \in Requests |-> << >>]
  /\ closed = {}

-----------------------------------------------------------------------------
(* infer_async *)

Put(r) ==
  /\ client[r] = "new" /\ Loop[r] \notin closed
  /\ client' = [client EXCEPT ![r] = "put"]
  /\ arrived' = Append(arrived, r)
  /\ queue' = Append(queue, r)
  /\ UNCHANGED <<closed, pool, worker, batchVars, loaded, mail>>

(* After sleep(0): start the worker if there is none, and wait.            *)
Await(r) ==
  /\ client[r] = "put"
  /\ client' = [client EXCEPT ![r] = "waiting"]
  /\ worker' = IF worker = "none" THEN "idle" ELSE worker
  /\ UNCHANGED <<arrived, closed, taskVars, batchVars, loaded, mail>>

Outcome(item) ==
  CASE item.kind = "error" -> "failed"
    [] item.kind = "final" -> "answered"
    [] item.kind = "end"   -> "ended"
    [] OTHER               -> "waiting"

Receive(r) ==
  /\ client[r] = "waiting" /\ mail[r] # << >>
  /\ client' = [client EXCEPT ![r] = Outcome(Head(mail[r]))]
  /\ mail' = [mail EXCEPT ![r] = IF client'[r] = "waiting" THEN Tail(@) ELSE << >>]
  /\ UNCHANGED <<arrived, closed, taskVars, worker, batchVars, loaded>>

Calling(r) == client[r] \in {"put", "waiting"}

(* The caller is cancelled: a timeout, or a client that has gone.          *)
Cancel(r) ==
  /\ Calling(r)
  /\ client' = [client EXCEPT ![r] = "cancelled"]
  /\ mail' = [mail EXCEPT ![r] = << >>]
  /\ UNCHANGED <<arrived, closed, taskVars, worker, batchVars, loaded>>

(* asyncio.run returns: what still runs in the loop is cancelled.          *)
CloseLoop(l) ==
  /\ LoopsClose /\ l \notin closed
  /\ closed' = closed \cup {l}
  /\ client' = [r \in Requests |-> IF Loop[r] = l /\ Calling(r) THEN "cancelled" ELSE client[r]]
  /\ mail' = [r \in Requests |-> IF Loop[r] = l THEN << >> ELSE mail[r]]
  /\ UNCHANGED <<arrived, taskVars, worker, batchVars, loaded>>

-----------------------------------------------------------------------------
(* _fetch_infer_requests *)

KeyOfConfig(kw) == kw.config   \* mutant of Key
Key(kw) == kw

InFront(data, r) == <<r>> \o data   \* mutant of Grouped
Grouped(data, r) == Append(data, r)

(* A request joins those with the same key; a new key comes last.          *)
Group ==
  /\ worker = "idle" /\ queue # << >>
  /\ queue' = Tail(queue)
  /\ LET r    == Head(queue)
         Same == {i \in DOMAIN pool : Key(pool[i].kwargs) = Key(Kwargs(r))}
     IN pool' = IF Same = {}
                  THEN Append(pool, [kwargs |-> Kwargs(r), data |-> <<r>>])
                  ELSE [i \in DOMAIN pool |->
                          IF i \in Same THEN [pool[i] EXCEPT !.data = Grouped(@, r)] ELSE pool[i]]
  /\ UNCHANGED <<callerVars, worker, batchVars, loaded, mail>>

BatchLength(n) == IF MaxBatchSize <= 0 \/ n < MaxBatchSize THEN n ELSE MaxBatchSize

NoRest(task, n) == << >>   \* mutant of Rest
Rest(task, n) ==
  IF n < Len(task.data) THEN <<[task EXCEPT !.data = SubSeq(@, n + 1, Len(@))]>> ELSE << >>

(* Then the first key is served; what does not fit in the batch keeps its  *)
(* place in the dict.                                                      *)
TakeBatch ==
  /\ worker = "idle" /\ queue = << >> /\ pool # << >>
  /\ LET task == Head(pool)
         n    == BatchLength(Len(task.data))
     IN /\ kwargs' = task.kwargs
        /\ batch' = SubSeq(task.data, 1, n)
        /\ pool' = Rest(task, n) \o Tail(pool)
  /\ worker' = "infer"
  /\ errors' = {} /\ finished' = {} /\ chunks' = 0
  /\ UNCHANGED <<callerVars, queue, loaded, mail>>

-----------------------------------------------------------------------------
(* _infer_worker *)

(* run_coroutine_threadsafe for one request after the other.  It raises    *)
(* for the first whose loop is closed; the except clause then calls it for *)
(* the whole batch again, where nothing catches it.                        *)
Before(blockers) == {batch[i] : i \in {j \in DOMAIN batch : \A k \in 1 .. j : batch[k] \notin blockers}}

Mailed(items) == [r \in Requests |-> IF Calling(r) THEN mail[r] \o items[r] ELSE << >>]

Deliver(items, next) ==
  LET Closed == {r \in Elements(batch) : Loop[r] \in closed}
      Hit    == {r \in Closed : items[r] # << >>}
  IN /\ mail' = Mailed([r \in Requests |->
                   (IF r \in Before(Hit) THEN items[r] ELSE << >>)
                   \o (IF Hit # {} /\ r \in Before(Closed) THEN <<Error>> ELSE << >>)])
     /\ worker' = IF Hit = {} THEN next ELSE "dead"

(* _get_adapter_names: an adapter is loaded once under its name.           *)
LoadedWith(a) ==
  IF a = NoAdapter \/ a.name \in DOMAIN loaded THEN loaded
  ELSE [n \in DOMAIN loaded \cup {a.name} |-> IF n = a.name THEN a.path ELSE loaded[n]]

Used(kw) ==
  IF kw.adapter = NoAdapter THEN kw
  ELSE [kw EXCEPT !.adapter.path = LoadedWith(kw.adapter)[kw.adapter.name]]

WorkerDies == "dead"   \* mutant of AfterFailure
AfterFailure == "idle"

(* Encoding, loading the adapter, generating or decoding raises: everybody *)
(* in the batch gets the exception.                                        *)
BatchFails ==
  /\ worker \in {"infer", "stream"}
  /\ LET Closed == {r \in Elements(batch) : Loop[r] \in closed}
     IN /\ mail' = Mailed([r \in Requests |-> IF r \in Before(Closed) THEN <<Error>> ELSE << >>])
        /\ worker' = IF Closed = {} THEN AfterFailure ELSE "dead"
  /\ loaded' \in {loaded, LoadedWith(kwargs.adapter)}
  /\ UNCHANGED <<callerVars, taskVars, batchVars>>

EncodingErrors == IF Strict THEN {{}} ELSE SUBSET Elements(batch)

(* _infer_full: one result per request.                                    *)
InferFull ==
  /\ worker = "infer" /\ kwargs.config \notin Streaming
  /\ \E E \in EncodingErrors :
       /\ loaded' = IF E = Elements(batch) THEN loaded ELSE LoadedWith(kwargs.adapter)
       /\ Deliver([r \in Requests |-> IF r \in E THEN <<Error>> ELSE <<Part("final", Used(kwargs))>>], "idle")
  /\ UNCHANGED <<callerVars, taskVars, batchVars>>

StartStream ==
  /\ worker = "infer" /\ kwargs.config \in Streaming
  /\ errors' \in EncodingErrors
  /\ loaded' = IF errors' = Elements(batch) THEN loaded ELSE LoadedWith(kwargs.adapter)
  /\ worker' = "stream"
  /\ UNCHANGED <<callerVars, taskVars, kwargs, batch, finished, chunks, mail>>

Unfinished == Elements(batch) \ (errors \cup finished)

AsSentinel == <<End>>   \* mutant of MissingChunk
MissingChunk == << >>

(* _infer_stream yields a chunk for some of the requests, the last one of  *)
(* a request with its finish_reason; when generation ends all finish.      *)
StreamChunk ==
  /\ worker = "stream" /\ chunks < MaxChunks
  /\ \E S \in SUBSET Unfinished : \E F \in SUBSET S :
       /\ S # {} \/ (chunks = 0 /\ errors = Elements(batch))
       /\ chunks + 1 = MaxChunks => F = Unfinished
       /\ Deliver([r \in Requests |->
            IF r \in errors THEN <<Error>>
            ELSE IF r \in F THEN <<Part("final", Used(kwargs))>>
            ELSE IF r \in S THEN <<Part("chunk", Used(kwargs))>> ELSE MissingChunk], "stream")
       /\ finished' = finished \cup F
  /\ chunks' = chunks + 1
  /\ UNCHANGED <<callerVars, taskVars, kwargs, batch, errors, loaded>>

StreamEnd ==
  /\ worker = "stream" /\ chunks > 0 /\ Unfinished = {}
  /\ Deliver([r \in Requests |-> <<End>>], "idle")
  /\ UNCHANGED <<callerVars, taskVars, batchVars, loaded>>

(* model.generate raises in the thread _infer_stream has started for it:   *)
(* the streamer's queue never gets its end and next(streamer) never        *)
(* returns.                                                                *)
GenerateDies ==
  /\ GenerateFails /\ worker = "stream" /\ errors # Elements(batch)
  /\ worker' = "blocked"
  /\ UNCHANGED <<callerVars, taskVars, batchVars, loaded, mail>>

-----------------------------------------------------------------------------
Worker == Group \/ TakeBatch \/ InferFull \/ StartStream \/ StreamChunk \/ StreamEnd

Caller(r) == Put(r) \/ Await(r) \/ Receive(r)

Next ==
  \/ Worker \/ BatchFails \/ GenerateDies
  \/ \E r \in Requests : Caller(r) \/ Cancel(r)
  \/ \E l \in {Loop[r] : r \in Requests} : CloseLoop(l)

Spec == Init /\ [][Next]_vars

(* The thread and the event loops are scheduled.                           *)
FairSpec ==
  /\ Spec
  /\ WF_vars(Worker)
  /\ \A r \in Requests : WF_vars(Await(r) \/ Receive(r))

-----------------------------------------------------------------------------
(* Properties *)

Pooled == UNION {Elements(pool[i].data) : i \in DOMAIN pool}
Busy   == worker \in {"infer", "stream", "blocked"}

(* A caller that waits is accounted for: its request is queued, pooled or  *)
(* in the batch, or its answer is in its mail.  What a full batch leaves   *)
(* behind is kept.                                                         *)
NothingLost ==
  worker # "dead" =>
    \A r \in Requests : Calling(r) =>
      \/ r \in Elements(queue) \cup Pooled \/ (Busy /\ r \in Elements(batch))
      \/ \E i \in DOMAIN mail[r] : mail[r][i].kind # "chunk"

(* Among requests that may share a batch, none is run before one that      *)
(* arrived earlier, and max_batch_size limits how many are run together.   *)
FirstComeFirstServed ==
  LET Pending == Elements(queue) \cup Pooled
  IN /\ \A i, j \in DOMAIN arrived :
          (i < j /\ Kwargs(arrived[i]) = Kwargs(arrived[j]) /\ arrived[i] \in Pending)
            => arrived[j] \in Pending
     /\ MaxBatchSize > 0 => Len(batch) <= MaxBatchSize

(* Whatever shares a batch or came before, a caller gets its own request   *)
(* config and its own adapter. Adapters are cached by name                 *)
(* (transformers_engine.py:379), so this holds where those of one name     *)
(* have one path.                                                          *)
AnsweredAsAsked ==
  \A r \in Requests : \A i \in DOMAIN mail[r] :
    mail[r][i].kind \in {"chunk", "final"} => mail[r][i].kw = Kwargs(r)

(* "A missing chunk is not the end-of-stream sentinel": a stream that ends *)
(* without an error has delivered its last chunk.                          *)
StreamsWhole == \A r \in Requests : client[r] # "ended"

(* No failing batch kills the worker: only a caller whose event loop is    *)
(* closed does.                                                            *)
DiesOfClosedLoopOnly == worker = "dead" => \E r \in Elements(batch) : Loop[r] \in closed

(* Every call returns or raises, also after batches that have failed, as   *)
(* long as no generation dies in the thread it has of its own: that leaves *)
(* the worker waiting for tokens.                                          *)
EveryCallEnds ==
  \A r \in Requests : []<>(client[r] # "waiting" \/ worker = "blocked")
=============================================================================
