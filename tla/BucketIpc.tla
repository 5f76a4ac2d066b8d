------------------------------ MODULE BucketIpc ------------------------------
(***************************************************************************)
(* The last hop of a weight synchronisation: one process packs weights     *)
(* into a single bucket of shared memory (BucketedWeightSender in swift/   *)
(* ray/megatron/rollout/weight_transfer.py) and the tensor parallel ranks  *)
(* of a vLLM replica copy them out (update_weights_from_ipc in swift/      *)
(* pipelines/infer/rollout.py).  Only the driver rank talks to the sender, *)
(* over a REQ/REP socket pair; it tells the other ranks by a broadcast and *)
(* acknowledges a bucket when a barrier says that every rank has its copy. *)
(* The sender packs the next bucket into the same bytes.                   *)
(***************************************************************************)
EXTENDS Integers, Sequences, FiniteSets

CONSTANTS Ranks,       \* tensor parallel ranks
          Driver,      \* rank 0
          Streams,     \* the weight streams a synchronisation may send, as sizes
          BucketSize,  \* bucket_size
          MaxSync,     \* bound: the number of synchronisations
          Timeouts     \* may a recv() time out?

ASSUME IpcAssumption ==
  /\ Driver \in Ranks
  /\ Streams \subseteq Seq(Nat)
  /\ BucketSize \in Nat
  /\ MaxSync \in Nat
  /\ Timeouts \in BOOLEAN

Bytes == 0 .. BucketSize - 1

VARIABLES
  sync, stream,        \* the synchronisation and the sizes of its weights
  lora,                \* adapter-only synchronisation
  \* ---- BucketedWeightSender ----
  spc, nextW, offset, bucketMeta,
  copies,              \* copies into the bucket the device has not executed
  bucket,              \* the shared bytes, each <<sync, weight>>
  \* ---- the REQ/REP pair: at most one message, in one direction ----
  wire,
  \* ---- the ranks in update_weights_from_ipc ----
  rpc,
  objs,                \* objects broadcast to a rank and not yet taken
  message,             \* metadata of the bucket being copied
  reads,               \* its clones not yet executed
  taken,               \* weights cloned from this bucket
  loaded,              \* weights given to the model or kept for the adapter
  torn                 \* weights whose clone holds any other byte

syncVars   == <<sync, stream, lora>>
senderVars == <<spc, nextW, offset, bucketMeta>>
rankVars   == <<rpc, objs, message, reads, taken, loaded, torn>>
vars == <<syncVars, senderVars, copies, bucket, wire, rankVars>>

Weights == 1 .. Len(stream)
NoMeta  == [w \in {} |-> 0]
Nothing == [meta |-> NoMeta, last |-> FALSE]
Message(meta, last) == [meta |-> meta, last |-> last]

Empty      == [kind |-> "none"]
Handle     == [kind |-> "handle"]               \* the IPC handle of the bucket
Payload(m) == [kind |-> "payload", msg |-> m]
Replying   == [kind |-> "replying"]             \* the reply is still owed
Reply      == [kind |-> "reply"]

Init ==
  /\ sync = 0 /\ stream = << >> /\ lora = FALSE
  /\ spc = "idle" /\ nextW = 1 /\ offset = 0 /\ bucketMeta = NoMeta
  /\ copies = {}
  /\ bucket = [i \in Bytes |-> <<0, 0>>]
  /\ wire = Empty
  /\ rpc = [r \in Ranks |-> "idle"]
  /\ objs = [r \in Ranks |-> << >>]
  /\ message = [r \in Ranks |-> Nothing]
  /\ reads = [r \in Ranks |-> {}]
  /\ taken = [r \in Ranks |-> {}]
  /\ loaded = [r \in Ranks |-> {}]
  /\ torn = [r \in Ranks |-> {}]

-----------------------------------------------------------------------------
(* The sender *)

(* The caller issues the collective RPC and the handshake; it does so only *)
(* when the previous RPC has returned from every rank.                     *)
StartSync ==
  /\ spc = "idle"
  /\ sync < MaxSync
  /\ sync' = sync + 1
  /\ stream' \in Streams
  /\ lora' \in IF sync = 0 THEN {FALSE} ELSE BOOLEAN
  /\ spc' = "handshake" /\ wire' = Handle
  /\ nextW' = 1 /\ offset' = 0 /\ bucketMeta' = NoMeta
  /\ rpc' = [r \in Ranks |-> "handle"]
  /\ loaded' = [r \in Ranks |-> {}]
  /\ torn' = [r \in Ranks |-> {}]
  /\ UNCHANGED <<copies, bucket, objs, message, reads, taken>>

TooLarge(w) == stream[w] > BucketSize
Full(w) == offset + stream[w] > BucketSize

(* _process: a weight larger than a bucket raises before anything is sent. *)
RaiseTooLarge ==
  /\ spc = "pack" /\ nextW \in Weights /\ TooLarge(nextW)
  /\ spc' = "failed"
  /\ UNCHANGED <<syncVars, nextW, offset, bucketMeta, copies, bucket, wire, rankVars>>

Pack ==
  /\ spc = "pack" /\ nextW \in Weights /\ ~TooLarge(nextW) /\ ~Full(nextW)
  /\ bucketMeta' = [w \in DOMAIN bucketMeta \cup {nextW} |->
                       IF w = nextW THEN offset ELSE bucketMeta[w]]
  /\ copies' = copies \cup {[w |-> nextW, off |-> offset]}
  /\ offset' = offset + stream[nextW]
  /\ nextW' = nextW + 1
  /\ UNCHANGED <<syncVars, spc, bucket, wire, rankVars>>

Span(off, w) == off .. off + stream[w] - 1

CopyIn(c) ==
  /\ c \in copies
  /\ copies' = copies \ {c}
  /\ bucket' = [i \in Bytes |-> IF i \in Span(c.off, c.w) THEN <<sync, c.w>> ELSE bucket[i]]
  /\ UNCHANGED <<syncVars, senderVars, wire, rankVars>>

(* _flush: synchronize(), then send the metadata and wait for the reply.   *)
(* An empty bucket is only sent as the last one.                           *)
NotSynchronized(pending) == TRUE   \* mutant of Synchronized
Synchronized(pending) == pending = {}

Flush ==
  /\ spc = "pack"
  /\ nextW \in Weights => ~TooLarge(nextW) /\ Full(nextW)
  /\ DOMAIN bucketMeta # {} \/ nextW \notin Weights
  /\ Synchronized(copies)
  /\ wire' = Payload(Message(bucketMeta, nextW \notin Weights))
  /\ spc' = IF nextW \in Weights THEN "flush" ELSE "flushLast"
  /\ UNCHANGED <<syncVars, nextW, offset, bucketMeta, copies, bucket, rankVars>>

(* The reply arrives: the bucket is empty again.  After the last reply the *)
(* caller awaits the RPC.                                                  *)
Acknowledged ==
  /\ spc \in {"handshake", "flush", "flushLast"}
  /\ wire = Reply
  /\ wire' = Empty
  /\ spc' = IF spc = "flushLast" THEN "rpc" ELSE "pack"
  /\ offset' = 0 /\ bucketMeta' = NoMeta
  /\ UNCHANGED <<syncVars, nextW, copies, bucket, rankVars>>

SendDone ==
  /\ spc = "rpc"
  /\ \A r \in Ranks : rpc[r] = "idle"
  /\ spc' = "idle"
  /\ UNCHANGED <<syncVars, nextW, offset, bucketMeta, copies, bucket, wire, rankVars>>

(* RCVTIMEO: recv() raises, perhaps just before the reply arrives, and     *)
(* cleanup() closes the socket.                                            *)
SenderTimeout ==
  /\ Timeouts
  /\ spc \in {"handshake", "flush", "flushLast"}
  /\ spc' = "failed"
  /\ wire' = Empty
  /\ UNCHANGED <<syncVars, nextW, offset, bucketMeta, copies, bucket, rankVars>>

-----------------------------------------------------------------------------
(* The ranks *)

(* The driver receives and passes the object on to the other ranks, each   *)
(* of which takes it when it gets there.                                   *)
ShareWithNobody(obj) == UNCHANGED objs   \* mutant of Share
Share(obj) == objs' = [r \in Ranks |-> IF r = Driver THEN objs[r] ELSE Append(objs[r], obj)]

DriverHandle ==
  /\ rpc[Driver] = "handle" /\ wire = Handle
  /\ Share(Nothing)
  /\ wire' = Reply
  /\ rpc' = [rpc EXCEPT ![Driver] = "recv"]
  /\ UNCHANGED <<syncVars, senderVars, copies, bucket, message, reads, taken, loaded, torn>>

TakeHandle(r) ==
  /\ r # Driver /\ rpc[r] = "handle" /\ objs[r] # << >>
  /\ objs' = [objs EXCEPT ![r] = Tail(@)]
  /\ rpc' = [rpc EXCEPT ![r] = "recv"]
  /\ UNCHANGED <<syncVars, senderVars, copies, bucket, wire, message, reads, taken, loaded, torn>>

(* clone() of every entry is issued.                                       *)
Clone(r, m) ==
  /\ message' = [message EXCEPT ![r] = m]
  /\ reads' = [reads EXCEPT ![r] = {[w |-> w, off |-> m.meta[w]] : w \in DOMAIN m.meta}]
  /\ rpc' = [rpc EXCEPT ![r] = "clone"]
  /\ UNCHANGED <<syncVars, senderVars, copies, bucket, taken, loaded, torn>>

DriverBucket ==
  /\ rpc[Driver] = "recv" /\ wire.kind = "payload"
  /\ Share(wire.msg)
  /\ Clone(Driver, wire.msg)
  /\ wire' = Replying

TakeBucket(r) ==
  /\ r # Driver /\ rpc[r] = "recv" /\ objs[r] # << >>
  /\ objs' = [objs EXCEPT ![r] = Tail(@)]
  /\ Clone(r, Head(objs[r]))
  /\ UNCHANGED wire

(* The device executes a clone.                                            *)
CopyOut(r, c) ==
  /\ c \in reads[r]
  /\ reads' = [reads EXCEPT ![r] = @ \ {c}]
  /\ taken' = [taken EXCEPT ![r] = @ \cup {c.w}]
  /\ torn' = IF \A i \in Span(c.off, c.w) : bucket[i] = <<sync, c.w>>
               THEN torn ELSE [torn EXCEPT ![r] = @ \cup {c.w}]
  /\ UNCHANGED <<syncVars, senderVars, copies, bucket, wire, rpc, objs, message, loaded>>

(* torch.cuda.synchronize(), then the barrier of all ranks.                *)
EnterBarrier(r) ==
  /\ rpc[r] = "clone" /\ Synchronized(reads[r])
  /\ rpc' = [rpc EXCEPT ![r] = "barrier"]
  /\ UNCHANGED <<syncVars, senderVars, copies, bucket, wire, objs, message, reads, taken, loaded, torn>>

Arrived == {r \in Ranks : rpc[r] = "barrier"}
EachAlone == Arrived   \* mutant of Released
Released == IF Arrived = Ranks THEN Ranks ELSE {}

Barrier ==
  /\ Released # {}
  /\ rpc' = [r \in Ranks |-> IF r \in Released THEN "passed" ELSE rpc[r]]
  /\ UNCHANGED <<syncVars, senderVars, copies, bucket, wire, objs, message, reads, taken, loaded, torn>>

(* After the barrier the driver replies; nobody may be there to hear it.   *)
DriverReply ==
  /\ rpc[Driver] = "passed"
  /\ wire' = IF wire = Replying THEN Reply ELSE wire
  /\ rpc' = [rpc EXCEPT ![Driver] = "load"]
  /\ UNCHANGED <<syncVars, senderVars, copies, bucket, objs, message, reads, taken, loaded, torn>>

(* The clones go into the model at once (load_weights), those of an        *)
(* adapter are kept (all_lora_weights).                                    *)
LoadAtOnce == TRUE   \* mutant of IntoModel
IntoModel == ~lora

Load(r) ==
  /\ rpc[r] = "load" \/ (rpc[r] = "passed" /\ r # Driver)
  /\ loaded' = IF IntoModel THEN [loaded EXCEPT ![r] = @ \cup (taken[r] \ torn[r])] ELSE loaded
  /\ taken' = IF IntoModel THEN [taken EXCEPT ![r] = {}] ELSE taken
  /\ rpc' = [rpc EXCEPT ![r] = IF message[r].last THEN "finish" ELSE "recv"]
  /\ UNCHANGED <<syncVars, senderVars, copies, bucket, wire, objs, message, reads, torn>>

(* finish_vllm_weight_reload, or add_lora of what was kept.                *)
Finish(r) ==
  /\ rpc[r] = "finish"
  /\ loaded' = [loaded EXCEPT ![r] = @ \cup (taken[r] \ torn[r])]
  /\ taken' = [taken EXCEPT ![r] = {}]
  /\ message' = [message EXCEPT ![r] = Nothing]
  /\ rpc' = [rpc EXCEPT ![r] = "return"]
  /\ UNCHANGED <<syncVars, senderVars, copies, bucket, wire, objs, reads, torn>>

(* The RPC returns.                                                        *)
Return(r) ==
  /\ rpc[r] = "return"
  /\ rpc' = [rpc EXCEPT ![r] = "idle"]
  /\ UNCHANGED <<syncVars, senderVars, copies, bucket, wire, objs, message, reads, taken, loaded, torn>>

(* RCVTIMEO of the driver: the RPC fails on it, the other ranks stay.      *)
DriverTimeout ==
  /\ Timeouts
  /\ rpc[Driver] \in {"handle", "recv"} /\ wire.kind \notin {"handle", "payload"}
  /\ rpc' = [rpc EXCEPT ![Driver] = "failed"]
  /\ UNCHANGED <<syncVars, senderVars, copies, bucket, wire, objs, message, reads, taken, loaded, torn>>

-----------------------------------------------------------------------------
Sender ==
  \/ RaiseTooLarge \/ Pack \/ Flush \/ Acknowledged \/ SendDone
  \/ \E c \in copies : CopyIn(c)

Rank(r) ==
  \/ TakeHandle(r) \/ TakeBucket(r) \/ EnterBarrier(r) \/ Load(r)
  \/ Finish(r) \/ Return(r)
  \/ \E c \in reads[r] : CopyOut(r, c)

Group == DriverHandle \/ DriverBucket \/ Barrier \/ DriverReply

Next ==
  \/ StartSync \/ Sender \/ SenderTimeout
  \/ Group \/ DriverTimeout \/ \E r \in Ranks : Rank(r)

Spec == Init /\ [][Next]_vars

(* The processes and the device keep running; a timer need not expire.     *)
FairSpec == Spec /\ WF_vars(Sender) /\ WF_vars(Group) /\ \A r \in Ranks : WF_vars(Rank(r))

-----------------------------------------------------------------------------
(* Properties *)

(* No rank clones a weight out of bytes the sender has overwritten.        *)
NoTornRead == \A r \in Ranks : torn[r] = {}

(* "The sender can overwrite the shared buffer as soon as it receives the  *)
(* ACK, so every TP rank must finish its local copies first": while the    *)
(* sender packs, no rank has a bucket still to take or a clone pending.    *)
ReplyAfterAllCopied ==
  spc = "pack" => \A r \in Ranks :
    /\ reads[r] = {}
    /\ rpc[r] \in {"passed", "load", "recv"} => objs[r] = << >>

(* The transfer implements the promise made to the consumers: the RPC      *)
(* returns on a rank only when that rank holds every weight of the stream. *)
Promise == INSTANCE WeightStream WITH
             Consumers <- Ranks,
             phase <- [r \in Ranks |-> IF rpc[r] = "idle" THEN "closed" ELSE "open"]

ImplementsWeightStream == Promise!Spec

(* An adapter becomes part of the model in one step and whole, whatever    *)
(* times out and whatever raises while it is being transferred.            *)
AdapterWhole ==
  [][\A r \in Ranks : (lora /\ sync' = sync /\ loaded'[r] # loaded[r]) => loaded'[r] = Weights]_vars

(* Every transfer ends for the sender and for the ranks, unless a weight   *)
(* does not fit into a bucket or one of the two ends gives up waiting.     *)
TransferEnds ==
  (spc # "idle") ~> \/ spc = "idle" /\ \A r \in Ranks : rpc[r] = "idle"
                    \/ spc = "failed" \/ rpc[Driver] = "failed"
==============================================================================
