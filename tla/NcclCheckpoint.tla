--------------------------- MODULE NcclCheckpoint ---------------------------
(***************************************************************************)
(* The NCCL weight broadcast of swift/ray/megatron/checkpoint_engine/      *)
(* nccl.py: trainer rank 0 packs the weights of the model into one of two  *)
(* buckets while the other bucket is being broadcast, and every rollout    *)
(* rank hands the weights of one bucket to its consumer while the next     *)
(* bucket is received into the other.                                      *)
(*                                                                         *)
(* Buckets are modelled byte by byte.  A copy into or out of a bucket is   *)
(* issued with non_blocking=True: it is pending until the device executes  *)
(* it, and only synchronize() waits for it.  A broadcast runs in a thread  *)
(* of the executor: it is started, its metadata travels over PUB/SUB, then *)
(* the bucket is transferred to each receiver while nothing stops the      *)
(* event loop from touching the buckets.                                   *)
(***************************************************************************)
EXTENDS Integers, Sequences, FiniteSets

CONSTANTS Receivers,    \* rollout ranks 1..n
          Streams,      \* the weight streams a synchronisation may send: each
                        \* is the sequence of the weights' sizes in bytes
          BucketSize,   \* bucket_size
          MaxSync       \* bound: the number of synchronisations

ASSUME NcclAssumption ==
  /\ Streams \subseteq Seq(Nat)
  /\ BucketSize \in Nat
  /\ MaxSync \in Nat

Bufs  == {0, 1}                 \* self.send_buf is 0, self.recv_buf is 1
SameBuf(b) == b                 \* mutant of Other
Other(b) == 1 - b
Bytes == 0 .. BucketSize - 1
Blank == <<0, 0>>               \* a byte of torch.zeros

VARIABLES
  sync,        \* the number of the current synchronisation
  stream,      \* the sizes of the weights the generator yields
  \* ---- trainer rank 0: send_weights ----
  spc,         \* where the coroutine is
  nextW,       \* the next weight the generator yields
  sendBuf,     \* which bucket the local send_buf names
  offset,      \* offset
  bucketMeta,  \* bucket_meta: weight |-> offset
  copies,      \* copies into buckets that the device has not executed
  sbuf,        \* the bytes of the two buckets: each <<sync, weight>> or Blank
  sop,         \* the BroadcastOperation of rank 0
  reached,     \* receivers the current broadcast has been delivered to
  \* ---- rollout ranks: receive_weights and its consumer ----
  rpc,         \* where the generator is
  recvBuf,     \* which bucket the local recv_buf names
  metadata,    \* metadata of the bucket being handed out
  yielded,     \* its weights yielded so far
  reads,       \* the consumer's copies out of buckets not yet executed
  rbuf,        \* the bytes of the two buckets
  rop,         \* the BroadcastOperation of the rank
  inbox,       \* messages on its SUB socket
  loaded,      \* weights the consumer read intact in this synchronisation
  torn         \* weights it read with any other byte in them

senderVars   == <<spc, nextW, sendBuf, offset, bucketMeta>>
receiverVars == <<rpc, recvBuf, metadata, yielded, reads>>
consumerVars == <<loaded, torn>>
vars == <<sync, stream, senderVars, copies, sbuf, sop, reached,
          receiverVars, rbuf, rop, inbox, consumerVars>>

Weights == 1 .. Len(stream)

NoMeta    == [w \in {} |-> 0]
NoMessage == [meta |-> NoMeta, last |-> FALSE]

(* A BroadcastOperation: its bucket, its metadata and how far its thread is. *)
Op(buf, msg, st) == [buf |-> buf, msg |-> msg, st |-> st]
NoOp == Op(0, NoMessage, "none")

Init ==
  /\ sync = 0
  /\ stream = << >>
  /\ spc = "idle"
  /\ nextW = 1
  /\ sendBuf = 0
  /\ offset = 0
  /\ bucketMeta = NoMeta
  /\ copies = {}
  /\ sbuf = [b \in Bufs |-> [i \in Bytes |-> Blank]]
  /\ sop = NoOp
  /\ reached = {}
  /\ rpc = [r \in Receivers |-> "idle"]
  /\ recvBuf = [r \in Receivers |-> 1]
  /\ metadata = [r \in Receivers |-> NoMessage]
  /\ yielded = [r \in Receivers |-> {}]
  /\ reads = [r \in Receivers |-> {}]
  /\ rbuf = [r \in Receivers |-> [b \in Bufs |-> [i \in Bytes |-> Blank]]]
  /\ rop = [r \in Receivers |-> NoOp]
  /\ inbox = [r \in Receivers |-> << >>]
  /\ loaded = [r \in Receivers |-> {}]
  /\ torn = [r \in Receivers |-> {}]

-----------------------------------------------------------------------------
(* The driver calls send_weights and receive_weights on all actors and     *)
(* waits for all of them (ray.get) before it starts another round.  Both   *)
(* calls begin with fresh locals and self.send_buf, self.recv_buf; the     *)
(* buckets keep their bytes and the SUB sockets what was published.        *)
StartSync ==
  /\ spc = "idle"
  /\ \A r \in Receivers : rpc[r] = "idle"
  /\ sync < MaxSync
  /\ sync' = sync + 1
  /\ stream' \in Streams
  /\ spc' = "pack"
  /\ nextW' = 1
  /\ sendBuf' = 0
  /\ offset' = 0
  /\ bucketMeta' = NoMeta
  /\ sop' = NoOp
  /\ rpc' = [r \in Receivers |-> "start"]
  /\ recvBuf' = [r \in Receivers |-> 1]
  /\ metadata' = [r \in Receivers |-> NoMessage]
  /\ yielded' = [r \in Receivers |-> {}]
  /\ rop' = [r \in Receivers |-> NoOp]
  /\ loaded' = [r \in Receivers |-> {}]
  /\ torn' = [r \in Receivers |-> {}]
  /\ UNCHANGED <<copies, sbuf, reached, reads, rbuf, inbox>>

-----------------------------------------------------------------------------
(* send_weights *)

Fits(w) == offset + stream[w] <= BucketSize

(* The generator yields a weight that still fits: record it, copy it.      *)
Pack ==
  /\ spc = "pack"
  /\ nextW \in Weights
  /\ Fits(nextW)
  /\ bucketMeta' = [w \in DOMAIN bucketMeta \cup {nextW} |->
                       IF w = nextW THEN offset ELSE bucketMeta[w]]
  /\ copies' = copies \cup {[buf |-> sendBuf, w |-> nextW, off |-> offset]}
  /\ offset' = offset + stream[nextW]
  /\ nextW' = nextW + 1
  /\ UNCHANGED <<sync, stream, spc, sendBuf, sbuf, sop, reached,
                 receiverVars, rbuf, rop, inbox, consumerVars>>

(* synchronize(): returns when every pending copy has been executed.       *)
NotSynchronized(pending) == TRUE   \* mutant of Synchronized
Synchronized(pending) == pending = {}

Synchronize ==
  /\ spc = "pack"
  /\ nextW \in Weights => ~Fits(nextW)
  /\ Synchronized(copies)
  /\ spc' = "await"
  /\ UNCHANGED <<sync, stream, nextW, sendBuf, offset, bucketMeta, copies, sbuf,
                 sop, reached, receiverVars, rbuf, rop, inbox, consumerVars>>

(* The previous broadcast is complete (or there was none): start this one. *)
NotAwaited == TRUE   \* mutant of PreviousComplete
PreviousComplete == sop.st \in {"none", "done"}

Broadcast(last) ==
  /\ spc = "await"
  /\ PreviousComplete
  /\ sop' = Op(sendBuf, [meta |-> bucketMeta, last |-> last], "publish")
  /\ reached' = {}
  /\ UNCHANGED <<sync, stream, nextW, copies, sbuf, receiverVars, rbuf, rop, inbox, consumerVars>>

(* The bucket is full: swap the buckets, and then check the weight that    *)
(* did not fit against an empty one.  A weight larger than a bucket raises *)
(* here, after the broadcast has been started.                             *)
BroadcastFull ==
  /\ nextW \in Weights
  /\ Broadcast(FALSE)
  /\ sendBuf' = Other(sendBuf)
  /\ bucketMeta' = NoMeta
  /\ offset' = 0
  /\ spc' = IF stream[nextW] <= BucketSize THEN "pack" ELSE "failed"

(* The generator is exhausted: broadcast what is left, possibly nothing.   *)
BroadcastLast ==
  /\ nextW \notin Weights
  /\ Broadcast(TRUE)
  /\ spc' = "drain"
  /\ UNCHANGED <<sendBuf, bucketMeta, offset>>

SendDone ==
  /\ spc = "drain"
  /\ sop.st = "done"
  /\ spc' = "idle"
  /\ UNCHANGED <<sync, stream, nextW, sendBuf, offset, bucketMeta, copies, sbuf,
                 sop, reached, receiverVars, rbuf, rop, inbox, consumerVars>>

(* Exporting a weight raises: nothing in send_weights catches it.          *)
GeneratorRaises ==
  /\ spc = "pack"
  /\ spc' = "failed"
  /\ UNCHANGED <<sync, stream, nextW, sendBuf, offset, bucketMeta, copies, sbuf,
                 sop, reached, receiverVars, rbuf, rop, inbox, consumerVars>>

Span(off, w) == off .. off + stream[w] - 1

(* The device executes one of the pending copies.                          *)
CopyIn(c) ==
  /\ c \in copies
  /\ copies' = copies \ {c}
  /\ sbuf' = [sbuf EXCEPT ![c.buf] =
                [i \in Bytes |-> IF i \in Span(c.off, c.w) THEN <<sync, c.w>> ELSE @[i]]]
  /\ UNCHANGED <<sync, stream, senderVars, sop, reached, receiverVars, rbuf, rop, inbox, consumerVars>>

-----------------------------------------------------------------------------
(* BroadcastOperation._run, in a thread of the executor *)

(* Rank 0 publishes the metadata and enters the collective.                *)
Publish ==
  /\ sop.st = "publish"
  /\ inbox' = [r \in Receivers |-> Append(inbox[r], sop.msg)]
  /\ sop' = Op(sop.buf, sop.msg, "xfer")
  /\ UNCHANGED <<sync, stream, senderVars, copies, sbuf, reached,
                 receiverVars, rbuf, rop, consumerVars>>

(* A receiver takes the metadata and enters the collective.                *)
TakeMeta(r) ==
  /\ rop[r].st = "recv"
  /\ inbox[r] # << >>
  /\ rop' = [rop EXCEPT ![r] = Op(@.buf, Head(inbox[r]), "xfer")]
  /\ inbox' = [inbox EXCEPT ![r] = Tail(@)]
  /\ UNCHANGED <<sync, stream, senderVars, copies, sbuf, sop, reached,
                 receiverVars, rbuf, consumerVars>>

(* The bucket reaches one receiver: what is copied is what rank 0's bucket *)
(* holds at that moment.                                                   *)
Deliver(r) ==
  /\ sop.st = "xfer"
  /\ rop[r].st = "xfer"
  /\ r \notin reached
  /\ rbuf' = [rbuf EXCEPT ![r] = [@ EXCEPT ![rop[r].buf] = sbuf[sop.buf]]]
  /\ rop' = [rop EXCEPT ![r] = Op(@.buf, @.msg, "done")]
  /\ reached' = reached \cup {r}
  /\ UNCHANGED <<sync, stream, senderVars, copies, sbuf, sop, receiverVars, inbox, consumerVars>>

(* Rank 0 leaves the collective when all ranks have the bucket.            *)
LeaveBroadcast ==
  /\ sop.st = "xfer"
  /\ reached = Receivers
  /\ sop' = Op(sop.buf, sop.msg, "done")
  /\ UNCHANGED <<sync, stream, senderVars, copies, sbuf, reached,
                 receiverVars, rbuf, rop, inbox, consumerVars>>

-----------------------------------------------------------------------------
(* receive_weights *)

Receive(r) == rop' = [rop EXCEPT ![r] = Op(recvBuf[r], NoMessage, "recv")]

StartReceive(r) ==
  /\ rpc[r] = "start"
  /\ Receive(r)
  /\ rpc' = [rpc EXCEPT ![r] = "first"]
  /\ UNCHANGED <<sync, stream, senderVars, copies, sbuf, sop, reached,
                 recvBuf, metadata, yielded, reads, rbuf, inbox, consumerVars>>

(* The awaited broadcast is complete: its bucket becomes the one handed    *)
(* out, the other one the one received into.                               *)
Swap(r) ==
  /\ rop[r].st = "done"
  /\ metadata' = [metadata EXCEPT ![r] = rop[r].msg]
  /\ recvBuf' = [recvBuf EXCEPT ![r] = Other(@)]
  /\ yielded' = [yielded EXCEPT ![r] = {}]
  /\ rpc' = [rpc EXCEPT ![r] = "head"]
  /\ UNCHANGED <<sync, stream, senderVars, copies, sbuf, sop, reached,
                 reads, rbuf, rop, inbox, consumerVars>>

FirstBucket(r) == rpc[r] = "first" /\ Swap(r)

(* while not metadata['is_last']: receive the next bucket before handing   *)
(* out this one.                                                           *)
LoopHead(r) ==
  /\ rpc[r] = "head"
  /\ IF metadata[r].last THEN UNCHANGED rop ELSE Receive(r)
  /\ rpc' = [rpc EXCEPT ![r] = "yield"]
  /\ UNCHANGED <<sync, stream, senderVars, copies, sbuf, sop, reached,
                 recvBuf, metadata, yielded, reads, rbuf, inbox, consumerVars>>

Remaining(r) == DOMAIN metadata[r].meta \ yielded[r]

(* A view of the bucket is yielded, weights in the order of bucket_meta;   *)
(* the consumer issues a copy of it.                                       *)
Yield(r) ==
  /\ rpc[r] = "yield"
  /\ \E w \in Remaining(r) :
       /\ \A v \in Remaining(r) : w <= v
       /\ yielded' = [yielded EXCEPT ![r] = @ \cup {w}]
       /\ reads' = [reads EXCEPT ![r] = @ \cup
            {[buf |-> Other(recvBuf[r]), w |-> w, off |-> metadata[r].meta[w]]}]
  /\ UNCHANGED <<sync, stream, senderVars, copies, sbuf, sop, reached,
                 rpc, recvBuf, metadata, rbuf, rop, inbox, consumerVars>>

(* All views handed out, the next broadcast complete, then synchronize():  *)
(* the consumer's copies have been executed before the buckets swap.       *)
NextBucket(r) ==
  /\ rpc[r] = "yield"
  /\ Remaining(r) = {}
  /\ ~metadata[r].last
  /\ Synchronized(reads[r])
  /\ Swap(r)

(* After the last bucket the generator ends; the consumer synchronizes     *)
(* before it reports success (BucketedWeightSender's last flush).          *)
ReceiveDone(r) ==
  /\ rpc[r] = "yield"
  /\ Remaining(r) = {}
  /\ metadata[r].last
  /\ Synchronized(reads[r])
  /\ rpc' = [rpc EXCEPT ![r] = "idle"]
  /\ UNCHANGED <<sync, stream, senderVars, copies, sbuf, sop, reached, recvBuf,
                 metadata, yielded, reads, rbuf, rop, inbox, consumerVars>>

(* A view is intact when all its bytes are of this weight and this sync    *)
(* and no broadcast is writing the bucket it lies in.                      *)
Intact(r, c) ==
  /\ \A i \in Span(c.off, c.w) : rbuf[r][c.buf][i] = <<sync, c.w>>
  /\ ~(rop[r].st = "xfer" /\ rop[r].buf = c.buf)

(* The device executes one of the consumer's copies.                       *)
CopyOut(r, c) ==
  /\ c \in reads[r]
  /\ reads' = [reads EXCEPT ![r] = @ \ {c}]
  /\ IF Intact(r, c)
       THEN loaded' = [loaded EXCEPT ![r] = @ \cup {c.w}] /\ UNCHANGED torn
       ELSE torn' = [torn EXCEPT ![r] = @ \cup {c.w}] /\ UNCHANGED loaded
  /\ UNCHANGED <<sync, stream, senderVars, copies, sbuf, sop, reached,
                 rpc, recvBuf, metadata, yielded, rbuf, rop, inbox>>

-----------------------------------------------------------------------------
Sender ==
  \/ Pack \/ Synchronize \/ BroadcastFull \/ BroadcastLast \/ SendDone
  \/ Publish \/ LeaveBroadcast
  \/ \E c \in copies : CopyIn(c)

Receiver(r) ==
  \/ StartReceive(r) \/ FirstBucket(r) \/ LoopHead(r) \/ Yield(r)
  \/ NextBucket(r) \/ ReceiveDone(r)
  \/ TakeMeta(r) \/ Deliver(r)
  \/ \E c \in reads[r] : CopyOut(r, c)

Next ==
  \/ StartSync
  \/ Sender
  \/ GeneratorRaises
  \/ \E r \in Receivers : Receiver(r)

Spec == Init /\ [][Next]_vars

(* Threads, event loops and the device are scheduled fairly; the driver    *)
(* need not start a synchronisation and the generator need not raise.      *)
FairSpec == Spec /\ WF_vars(Sender) /\ \A r \in Receivers : WF_vars(Receiver(r))

-----------------------------------------------------------------------------
(* Properties *)

Entries  == [buf : Bufs, w : Weights, off : 0 .. BucketSize]
MetasOf(W) == UNION {[D -> 0 .. BucketSize] : D \in SUBSET W}
Metas    == MetasOf(Weights)
Messages == [meta : Metas, last : BOOLEAN]
Ops(states) == [buf : Bufs, msg : Messages, st : states]
Buckets  == [Bufs -> [Bytes -> Nat \X Nat]]

(* Type invariant.                                                         *)
TypeOK ==
  /\ sync \in 0 .. MaxSync
  /\ stream \in Seq(Nat)
  /\ spc \in {"idle", "pack", "await", "drain", "failed"}
  /\ nextW \in 1 .. Len(stream) + 1
  /\ sendBuf \in Bufs
  /\ offset \in 0 .. BucketSize
  /\ bucketMeta \in Metas
  /\ copies \in SUBSET Entries
  /\ sbuf \in Buckets
  /\ sop \in Ops({"none", "publish", "xfer", "done"})
  /\ reached \in SUBSET Receivers
  /\ rpc \in [Receivers -> {"idle", "start", "first", "head", "yield"}]
  /\ recvBuf \in [Receivers -> Bufs]
  /\ metadata \in [Receivers -> Messages]
  /\ yielded \in [Receivers -> SUBSET Weights]
  /\ reads \in [Receivers -> SUBSET Entries]
  /\ rbuf \in [Receivers -> Buckets]
  /\ rop \in [Receivers -> Ops({"none", "recv", "xfer", "done"})]
  /\ inbox \in [Receivers -> Seq(Messages)]
  /\ loaded \in [Receivers -> SUBSET Weights]
  /\ torn \in [Receivers -> SUBSET Weights]

(* No consumer ever copies out bytes that are stale, of another weight, or *)
(* still being written: the double buffering of both ends together with    *)
(* the two synchronize() calls protects every view that is handed out.     *)
NoTornRead == \A r \in Receivers : torn[r] = {}

(* Rank 0 never writes into the bucket it is broadcasting.                 *)
InFlightUntouched ==
  sop.st \in {"publish", "xfer"} => \A c \in copies : c.buf # sop.buf

(* Sender and receivers agree on the synchronisation: when rank 0 reports  *)
(* success, every receiver has at least the metadata of the last bucket,   *)
(* so none of them waits for a broadcast that will not come.               *)
NoReceiverLeftBehind ==
  (spc = "idle" /\ sync > 0) =>
     \A r \in Receivers : rop[r].st = "done" /\ rop[r].msg.last

(* The broadcast implements the promise made to the consumers.             *)
Promise == INSTANCE WeightStream WITH
             Consumers <- Receivers,
             phase <- [r \in Receivers |-> IF rpc[r] = "idle" THEN "closed" ELSE "open"]

ImplementsWeightStream == Promise!Spec

(* Every synchronisation ends for everybody, unless sending failed.        *)
SyncEnds ==
  (spc # "idle") ~> (spc = "failed" \/ (spc = "idle" /\ \A r \in Receivers : rpc[r] = "idle"))
=============================================================================
