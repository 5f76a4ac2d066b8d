------------------------ MODULE NcclCheckpointProofs ------------------------
(***************************************************************************)
(* Proofs about NcclCheckpoint for every number of receivers, every weight *)
(* stream, every bucket size and any number of synchronisations.           *)
(***************************************************************************)
EXTENDS NcclCheckpoint, TLAPS

(* The bytes of a bucket agree with its metadata.                          *)
Filled(cells, meta) ==
  \A w \in DOMAIN meta : \A i \in Span(meta[w], w) : cells[i] = <<sync, w>>

(* What rank 0 has packed: weights lie one after the other below offset,   *)
(* and each is either in the bucket already or in a pending copy.          *)
Layout ==
  spc \in {"pack", "await"} =>
    \A w \in DOMAIN bucketMeta :
      /\ w < nextW
      /\ bucketMeta[w] + stream[w] <= offset
      /\ \A v \in DOMAIN bucketMeta : v < w => bucketMeta[v] + stream[v] <= bucketMeta[w]
      /\ \/ [buf |-> sendBuf, w |-> w, off |-> bucketMeta[w]] \in copies
         \/ \A i \in Span(bucketMeta[w], w) : sbuf[sendBuf][i] = <<sync, w>>

PendingCopies ==
  /\ copies # {} => spc \in {"pack", "failed"}
  /\ \A c \in copies : c.buf = sendBuf
  /\ spc = "pack" => \A c \in copies : c.w \in DOMAIN bucketMeta /\ c.off = bucketMeta[c.w]

(* The bucket in flight is the other one, and it is filled.                *)
SenderOp ==
  /\ (spc \in {"pack", "await", "failed"} /\ sop.st # "none") => sop.buf = Other(sendBuf)
  /\ spc = "idle" => sop.st \in {"none", "done"}
  /\ sop.st = "publish" => reached = {}
  /\ sop.st \in {"publish", "xfer"} => Filled(sbuf[sop.buf], sop.msg.meta)

(* A message is on its way to a receiver exactly while rank 0 broadcasts   *)
(* and has not reached it; then it is in the inbox or in its operation.    *)
Owed(r) == sop.st = "xfer" /\ r \notin reached

Messaging(r) ==
  IF Owed(r)
    THEN \/ inbox[r] = <<sop.msg>> /\ rop[r].st # "xfer"
         \/ inbox[r] = << >> /\ rop[r].st = "xfer" /\ rop[r].msg = sop.msg
    ELSE inbox[r] = << >> /\ rop[r].st # "xfer"

(* Where a receiver is, which bucket it hands out and which one it         *)
(* receives into.                                                          *)
Receiving(r) ==
  /\ rop[r].buf = recvBuf[r]
  /\ rop[r].st \in {"recv", "xfer", "done"}
  /\ rop[r].st = "done" => Filled(rbuf[r][rop[r].buf], rop[r].msg.meta)

HandingOut(r) == Filled(rbuf[r][Other(recvBuf[r])], metadata[r].meta)

Position(r) ==
  /\ rpc[r] \in {"idle", "start"} => rop[r].st \in {"none", "done"}
  /\ rpc[r] = "first" => Receiving(r)
  /\ rpc[r] = "head" => HandingOut(r) /\ rop[r].st = "done"
  /\ rpc[r] = "yield" =>
       /\ HandingOut(r)
       /\ IF metadata[r].last THEN rop[r].st = "done" ELSE Receiving(r)

PendingReads(r) ==
  /\ reads[r] # {} => rpc[r] = "yield"
  /\ \A c \in reads[r] :
       /\ c.buf = Other(recvBuf[r])
       /\ c.w \in DOMAIN metadata[r].meta
       /\ c.off = metadata[r].meta[c.w]

IInv ==
  /\ TypeOK
  /\ Layout
  /\ PendingCopies
  /\ SenderOp
  /\ \A r \in Receivers : Messaging(r) /\ Position(r) /\ PendingReads(r)
  /\ NoTornRead

-----------------------------------------------------------------------------
(* Membership in the set of bucket metadata over the weights W.            *)
LEMMA MetasIntro ==
  ASSUME NEW W, NEW D \in SUBSET W, NEW m \in [D -> 0 .. BucketSize]
  PROVE  m \in MetasOf(W)
BY DEF MetasOf

LEMMA MetasElim ==
  ASSUME NEW W, NEW m \in MetasOf(W)
  PROVE  /\ DOMAIN m \in SUBSET W
         /\ m \in [DOMAIN m -> 0 .. BucketSize]
<1>1. PICK D \in SUBSET W : m \in [D -> 0 .. BucketSize]
  BY DEF MetasOf
<1> QED
  BY <1>1

LEMMA NoMetaType == ASSUME NEW W PROVE NoMeta \in MetasOf(W)
<1>1. NoMeta \in [{} -> 0 .. BucketSize]
  BY DEF NoMeta
<1> QED
  BY <1>1, MetasIntro

LEMMA InitInv == Init => IInv
<1> SUFFICES ASSUME Init PROVE IInv
  OBVIOUS
<1> USE NcclAssumption DEF Init
<1>1. NoMeta \in Metas /\ NoMessage \in Messages
  BY NoMetaType DEF NoMessage, Metas, Messages
<1>2. TypeOK
  BY <1>1 DEF TypeOK, Entries, Ops, Op, NoOp, Buckets, Blank, Bufs, Bytes, Weights
<1>3. Layout /\ PendingCopies /\ SenderOp
  BY DEF Layout, PendingCopies, SenderOp, NoMeta, NoOp, Op
<1>4. \A r \in Receivers : Messaging(r) /\ Position(r) /\ PendingReads(r)
  BY DEF Messaging, Owed, Position, PendingReads, NoOp, Op
<1>5. NoTornRead
  BY DEF NoTornRead
<1> QED
  BY <1>2, <1>3, <1>4, <1>5 DEF IInv

(* The types depend on the state only through the stream.                  *)
LEMMA SameTypes ==
  stream' = stream =>
    /\ Weights' = Weights
    /\ Entries' = Entries
    /\ Metas' = Metas
    /\ Messages' = Messages
    /\ \A S : Ops(S)' = Ops(S)
BY DEF Weights, Entries, Metas, Messages, Ops

LEMMA OpType ==
  ASSUME NEW b \in Bufs, NEW m \in Messages, NEW S, NEW st \in S
  PROVE  Op(b, m, st) \in Ops(S)
BY DEF Op, Ops

LEMMA AddElement ==
  ASSUME NEW S, NEW T, NEW f \in [S -> SUBSET T], NEW r \in S, NEW x \in T
  PROVE  [f EXCEPT ![r] = @ \cup {x}] \in [S -> SUBSET T]
OBVIOUS

LEMMA TypeStep == IInv /\ [Next]_vars => TypeOK'
<1> SUFFICES ASSUME IInv, [Next]_vars PROVE TypeOK'
  OBVIOUS
<1> USE NcclAssumption DEF IInv
<1>0. TypeOK
  OBVIOUS
<1>b. \A b \in Bufs : Other(b) \in Bufs
  BY DEF Bufs, Other
<1>n. Len(stream) \in Nat /\ \A w \in Weights : w \in Nat /\ stream[w] \in Nat
  BY DEF TypeOK, Weights
<1>m. NoMeta \in Metas /\ NoMessage \in Messages
  BY NoMetaType DEF NoMessage, Metas, Messages
<1>1. CASE StartSync
  <2>1. stream' \in Seq(Nat) /\ Len(stream') \in Nat
    BY <1>1 DEF StartSync
  <2>2. copies = {}
    BY <1>1 DEF StartSync, PendingCopies
  <2>3. \A r \in Receivers : reads[r] = {} /\ inbox[r] = << >>
    BY <1>1 DEF StartSync, PendingReads, Messaging, Owed, SenderOp
  <2>4. NoMeta \in Metas' /\ NoMessage \in Messages'
    BY NoMetaType DEF NoMessage, Metas, Messages
  <2>5. \A S : "none" \in S => NoOp \in Ops(S)'
    BY <2>4 DEF NoOp, Op, Ops, Bufs
  <2>6. inbox' \in [Receivers -> Seq(Messages')] /\ reads' \in [Receivers -> SUBSET Entries']
    BY <1>1, <2>3 DEF StartSync, TypeOK
  <2>7. /\ sop' \in Ops({"none", "publish", "xfer", "done"})'
        /\ rop' \in [Receivers -> Ops({"none", "recv", "xfer", "done"})']
        /\ metadata' \in [Receivers -> Messages']
        /\ bucketMeta' \in Metas'
    BY <1>1, <2>4, <2>5 DEF StartSync
  <2>8. /\ sync' \in 0 .. MaxSync /\ nextW' \in 1 .. Len(stream') + 1
        /\ spc' = "pack" /\ sendBuf' \in Bufs /\ offset' \in 0 .. BucketSize
        /\ copies' = {} /\ sbuf' = sbuf /\ reached' = reached /\ rbuf' = rbuf
        /\ rpc' = [r \in Receivers |-> "start"]
        /\ recvBuf' \in [Receivers -> Bufs]
        /\ yielded' = [r \in Receivers |-> {}]
        /\ loaded' = [r \in Receivers |-> {}]
        /\ torn' = [r \in Receivers |-> {}]
    BY <1>0, <1>1, <2>1, <2>2 DEF StartSync, TypeOK, Bufs
  <2> QED
    BY <1>0, <2>1, <2>6, <2>7, <2>8 DEF TypeOK, Buckets
<1>2. CASE Pack
  <2>1. stream' = stream
    BY <1>2 DEF Pack
  <2>2. nextW \in Weights /\ offset \in 0 .. BucketSize /\ offset + stream[nextW] \in 0 .. BucketSize
    BY <1>0, <1>2, <1>n, SMTT(60) DEF Pack, Fits, TypeOK
  <2>3. bucketMeta' \in Metas
    <3>1. DOMAIN bucketMeta \in SUBSET Weights /\ bucketMeta \in [DOMAIN bucketMeta -> 0 .. BucketSize]
      BY <1>0, MetasElim DEF TypeOK, Metas
    <3>2. DOMAIN bucketMeta \cup {nextW} \in SUBSET Weights
      BY <2>2, <3>1
    <3>3. bucketMeta' \in [DOMAIN bucketMeta \cup {nextW} -> 0 .. BucketSize]
      BY <1>2, <2>2, <3>1 DEF Pack
    <3> QED
      BY <3>2, <3>3, MetasIntro DEF Metas
  <2>4. copies' \in SUBSET Entries
    BY <1>0, <1>2, <2>2 DEF Pack, TypeOK, Entries
  <2>5. nextW' \in 1 .. Len(stream) + 1
    BY <1>2, <1>n, <2>2 DEF Pack, Weights
  <2> QED
    BY <1>0, <1>2, <2>1, <2>2, <2>3, <2>4, <2>5, SameTypes DEF Pack, TypeOK, receiverVars, consumerVars
<1>3. CASE Synchronize
  BY <1>0, <1>3, SameTypes DEF Synchronize, TypeOK, receiverVars, consumerVars
<1>4. ASSUME NEW l \in BOOLEAN, Broadcast(l) PROVE sop' \in Ops({"none", "publish", "xfer", "done"}) /\ stream' = stream
  <2>1. [meta |-> bucketMeta, last |-> l] \in Messages
    BY <1>0 DEF TypeOK, Messages
  <2> QED
    BY <1>0, <1>4, <2>1, OpType DEF Broadcast, TypeOK
<1>5. CASE BroadcastFull
  <2>1. sop' \in Ops({"none", "publish", "xfer", "done"}) /\ stream' = stream
    BY <1>4, <1>5 DEF BroadcastFull
  <2>2. /\ sendBuf' \in Bufs /\ bucketMeta' \in Metas /\ offset' \in 0 .. BucketSize
        /\ spc' \in {"pack", "failed"}
    BY <1>0, <1>5, <1>b, <1>m DEF BroadcastFull, TypeOK
  <2> QED
    BY <1>0, <1>5, <2>1, <2>2, SameTypes DEF BroadcastFull, Broadcast, TypeOK, receiverVars, consumerVars
<1>6. CASE BroadcastLast
  BY <1>0, <1>6, <1>4, SameTypes DEF BroadcastLast, Broadcast, TypeOK, receiverVars, consumerVars
<1>7. CASE SendDone
  BY <1>0, <1>7, SameTypes DEF SendDone, TypeOK, receiverVars, consumerVars
<1>8. CASE GeneratorRaises
  BY <1>0, <1>8, SameTypes DEF GeneratorRaises, TypeOK, receiverVars, consumerVars
<1>9. ASSUME NEW c \in copies, CopyIn(c) PROVE TypeOK'
  <2>1. sync \in Nat /\ c.w \in Nat
    BY <1>0, <1>n DEF TypeOK, Entries
  <2>2. sbuf' \in Buckets
    <3>1. [i \in Bytes |-> IF i \in Span(c.off, c.w) THEN <<sync, c.w>> ELSE sbuf[c.buf][i]]
            \in [Bytes -> Nat \X Nat]
      BY <1>0, <2>1 DEF TypeOK, Buckets, Entries
    <3> QED
      BY <1>0, <1>9, <3>1 DEF CopyIn, TypeOK, Buckets
  <2> QED
    BY <1>0, <1>9, <2>2, SameTypes DEF CopyIn, TypeOK, senderVars, receiverVars, consumerVars
<1>10. CASE Publish
  <2>1. sop.buf \in Bufs /\ sop.msg \in Messages
    BY <1>0 DEF TypeOK, Ops
  <2>2. sop' \in Ops({"none", "publish", "xfer", "done"})
    BY <1>10, <2>1, OpType DEF Publish
  <2>3. inbox' \in [Receivers -> Seq(Messages)]
    BY <1>0, <1>10, <2>1 DEF Publish, TypeOK
  <2> QED
    BY <1>0, <1>10, <2>2, <2>3, SameTypes DEF Publish, TypeOK, senderVars, receiverVars, consumerVars
<1>11. CASE LeaveBroadcast
  <2>1. sop.buf \in Bufs /\ sop.msg \in Messages
    BY <1>0 DEF TypeOK, Ops
  <2>2. sop' \in Ops({"none", "publish", "xfer", "done"})
    BY <1>11, <2>1, OpType DEF LeaveBroadcast
  <2> QED
    BY <1>0, <1>11, <2>2, SameTypes DEF LeaveBroadcast, TypeOK, senderVars, receiverVars, consumerVars
<1>12. ASSUME NEW r \in Receivers, Receiver(r) PROVE TypeOK'
  <2> DEFINE States == {"none", "recv", "xfer", "done"}
  <2>0. /\ rop[r].buf \in Bufs /\ rop[r].msg \in Messages /\ recvBuf[r] \in Bufs
        /\ metadata[r] \in Messages /\ inbox[r] \in Seq(Messages)
    BY <1>0 DEF TypeOK, Ops
  <2>1. ASSUME Receive(r) PROVE rop' \in [Receivers -> Ops(States)]
    <3>1. Op(recvBuf[r], NoMessage, "recv") \in Ops(States)
      BY <2>0, <1>m, OpType
    <3> QED
      BY <1>0, <2>1, <3>1 DEF Receive, TypeOK
  <2>2. CASE StartReceive(r)
    BY <1>0, <2>1, <2>2, SameTypes DEF StartReceive, TypeOK, senderVars, consumerVars
  <2>3. ASSUME Swap(r) PROVE TypeOK'
    BY <1>0, <1>b, <2>0, <2>3, SameTypes DEF Swap, TypeOK, senderVars, consumerVars
  <2>4. CASE LoopHead(r)
    BY <1>0, <2>1, <2>4, SameTypes DEF LoopHead, TypeOK, senderVars, consumerVars
  <2>5. CASE Yield(r)
    <3>1. PICK w \in Remaining(r) :
            /\ yielded' = [yielded EXCEPT ![r] = @ \cup {w}]
            /\ reads' = [reads EXCEPT ![r] = @ \cup
                 {[buf |-> Other(recvBuf[r]), w |-> w, off |-> metadata[r].meta[w]]}]
      BY <2>5 DEF Yield
    <3>2. metadata[r].meta \in MetasOf(Weights)
      BY <2>0 DEF Messages, Metas
    <3>3. w \in Weights /\ metadata[r].meta[w] \in 0 .. BucketSize
      BY <3>2, MetasElim DEF Remaining
    <3>4. [buf |-> Other(recvBuf[r]), w |-> w, off |-> metadata[r].meta[w]] \in Entries
      BY <1>b, <2>0, <3>3 DEF Entries
    <3>5. reads' \in [Receivers -> SUBSET Entries] /\ yielded' \in [Receivers -> SUBSET Weights]
      BY <1>0, <3>1, <3>3, <3>4 DEF TypeOK
    <3> QED
      BY <1>0, <2>5, <3>5, SameTypes DEF Yield, TypeOK, senderVars, consumerVars
  <2>6. CASE ReceiveDone(r)
    BY <1>0, <2>6, SameTypes DEF ReceiveDone, TypeOK, senderVars, consumerVars
  <2>7. CASE TakeMeta(r)
    <3>1. Head(inbox[r]) \in Messages /\ Tail(inbox[r]) \in Seq(Messages)
      BY <2>0, <2>7 DEF TakeMeta
    <3>2. Op(rop[r].buf, Head(inbox[r]), "xfer") \in Ops(States)
      BY <2>0, <3>1, OpType
    <3>3. rop' \in [Receivers -> Ops(States)] /\ inbox' \in [Receivers -> Seq(Messages)]
      BY <1>0, <2>7, <3>1, <3>2 DEF TakeMeta, TypeOK
    <3> QED
      BY <1>0, <2>7, <3>3, SameTypes DEF TakeMeta, TypeOK, senderVars, receiverVars, consumerVars
  <2>8. CASE Deliver(r)
    <3>1. Op(rop[r].buf, rop[r].msg, "done") \in Ops(States)
      BY <2>0, OpType
    <3>2. rop' \in [Receivers -> Ops(States)]
      BY <1>0, <2>8, <3>1 DEF Deliver, TypeOK
    <3>3. sop.buf \in Bufs
      BY <1>0 DEF TypeOK, Ops
    <3>4. rbuf' \in [Receivers -> Buckets]
      BY <1>0, <2>0, <2>8, <3>3 DEF Deliver, TypeOK, Buckets
    <3> QED
      BY <1>0, <2>8, <3>2, <3>4, SameTypes DEF Deliver, TypeOK, senderVars, receiverVars, consumerVars
  <2>9. ASSUME NEW c \in reads[r], CopyOut(r, c) PROVE TypeOK'
    <3>1. c.w \in Weights
      BY <1>0 DEF TypeOK, Entries
    <3>2. reads' \in [Receivers -> SUBSET Entries]
      BY <1>0, <2>9 DEF CopyOut, TypeOK
    <3>3. loaded' \in [Receivers -> SUBSET Weights] /\ torn' \in [Receivers -> SUBSET Weights]
      <4>1. \/ loaded' = [loaded EXCEPT ![r] = @ \cup {c.w}] /\ torn' = torn
            \/ torn' = [torn EXCEPT ![r] = @ \cup {c.w}] /\ loaded' = loaded
        BY <2>9, Zenon DEF CopyOut
      <4>2. loaded \in [Receivers -> SUBSET Weights] /\ torn \in [Receivers -> SUBSET Weights]
        BY <1>0 DEF TypeOK
      <4> QED
        BY <3>1, <4>1, <4>2, AddElement
    <3> QED
      BY <1>0, <2>9, <3>2, <3>3, SameTypes DEF CopyOut, TypeOK, senderVars
  <2> QED
    BY <1>12, <2>2, <2>3, <2>4, <2>5, <2>6, <2>7, <2>8, <2>9 DEF Receiver, FirstBucket, NextBucket
<1>13. CASE UNCHANGED vars
  BY <1>0, <1>13, SameTypes DEF vars, TypeOK, senderVars, receiverVars, consumerVars
<1> QED
  BY <1>1, <1>2, <1>3, <1>5, <1>6, <1>7, <1>8, <1>9, <1>10, <1>11, <1>12, <1>13 DEF Next, Sender

-----------------------------------------------------------------------------
(* Facts about the sender's state that follow from the types.              *)
LEMMA SenderFacts ==
  TypeOK =>
    /\ Len(stream) \in Nat /\ nextW \in Nat /\ offset \in Nat /\ offset <= BucketSize
    /\ sendBuf \in Bufs /\ sop.buf \in Bufs
    /\ \A w \in Weights : w \in Nat /\ stream[w] \in Nat
    /\ \A w \in DOMAIN bucketMeta : w \in Weights /\ bucketMeta[w] \in Nat
    /\ \A c \in copies : /\ c.w \in Weights /\ c.off \in Nat /\ c.buf \in Bufs
                         /\ c = [buf |-> c.buf, w |-> c.w, off |-> c.off]
<1> SUFFICES ASSUME TypeOK PROVE SenderFacts!2
  OBVIOUS
<1> USE NcclAssumption
<1>1. \A w \in DOMAIN bucketMeta : w \in Weights /\ bucketMeta[w] \in Nat
  BY MetasElim DEF TypeOK, Metas
<1>2. \A w \in Weights : w \in Nat /\ stream[w] \in Nat
  BY DEF TypeOK, Weights
<1>3. \A c \in copies : /\ c.w \in Weights /\ c.off \in Nat /\ c.buf \in Bufs
                        /\ c = [buf |-> c.buf, w |-> c.w, off |-> c.off]
  BY DEF TypeOK, Entries
<1>4. sop.buf \in Bufs
  BY DEF TypeOK, Ops
<1> QED
  BY <1>1, <1>2, <1>3, <1>4 DEF TypeOK

LEMMA DisjointIntervals ==
  ASSUME NEW a \in Nat, NEW m \in Nat, NEW b \in Nat, NEW n \in Nat,
         a + m <= b \/ b + n <= a
  PROVE  (a .. a + m - 1) \cap (b .. b + n - 1) = {}
OBVIOUS

LEMMA IntervalInside ==
  ASSUME NEW a \in Nat, NEW m \in Nat, NEW n \in Nat, a + m <= n
  PROVE  (a .. a + m - 1) \subseteq (0 .. n - 1)
OBVIOUS

LEMMA LayoutStep == IInv /\ [Next]_vars => Layout'
<1> SUFFICES ASSUME IInv, [Next]_vars, spc' \in {"pack", "await"} PROVE Layout'
  BY DEF Layout
<1> USE NcclAssumption, SenderFacts DEF IInv
<1>1. CASE StartSync
  BY <1>1 DEF StartSync, Layout, NoMeta
<1>2. CASE Pack
  <2> USE <1>2 DEF Pack
  <2> DEFINE new == [buf |-> sendBuf, w |-> nextW, off |-> offset]
  <2>1. /\ nextW \in Weights /\ stream[nextW] \in Nat
        /\ offset' = offset + stream[nextW] /\ nextW' = nextW + 1
        /\ stream' = stream /\ sync' = sync /\ sbuf' = sbuf /\ sendBuf' = sendBuf
        /\ copies' = copies \cup {new}
    OBVIOUS
  <2>2. \A w \in DOMAIN bucketMeta : w < nextW
    BY DEF Layout
  <2>3. /\ DOMAIN bucketMeta' = DOMAIN bucketMeta \cup {nextW}
        /\ bucketMeta'[nextW] = offset
        /\ \A w \in DOMAIN bucketMeta : bucketMeta'[w] = bucketMeta[w]
    BY <2>1, <2>2
  <2>4. SUFFICES ASSUME NEW w \in DOMAIN bucketMeta'
        PROVE  /\ w < nextW'
               /\ bucketMeta'[w] + stream[w] <= offset'
               /\ \A v \in DOMAIN bucketMeta' : v < w => bucketMeta'[v] + stream[v] <= bucketMeta'[w]
               /\ \/ [buf |-> sendBuf, w |-> w, off |-> bucketMeta'[w]] \in copies'
                  \/ \A i \in Span(bucketMeta'[w], w) : sbuf[sendBuf][i] = <<sync, w>>
    BY <2>1, ZenonT(60) DEF Layout, Span
  <2>5. CASE w = nextW
    <3>1. w < nextW' /\ bucketMeta'[w] + stream[w] <= offset'
      BY <2>1, <2>3, <2>5
    <3>2. \A v \in DOMAIN bucketMeta' : v < w => bucketMeta'[v] + stream[v] <= bucketMeta'[w]
      <4>1. \A v \in DOMAIN bucketMeta : bucketMeta[v] + stream[v] <= offset
        BY DEF Layout
      <4>2. \A v \in DOMAIN bucketMeta' : v < w => v \in DOMAIN bucketMeta
        BY <2>1, <2>3, <2>5
      <4> QED
        BY <2>3, <2>5, <4>1, <4>2
    <3>3. [buf |-> sendBuf, w |-> w, off |-> bucketMeta'[w]] \in copies'
      BY <2>1, <2>3, <2>5
    <3> QED
      BY <3>1, <3>2, <3>3
  <2>6. CASE w \in DOMAIN bucketMeta
    <3>1. /\ bucketMeta[w] + stream[w] <= offset
          /\ \A v \in DOMAIN bucketMeta : v < w => bucketMeta[v] + stream[v] <= bucketMeta[w]
          /\ \/ [buf |-> sendBuf, w |-> w, off |-> bucketMeta[w]] \in copies
             \/ \A i \in Span(bucketMeta[w], w) : sbuf[sendBuf][i] = <<sync, w>>
      BY <2>6, Zenon DEF Layout
    <3>2. w < nextW /\ w \in Nat /\ bucketMeta[w] \in Nat /\ stream[w] \in Nat /\ offset \in Nat
      BY <2>2, <2>6
    <3> HIDE <1>2, SenderFacts DEF IInv, Pack
    <3>3. bucketMeta'[w] = bucketMeta[w]
      BY <2>3, <2>6
    <3>4. nextW \in Nat
      BY <2>1 DEF Weights
    <3>a. /\ bucketMeta[w] + stream[w] <= offset
          /\ offset' = offset + stream[nextW] /\ nextW' = nextW + 1 /\ stream[nextW] \in Nat
      BY <2>1, <3>1, Zenon
    <3>5. w < nextW' /\ bucketMeta'[w] + stream[w] <= offset'
      BY <3>2, <3>3, <3>4, <3>a
    <3>6. \A v \in DOMAIN bucketMeta' : v < w => bucketMeta'[v] + stream[v] <= bucketMeta'[w]
      <4> SUFFICES ASSUME NEW v \in DOMAIN bucketMeta', v < w
                   PROVE  bucketMeta'[v] + stream[v] <= bucketMeta'[w]
        OBVIOUS
      <4>1. v # nextW
        BY <3>2, <3>4
      <4>2. v \in DOMAIN bucketMeta
        BY <2>3, <4>1
      <4> QED
        BY <2>3, <3>1, <3>3, <4>2
    <3>7. \/ [buf |-> sendBuf, w |-> w, off |-> bucketMeta'[w]] \in copies'
          \/ \A i \in Span(bucketMeta'[w], w) : sbuf[sendBuf][i] = <<sync, w>>
      BY <2>1, <3>1, <3>3, Zenon
    <3> QED
      BY <3>5, <3>6, <3>7
  <2> QED
    BY <2>3, <2>5, <2>6
<1>3. CASE Synchronize
  BY <1>3 DEF Synchronize, Layout, Span
<1>4. CASE BroadcastFull
  BY <1>4 DEF BroadcastFull, Layout, NoMeta
<1>5. CASE BroadcastLast \/ SendDone \/ GeneratorRaises
  BY <1>5 DEF BroadcastLast, SendDone, GeneratorRaises
<1>6. ASSUME NEW c \in copies, CopyIn(c) PROVE Layout'
  <2> USE <1>6 DEF CopyIn
  <2>1. /\ spc = "pack" /\ c.buf = sendBuf /\ c.w \in DOMAIN bucketMeta /\ c.off = bucketMeta[c.w]
    BY DEF PendingCopies, senderVars
  <2>2. /\ bucketMeta' = bucketMeta /\ offset' = offset /\ nextW' = nextW /\ sendBuf' = sendBuf
        /\ stream' = stream /\ sync' = sync
    BY DEF senderVars
  <2>3. \A i \in Bytes : sbuf'[sendBuf][i] =
          IF i \in Span(c.off, c.w) THEN <<sync, c.w>> ELSE sbuf[sendBuf][i]
    BY <2>1 DEF TypeOK, Buckets
  <2>t. /\ \A w \in DOMAIN bucketMeta : w \in Nat /\ bucketMeta[w] \in Nat /\ stream[w] \in Nat
        /\ offset \in Nat /\ offset <= BucketSize
    OBVIOUS
  <2>l. \A w \in DOMAIN bucketMeta :
          /\ bucketMeta[w] + stream[w] <= offset
          /\ \A v \in DOMAIN bucketMeta : v < w => bucketMeta[v] + stream[v] <= bucketMeta[w]
    BY <2>1 DEF Layout
  <2>4. \A w \in DOMAIN bucketMeta : Span(bucketMeta[w], w) \subseteq Bytes
    <3> SUFFICES ASSUME NEW w \in DOMAIN bucketMeta PROVE Span(bucketMeta[w], w) \subseteq Bytes
      OBVIOUS
    <3> HIDE <1>6, SenderFacts DEF IInv
    <3>1. bucketMeta[w] + stream[w] <= BucketSize
      BY <2>t, <2>l
    <3> QED
      BY <2>t, <3>1, IntervalInside DEF Span, Bytes
  <2>5. \A w \in DOMAIN bucketMeta : w # c.w => Span(bucketMeta[w], w) \cap Span(c.off, c.w) = {}
    <3> SUFFICES ASSUME NEW w \in DOMAIN bucketMeta, w # c.w
                 PROVE  Span(bucketMeta[w], w) \cap Span(c.off, c.w) = {}
      OBVIOUS
    <3> HIDE <1>6, SenderFacts DEF IInv
    <3>1. /\ w \in Nat /\ c.w \in Nat /\ bucketMeta[w] \in Nat /\ c.off \in Nat
          /\ stream[w] \in Nat /\ stream[c.w] \in Nat
      BY <2>1, <2>t
    <3>2. w < c.w \/ c.w < w
      BY <3>1
    <3>3. bucketMeta[w] + stream[w] <= c.off \/ c.off + stream[c.w] <= bucketMeta[w]
      BY <2>1, <2>l, <3>2
    <3> QED
      BY <3>1, <3>3, DisjointIntervals DEF Span
  <2>6. \A w \in DOMAIN bucketMeta :
            \/ [buf |-> sendBuf, w |-> w, off |-> bucketMeta[w]] \in copies'
            \/ \A i \in Span(bucketMeta[w], w) : sbuf'[sendBuf][i] = <<sync, w>>
    <3> SUFFICES ASSUME NEW w \in DOMAIN bucketMeta
                 PROVE \/ [buf |-> sendBuf, w |-> w, off |-> bucketMeta[w]] \in copies'
                       \/ \A i \in Span(bucketMeta[w], w) : sbuf'[sendBuf][i] = <<sync, w>>
      OBVIOUS
    <3> HIDE SenderFacts DEF IInv
    <3>1. CASE w = c.w
      BY <2>1, <2>3, <2>4, <3>1
    <3>2. CASE w # c.w
      <4>1. CASE [buf |-> sendBuf, w |-> w, off |-> bucketMeta[w]] \in copies
        BY <3>2, <4>1
      <4>2. CASE \A i \in Span(bucketMeta[w], w) : sbuf[sendBuf][i] = <<sync, w>>
        BY <2>3, <2>4, <2>5, <3>2, <4>2
      <4> QED
        BY <2>1, <4>1, <4>2 DEF Layout, IInv
    <3> QED
      BY <3>1, <3>2
  <2>7. \A w \in DOMAIN bucketMeta :
          /\ w < nextW
          /\ bucketMeta[w] + stream[w] <= offset
          /\ \A v \in DOMAIN bucketMeta : v < w => bucketMeta[v] + stream[v] <= bucketMeta[w]
    BY <2>1 DEF Layout
  <2> HIDE <1>6
  <2> QED
    BY <2>2, <2>6, <2>7, Zenon DEF Layout, Span
<1>7. CASE UNCHANGED <<spc, nextW, sendBuf, offset, bucketMeta, copies, sbuf, sync, stream>>
  BY <1>7 DEF Layout, Span
<1>8. CASE Publish \/ LeaveBroadcast
  BY <1>7, <1>8 DEF Publish, LeaveBroadcast, senderVars
<1>9. ASSUME NEW r \in Receivers, Receiver(r) PROVE Layout'
  BY <1>7, <1>9 DEF Receiver, StartReceive, FirstBucket, LoopHead, Yield, NextBucket, ReceiveDone,
     TakeMeta, Deliver, CopyOut, Swap, senderVars
<1>10. CASE UNCHANGED vars
  BY <1>7, <1>10 DEF vars, senderVars
<1> QED
  BY <1>1, <1>2, <1>3, <1>4, <1>5, <1>6, <1>8, <1>9, <1>10 DEF Next, Sender

LEMMA PendingCopiesStep == IInv /\ [Next]_vars => PendingCopies'
<1> SUFFICES ASSUME IInv, [Next]_vars PROVE PendingCopies'
  OBVIOUS
<1>0. /\ TypeOK /\ PendingCopies /\ SenderFacts!2
      /\ \A c \in copies : spc \in {"pack", "failed"} /\ c.buf = sendBuf
  BY SenderFacts DEF IInv, PendingCopies
<1>1. CASE StartSync
  BY <1>0, <1>1 DEF StartSync, PendingCopies
<1>2. CASE Pack
  <2> DEFINE new == [buf |-> sendBuf, w |-> nextW, off |-> offset]
  <2>1. /\ spc = "pack" /\ spc' = "pack" /\ copies' = copies \cup {new} /\ sendBuf' = sendBuf
        /\ DOMAIN bucketMeta' = DOMAIN bucketMeta \cup {nextW}
        /\ bucketMeta'[nextW] = offset
        /\ \A w \in DOMAIN bucketMeta : w # nextW => bucketMeta'[w] = bucketMeta[w]
    BY <1>2 DEF Pack
  <2>2. \A w \in DOMAIN bucketMeta : w < nextW
    BY <2>1 DEF IInv, Layout
  <2>3. nextW \notin DOMAIN bucketMeta
    BY <1>0, <2>2
  <2> QED
    BY <1>0, <2>1, <2>3 DEF PendingCopies
<1>3. CASE Synchronize \/ BroadcastFull \/ BroadcastLast \/ SendDone \/ GeneratorRaises
  BY <1>0, <1>3 DEF Synchronize, Synchronized, BroadcastFull, BroadcastLast, Broadcast, SendDone,
     GeneratorRaises, PendingCopies
<1>4. ASSUME NEW c \in copies, CopyIn(c) PROVE PendingCopies'
  BY <1>0, <1>4 DEF CopyIn, PendingCopies, senderVars
<1>5. CASE UNCHANGED <<spc, sendBuf, bucketMeta, copies>>
  BY <1>0, <1>5 DEF PendingCopies
<1>6. CASE Publish \/ LeaveBroadcast \/ UNCHANGED vars
  BY <1>5, <1>6 DEF Publish, LeaveBroadcast, vars, senderVars
<1>7. ASSUME NEW r \in Receivers, Receiver(r) PROVE PendingCopies'
  BY <1>5, <1>7 DEF Receiver, StartReceive, FirstBucket, LoopHead, Yield, NextBucket, ReceiveDone,
     TakeMeta, Deliver, CopyOut, Swap, senderVars
<1> QED
  BY <1>1, <1>2, <1>3, <1>4, <1>6, <1>7 DEF Next, Sender

LEMMA SenderOpStep == IInv /\ [Next]_vars => SenderOp'
<1> SUFFICES ASSUME IInv, [Next]_vars PROVE SenderOp'
  OBVIOUS
<1>0. TypeOK /\ SenderOp /\ PendingCopies /\ SenderFacts!2
  BY SenderFacts DEF IInv
<1>b. \A b \in Bufs : Other(Other(b)) = b /\ Other(b) # b
  BY DEF Bufs, Other
<1>1. CASE StartSync
  BY <1>1 DEF StartSync, SenderOp, NoOp, Op
<1>2. CASE Pack \/ Synchronize \/ SendDone \/ GeneratorRaises
  <2>1. UNCHANGED <<sop, sbuf, sync, stream, sendBuf, reached>>
    BY <1>2 DEF Pack, Synchronize, SendDone, GeneratorRaises
  <2>2. /\ spc' = "idle" => sop.st = "done"
        /\ spc' \in {"pack", "await", "failed"} => spc \in {"pack", "await", "failed"}
    BY <1>2 DEF Pack, Synchronize, SendDone, GeneratorRaises
  <2> QED
    BY <1>0, <2>1, <2>2 DEF SenderOp, Filled, Span
<1>3. ASSUME NEW l \in BOOLEAN, Broadcast(l)
      PROVE  /\ sop'.st = "publish" /\ sop'.buf = sendBuf /\ reached' = {}
             /\ Filled(sbuf[sop.buf], sop.msg.meta)'
  <2>1. copies = {} /\ spc = "await"
    BY <1>0, <1>3 DEF Broadcast, PendingCopies
  <2>2. Filled(sbuf[sendBuf], bucketMeta)
    BY <2>1 DEF IInv, Layout, Filled
  <2>3. /\ sop'.buf = sendBuf /\ sop'.msg.meta = bucketMeta /\ sop'.st = "publish" /\ reached' = {}
        /\ UNCHANGED <<sbuf, sync, stream>>
    BY <1>3 DEF Broadcast, Op
  <2> QED
    BY <2>2, <2>3 DEF Filled, Span
<1>4. CASE BroadcastFull
  BY <1>0, <1>b, <1>3, <1>4 DEF BroadcastFull, SenderOp
<1>5. CASE BroadcastLast
  BY <1>3, <1>5 DEF BroadcastLast, SenderOp
<1>6. ASSUME NEW c \in copies, CopyIn(c) PROVE SenderOp'
  <2>1. spc \in {"pack", "failed"} /\ c.buf = sendBuf
    BY <1>0, <1>6 DEF PendingCopies
  <2>2. UNCHANGED <<sop, sync, stream, sendBuf, reached, spc>>
    BY <1>6 DEF CopyIn, senderVars
  <2>3. sop.st # "none" => sbuf'[sop.buf] = sbuf[sop.buf]
    BY <1>0, <1>6, <1>b, <2>1 DEF CopyIn, SenderOp, TypeOK, Buckets
  <2> QED
    BY <1>0, <2>1, <2>2, <2>3 DEF SenderOp, Filled, Span
<1>7. CASE Publish \/ LeaveBroadcast
  <2>1. /\ UNCHANGED <<sync, stream, sbuf, spc, sendBuf>>
        /\ sop'.buf = sop.buf /\ sop'.msg = sop.msg
        /\ \/ sop.st = "publish" /\ sop'.st = "xfer"
           \/ sop.st = "xfer" /\ sop'.st = "done"
    BY <1>7 DEF Publish, LeaveBroadcast, Op, senderVars
  <2> QED
    BY <1>0, <2>1 DEF SenderOp, Filled, Span
<1>8. CASE UNCHANGED <<spc, sendBuf, sop, sbuf, sync, stream, reached>>
  BY <1>0, <1>8 DEF SenderOp, Filled, Span
<1>9. ASSUME NEW r \in Receivers, Deliver(r) PROVE SenderOp'
  <2>1. UNCHANGED <<spc, sendBuf, sop, sbuf, sync, stream>> /\ sop.st = "xfer"
    BY <1>9 DEF Deliver, senderVars
  <2> QED
    BY <1>0, <2>1 DEF SenderOp, Filled, Span
<1>10. ASSUME NEW r \in Receivers, Receiver(r) PROVE SenderOp'
  BY <1>8, <1>9, <1>10 DEF Receiver, StartReceive, FirstBucket, LoopHead, Yield, NextBucket, ReceiveDone,
     TakeMeta, CopyOut, Swap, senderVars
<1>11. CASE UNCHANGED vars
  BY <1>8, <1>11 DEF vars, senderVars
<1> QED
  BY <1>1, <1>2, <1>4, <1>5, <1>6, <1>7, <1>10, <1>11 DEF Next, Sender

-----------------------------------------------------------------------------
(* The receivers.  A step of one receiver, or of rank 0, leaves the other  *)
(* receivers' share of the state alone.                                    *)
ReceiverState(r) ==
  <<rpc[r], recvBuf[r], metadata[r], yielded[r], reads[r], rbuf[r], rop[r], inbox[r], torn[r]>>

LEMMA ReceiverFacts ==
  TypeOK => \A r \in Receivers :
    /\ recvBuf[r] \in Bufs /\ rop[r].buf \in Bufs
    /\ metadata[r].last \in BOOLEAN
    /\ rop[r] = Op(rop[r].buf, rop[r].msg, rop[r].st)
BY DEF TypeOK, Ops, Op, Messages

LEMMA OthersUnchanged ==
  ASSUME TypeOK, NEW r \in Receivers, Receiver(r), NEW q \in Receivers, q # r
  PROVE  ReceiverState(q)' = ReceiverState(q)
<1> USE DEF TypeOK, ReceiverState, receiverVars, consumerVars
<1>1. CASE StartReceive(r)
  BY <1>1 DEF StartReceive, Receive
<1>2. CASE Swap(r)
  BY <1>2 DEF Swap
<1>3. CASE LoopHead(r)
  BY <1>3 DEF LoopHead, Receive
<1>4. CASE Yield(r)
  BY <1>4 DEF Yield
<1>5. CASE ReceiveDone(r)
  BY <1>5 DEF ReceiveDone
<1>6. CASE TakeMeta(r)
  BY <1>6 DEF TakeMeta
<1>7. CASE Deliver(r)
  BY <1>7 DEF Deliver
<1>8. ASSUME NEW c \in reads[r], CopyOut(r, c) PROVE ReceiverState(q)' = ReceiverState(q)
  BY <1>8 DEF CopyOut
<1> QED
  BY <1>1, <1>2, <1>3, <1>4, <1>5, <1>6, <1>7, <1>8 DEF Receiver, FirstBucket, NextBucket

LEMMA MessagingStep ==
  ASSUME IInv, [Next]_vars, NEW q \in Receivers
  PROVE  Messaging(q)'
<1>0. TypeOK /\ SenderOp /\ Messaging(q) /\ Position(q)
  BY DEF IInv
<1>1. CASE StartSync
  <2>1. ~Owed(q)
    BY <1>0, <1>1 DEF StartSync, SenderOp, Owed
  <2> QED
    BY <1>0, <1>1, <2>1 DEF StartSync, Messaging, Owed, NoOp, Op
<1>2. CASE BroadcastFull \/ BroadcastLast
  <2>1. sop.st # "xfer" /\ sop'.st # "xfer" /\ UNCHANGED <<inbox, rop>>
    BY <1>2 DEF BroadcastFull, BroadcastLast, Broadcast, PreviousComplete, Op
  <2> QED
    BY <1>0, <2>1 DEF Messaging, Owed
<1>3. CASE Publish
  <2>1. /\ ~Owed(q) /\ Owed(q)' /\ sop'.msg = sop.msg /\ rop' = rop
        /\ inbox'[q] = Append(inbox[q], sop.msg)
    BY <1>0, <1>3 DEF Publish, SenderOp, Owed, Op
  <2>2. inbox[q] = << >> /\ rop[q].st # "xfer"
    BY <1>0, <2>1 DEF Messaging
  <2>3. inbox'[q] = <<sop.msg>>
    BY <2>1, <2>2
  <2> QED
    BY <2>1, <2>2, <2>3 DEF Messaging
<1>4. CASE LeaveBroadcast
  BY <1>0, <1>4 DEF LeaveBroadcast, Messaging, Owed, Op
<1>5. CASE UNCHANGED <<sop, reached, inbox, rop>>
  BY <1>0, <1>5 DEF Messaging, Owed
<1>6. CASE Pack \/ Synchronize \/ SendDone \/ GeneratorRaises \/ UNCHANGED vars
  BY <1>5, <1>6 DEF Pack, Synchronize, SendDone, GeneratorRaises, vars
<1>7. ASSUME NEW c \in copies, CopyIn(c) PROVE Messaging(q)'
  BY <1>5, <1>7 DEF CopyIn
<1>8. ASSUME Receiver(q) PROVE Messaging(q)'
  <2>1. ASSUME UNCHANGED <<sop, reached, inbox>>, rop[q].st # "xfer", rop'[q].st # "xfer"
        PROVE  Messaging(q)'
    BY <1>0, <2>1 DEF Messaging, Owed
  <2>2. CASE StartReceive(q)
    BY <1>0, <2>1, <2>2 DEF StartReceive, Receive, Op, TypeOK, Position
  <2>3. CASE LoopHead(q)
    BY <1>0, <2>1, <2>3 DEF LoopHead, Receive, Op, TypeOK, Position
  <2>4. CASE TakeMeta(q)
    <3>1. Owed(q) /\ inbox[q] = <<sop.msg>>
      BY <1>0, <2>4 DEF TakeMeta, Messaging
    <3>2. Head(inbox[q]) = sop.msg /\ Tail(inbox[q]) = << >>
      BY <3>1
    <3>3. inbox'[q] = << >> /\ rop'[q].st = "xfer" /\ rop'[q].msg = sop.msg /\ UNCHANGED <<sop, reached>>
      BY <1>0, <2>4, <3>2 DEF TakeMeta, Op, TypeOK
    <3> QED
      BY <3>1, <3>3 DEF Messaging, Owed
  <2>5. CASE Deliver(q)
    <3>1. ~Owed(q)' /\ rop'[q].st = "done" /\ inbox' = inbox
      BY <1>0, <2>5 DEF Deliver, Owed, Op, TypeOK
    <3>2. inbox[q] = << >>
      BY <1>0, <2>5 DEF Deliver, Owed, Messaging
    <3> QED
      BY <3>1, <3>2 DEF Messaging
  <2>6. CASE Swap(q) \/ Yield(q) \/ ReceiveDone(q) \/ \E c \in reads[q] : CopyOut(q, c)
    BY <1>5, <2>6 DEF Swap, Yield, ReceiveDone, CopyOut
  <2> QED
    BY <1>8, <2>2, <2>3, <2>4, <2>5, <2>6 DEF Receiver, FirstBucket, NextBucket
<1>9. ASSUME NEW r \in Receivers, Receiver(r), r # q PROVE Messaging(q)'
  <2>1. rop'[q] = rop[q] /\ inbox'[q] = inbox[q]
    BY <1>0, <1>9, OthersUnchanged DEF ReceiverState
  <2>2. sop' = sop /\ (q \in reached' <=> q \in reached)
    BY <1>9 DEF Receiver, StartReceive, FirstBucket, LoopHead, Yield, NextBucket, ReceiveDone,
       TakeMeta, Deliver, CopyOut, Swap
  <2> QED
    BY <1>0, <2>1, <2>2 DEF Messaging, Owed
<1> QED
  BY <1>1, <1>2, <1>3, <1>4, <1>6, <1>7, <1>8, <1>9 DEF Next, Sender

(* What rank 0 does, and what another receiver does, leaves the position   *)
(* and the pending reads of receiver q as they are.                        *)
LEMMA Frame ==
  ASSUME IInv, [Next]_vars, NEW q \in Receivers, ~Receiver(q), ~StartSync
  PROVE  /\ UNCHANGED <<sync, stream>>
         /\ UNCHANGED <<rpc[q], recvBuf[q], metadata[q], yielded[q], reads[q], rbuf[q], rop[q], torn[q]>>
<1>0. TypeOK
  BY DEF IInv
<1>1. CASE UNCHANGED <<sync, stream, receiverVars, rbuf, rop, torn>>
  BY <1>1 DEF ReceiverState, receiverVars
<1>2. CASE Pack \/ Synchronize \/ BroadcastFull \/ BroadcastLast \/ SendDone \/ GeneratorRaises
  BY <1>1, <1>2 DEF Pack, Synchronize, BroadcastFull, BroadcastLast, Broadcast, SendDone, GeneratorRaises,
     receiverVars, consumerVars
<1>3. CASE Publish \/ LeaveBroadcast \/ (\E c \in copies : CopyIn(c)) \/ UNCHANGED vars
  BY <1>1, <1>3 DEF Publish, LeaveBroadcast, CopyIn, vars, receiverVars, consumerVars
<1>4. ASSUME NEW r \in Receivers, Receiver(r) PROVE UNCHANGED <<sync, stream>>
  BY <1>4 DEF Receiver, StartReceive, FirstBucket, LoopHead, Yield, NextBucket, ReceiveDone,
     TakeMeta, Deliver, CopyOut, Swap
<1>5. ASSUME NEW r \in Receivers, Receiver(r)
      PROVE UNCHANGED <<rpc[q], recvBuf[q], metadata[q], yielded[q], reads[q], rbuf[q], rop[q], torn[q]>>
  <2>1. r # q
    BY <1>5
  <2>2. ReceiverState(q)' = ReceiverState(q)
    BY <1>0, <1>5, <2>1, OthersUnchanged
  <2> QED
    BY <2>2 DEF ReceiverState
<1> QED
  BY <1>2, <1>3, <1>4, <1>5 DEF Next, Sender, ReceiverState

LEMMA PositionStep ==
  ASSUME IInv, [Next]_vars, NEW q \in Receivers
  PROVE  Position(q)'
<1>0. TypeOK /\ SenderOp /\ Messaging(q) /\ Position(q) /\ PendingReads(q) /\ ReceiverFacts!2
  BY ReceiverFacts DEF IInv
<1>b. \A b \in Bufs : Other(b) \in Bufs /\ Other(Other(b)) = b /\ Other(b) # b
  BY DEF Bufs, Other
<1>1. CASE StartSync
  BY <1>1 DEF StartSync, Position, NoOp, Op
<1>2. ASSUME Receiver(q) PROVE Position(q)'
  <2>0. sync' = sync /\ stream' = stream
    BY <1>2 DEF Receiver, StartReceive, FirstBucket, LoopHead, Yield, NextBucket, ReceiveDone,
       TakeMeta, Deliver, CopyOut, Swap
  <2>1. CASE StartReceive(q)
    BY <1>0, <2>1 DEF StartReceive, Receive, Op, TypeOK, Position, Receiving
  <2>2. ASSUME Swap(q), Receiving(q) PROVE Position(q)'
    <3>1. /\ rpc'[q] = "head" /\ rop' = rop /\ rop[q].st = "done" /\ rbuf' = rbuf
          /\ metadata'[q] = rop[q].msg /\ recvBuf'[q] = Other(recvBuf[q])
      BY <1>0, <2>2 DEF Swap, TypeOK
    <3>2. Filled(rbuf[q][recvBuf[q]], rop[q].msg.meta) /\ Other(Other(recvBuf[q])) = recvBuf[q]
      BY <1>0, <1>b, <2>2, <3>1 DEF Receiving
    <3>3. HandingOut(q)'
      BY <2>0, <3>1, <3>2 DEF HandingOut, Filled, Span
    <3> QED
      BY <3>1, <3>3 DEF Position
  <2>3. CASE FirstBucket(q)
    BY <1>0, <2>2, <2>3 DEF FirstBucket, Position
  <2>4. CASE NextBucket(q)
    BY <1>0, <2>2, <2>4 DEF NextBucket, Position
  <2>5. CASE LoopHead(q)
    <3>1. /\ rpc[q] = "head" /\ rpc'[q] = "yield" /\ UNCHANGED <<recvBuf, metadata, rbuf>>
          /\ HandingOut(q) /\ rop[q].st = "done"
      BY <1>0, <2>5 DEF LoopHead, TypeOK, Position
    <3>2. HandingOut(q)'
      BY <2>0, <3>1 DEF HandingOut, Filled, Span
    <3>3. CASE metadata[q].last
      BY <2>5, <3>1, <3>2, <3>3 DEF LoopHead, Position
    <3>4. CASE ~metadata[q].last
      <4>1. rop'[q].st = "recv" /\ rop'[q].buf = recvBuf[q]
        BY <1>0, <2>5, <3>4 DEF LoopHead, Receive, Op, TypeOK
      <4> QED
        BY <3>1, <3>2, <3>4, <4>1 DEF Position, Receiving
    <3> QED
      BY <3>3, <3>4
  <2>6. CASE Yield(q) \/ \E c \in reads[q] : CopyOut(q, c)
    <3>1. UNCHANGED <<rpc, recvBuf, metadata, rbuf, rop>>
      BY <2>6 DEF Yield, CopyOut
    <3> QED
      BY <1>0, <2>0, <3>1 DEF Position, Receiving, HandingOut, Filled, Span
  <2>7. CASE ReceiveDone(q)
    BY <1>0, <2>7 DEF ReceiveDone, TypeOK, Position
  <2>8. CASE TakeMeta(q)
    <3>1. /\ rop[q].st = "recv" /\ rop'[q].st = "xfer" /\ rop'[q].buf = rop[q].buf
          /\ UNCHANGED <<rpc, recvBuf, metadata, rbuf>>
      BY <1>0, <2>8 DEF TakeMeta, Op, TypeOK, receiverVars
    <3> QED
      BY <1>0, <2>0, <3>1 DEF Position, Receiving, HandingOut, Filled, Span
  <2>9. CASE Deliver(q)
    <3>1. /\ rop[q].st = "xfer" /\ rop'[q].st = "done" /\ rop'[q].buf = rop[q].buf
          /\ rop'[q].msg = rop[q].msg /\ UNCHANGED <<rpc, recvBuf, metadata>>
          /\ rbuf'[q] = [rbuf[q] EXCEPT ![rop[q].buf] = sbuf[sop.buf]]
      BY <1>0, <2>9 DEF Deliver, Op, TypeOK, receiverVars
    <3>2. Filled(sbuf[sop.buf], sop.msg.meta) /\ rop[q].msg = sop.msg
      BY <1>0, <2>9 DEF Deliver, SenderOp, Messaging, Owed
    <3>3. rpc[q] \in {"first", "yield"} /\ Receiving(q) /\ (rpc[q] = "yield" => HandingOut(q) /\ ~metadata[q].last)
      BY <1>0, <3>1 DEF Position, TypeOK
    <3>4. /\ rbuf'[q][rop[q].buf] = sbuf[sop.buf]
          /\ rbuf'[q][Other(recvBuf[q])] = rbuf[q][Other(recvBuf[q])]
      BY <1>0, <1>b, <3>1, <3>3 DEF TypeOK, Buckets, Receiving
    <3>5. Receiving(q)'
      BY <2>0, <3>1, <3>2, <3>3, <3>4 DEF Receiving, Filled, Span
    <3>6. rpc[q] = "yield" => HandingOut(q)'
      BY <2>0, <3>1, <3>3, <3>4 DEF HandingOut, Filled, Span
    <3> QED
      BY <3>1, <3>3, <3>5, <3>6 DEF Position
  <2> QED
    BY <1>2, <2>1, <2>3, <2>4, <2>5, <2>6, <2>7, <2>8, <2>9 DEF Receiver
<1>3. CASE ~Receiver(q) /\ ~StartSync
  <2>1. UNCHANGED <<sync, stream, rpc[q], recvBuf[q], metadata[q], rbuf[q], rop[q]>>
    BY <1>3, Frame
  <2> QED
    BY <1>0, <2>1 DEF Position, Receiving, HandingOut, Filled, Span
<1> QED
  BY <1>1, <1>2, <1>3

LEMMA PendingReadsStep ==
  ASSUME IInv, [Next]_vars, NEW q \in Receivers
  PROVE  PendingReads(q)'
<1>0. TypeOK /\ PendingReads(q) /\ Position(q)
  BY DEF IInv
<1>1. CASE StartSync
  BY <1>0, <1>1 DEF StartSync, PendingReads
<1>2. ASSUME Receiver(q) PROVE PendingReads(q)'
  <2>1. CASE StartReceive(q) \/ FirstBucket(q) \/ LoopHead(q)
    BY <1>0, <2>1 DEF StartReceive, FirstBucket, Swap, LoopHead, PendingReads
  <2>2. CASE NextBucket(q) \/ ReceiveDone(q)
    BY <1>0, <2>2 DEF NextBucket, Swap, ReceiveDone, Synchronized, PendingReads
  <2>3. CASE Yield(q)
    <3>1. PICK w \in Remaining(q) :
            reads' = [reads EXCEPT ![q] = @ \cup
              {[buf |-> Other(recvBuf[q]), w |-> w, off |-> metadata[q].meta[w]]}]
      BY <2>3 DEF Yield
    <3>2. /\ reads'[q] = reads[q] \cup {[buf |-> Other(recvBuf[q]), w |-> w, off |-> metadata[q].meta[w]]}
          /\ w \in DOMAIN metadata[q].meta
          /\ UNCHANGED <<rpc, recvBuf, metadata>> /\ rpc[q] = "yield"
      BY <1>0, <2>3, <3>1 DEF Yield, TypeOK, Remaining
    <3> QED
      BY <1>0, <3>2 DEF PendingReads
  <2>4. ASSUME NEW c \in reads[q], CopyOut(q, c) PROVE PendingReads(q)'
    BY <1>0, <2>4 DEF CopyOut, PendingReads, TypeOK
  <2>5. CASE TakeMeta(q) \/ Deliver(q)
    BY <1>0, <2>5 DEF TakeMeta, Deliver, PendingReads, receiverVars
  <2> QED
    BY <1>2, <2>1, <2>2, <2>3, <2>4, <2>5 DEF Receiver
<1>3. CASE ~Receiver(q) /\ ~StartSync
  BY <1>0, <1>3, Frame DEF PendingReads
<1> QED
  BY <1>1, <1>2, <1>3

LEMMA NoTornReadStep ==
  ASSUME IInv, [Next]_vars, NEW q \in Receivers
  PROVE  torn'[q] = {}
<1>0. TypeOK /\ PendingReads(q) /\ Position(q) /\ ReceiverFacts!2 /\ torn[q] = {}
  BY ReceiverFacts DEF IInv, NoTornRead
<1>1. CASE StartSync
  BY <1>1 DEF StartSync
<1>2. ASSUME Receiver(q) PROVE torn'[q] = {}
  <2>1. ASSUME NEW c \in reads[q], CopyOut(q, c) PROVE torn'[q] = {}
    <3>1. /\ rpc[q] = "yield" /\ c.buf = Other(recvBuf[q]) /\ c.w \in DOMAIN metadata[q].meta
          /\ c.off = metadata[q].meta[c.w] /\ HandingOut(q)
      BY <1>0 DEF PendingReads, Position
    <3>2. \A i \in Span(c.off, c.w) : rbuf[q][c.buf][i] = <<sync, c.w>>
      BY <3>1 DEF HandingOut, Filled
    <3>3. ~(rop[q].st = "xfer" /\ rop[q].buf = c.buf)
      <4>1. rop[q].st = "xfer" => rop[q].buf = recvBuf[q]
        BY <1>0, <3>1 DEF Position, Receiving
      <4>2. Other(recvBuf[q]) # recvBuf[q]
        BY <1>0 DEF Other, Bufs
      <4> QED
        BY <3>1, <4>1, <4>2
    <3>4. Intact(q, c)
      BY <3>2, <3>3 DEF Intact
    <3> QED
      BY <1>0, <2>1, <3>4 DEF CopyOut
  <2> QED
    BY <1>0, <1>2, <2>1 DEF Receiver, StartReceive, FirstBucket, LoopHead, Yield, NextBucket, ReceiveDone,
       TakeMeta, Deliver, Swap, consumerVars
<1>3. CASE ~Receiver(q) /\ ~StartSync
  BY <1>0, <1>3, Frame
<1> QED
  BY <1>1, <1>2, <1>3

LEMMA Inductive == IInv /\ [Next]_vars => IInv'
<1> SUFFICES ASSUME IInv, [Next]_vars PROVE IInv'
  OBVIOUS
<1>1. TypeOK' /\ Layout' /\ PendingCopies' /\ SenderOp'
  BY TypeStep, LayoutStep, PendingCopiesStep, SenderOpStep
<1>2. \A r \in Receivers : Messaging(r)' /\ Position(r)' /\ PendingReads(r)'
  BY MessagingStep, PositionStep, PendingReadsStep
<1>3. NoTornRead'
  BY NoTornReadStep DEF NoTornRead
<1> QED
  BY <1>1, <1>2, <1>3 DEF IInv

-----------------------------------------------------------------------------
LEMMA Invariance == Spec => []IInv
<1>1. Init => IInv
  BY InitInv
<1>2. IInv /\ [Next]_vars => IInv'
  BY Inductive
<1> QED
  BY <1>1, <1>2, PTL DEF Spec

(* Every reachable state is well typed; in particular no weight is ever    *)
(* packed beyond the end of a bucket (send_weights, the assert).           *)
THEOREM TypeCorrect == Spec => []TypeOK
<1>1. IInv => TypeOK
  BY DEF IInv
<1> QED
  BY <1>1, Invariance, PTL

(* No consumer copies out bytes that are stale, of another weight or still *)
(* being received: the double buffering of receive_weights is safe for     *)
(* every number of receivers, weight stream and bucket size.               *)
THEOREM NoTornReads == Spec => []NoTornRead
<1>1. IInv => NoTornRead
  BY DEF IInv
<1> QED
  BY <1>1, Invariance, PTL

(* Rank 0 never writes into the bucket it is broadcasting: the double      *)
(* buffering of send_weights.                                              *)
THEOREM SendBufferSafe == Spec => []InFlightUntouched
<1>1. IInv => InFlightUntouched
  <2> SUFFICES ASSUME IInv, sop.st \in {"publish", "xfer"}, NEW c \in copies
               PROVE  c.buf # sop.buf
    BY DEF InFlightUntouched
  <2>1. spc \in {"pack", "failed"} /\ c.buf = sendBuf /\ sendBuf \in Bufs
    BY DEF IInv, PendingCopies, TypeOK
  <2>2. sop.buf = Other(sendBuf)
    BY <2>1 DEF IInv, SenderOp
  <2> QED
    BY <2>1, <2>2 DEF Other, Bufs
<1> QED
  BY <1>1, Invariance, PTL

-----------------------------------------------------------------------------
(* That the broadcast delivers every weight: NcclCheckpoint implements     *)
(* WeightStream, and no receiver is left waiting when rank 0 reports       *)
(* success.  Above, what is copied out is intact; here every weight is     *)
(* followed from the generator to the consumer, and the end of the stream  *)
(* from rank 0 to every receiver.                                          *)


(* Rank 0 marks the last bucket, and only that one, as the last.           *)
Ending ==
  /\ spc \in {"pack", "await", "failed"} => ~sop.msg.last
  /\ (spc = "drain" \/ (spc = "idle" /\ sync > 0)) => sop.msg.last /\ sop.st # "none" /\ nextW \notin Weights
  /\ sop.st = "done" => reached = Receivers

(* A receiver has seen the end of the stream exactly when the broadcast of *)
(* the last bucket has reached it.                                         *)
SeenEnd(r) == rop[r].st = "done" /\ rop[r].msg.last
ReachedByEnd(r) == sop.st \in {"xfer", "done"} /\ sop.msg.last /\ r \in reached

Following(r) ==
  /\ rpc[r] # "idle" => sync > 0
  /\ rpc[r] = "start" => rop[r].st = "none"
  /\ rpc[r] = "head" \/ (rpc[r] = "yield" /\ metadata[r].last) => metadata[r] = rop[r].msg
  /\ SeenEnd(r) <=> ReachedByEnd(r)

(* Where a weight that a receiver does not hold yet can be.                *)
Unsent(w) == w >= nextW \/ (spc \in {"pack", "await"} /\ w \in DOMAIN bucketMeta)
InFlight(r, w) == (sop.st = "publish" \/ Owed(r)) /\ w \in DOMAIN sop.msg.meta
Received(r, w) ==
  /\ rpc[r] = "first" \/ (rpc[r] = "yield" /\ ~metadata[r].last)
  /\ rop[r].st = "done" /\ w \in DOMAIN rop[r].msg.meta
Handed(r, w) ==
  /\ rpc[r] \in {"head", "yield"}
  /\ w \in Remaining(r) \/ \E c \in reads[r] : c.w = w

(* No weight is ever lost on the way to a receiver that still takes them.  *)
Coverage(r) ==
  (spc # "failed" /\ rpc[r] # "idle") =>
    \A w \in Weights : w \in loaded[r] \/ Handed(r, w) \/ Received(r, w)
                       \/ InFlight(r, w) \/ Unsent(w)

DInv ==
  /\ IInv
  /\ Ending
  /\ \A r \in Receivers : Following(r) /\ Coverage(r)

-----------------------------------------------------------------------------
(* A receiver leaves rank 0 alone, and reaches nobody but itself.          *)
LEMMA ReceiverFrame ==
  ASSUME NEW r \in Receivers, Receiver(r)
  PROVE  /\ UNCHANGED <<sync, stream, spc, nextW, sendBuf, offset, bucketMeta, sop>>
         /\ reached' = reached \/ (Deliver(r) /\ reached' = reached \cup {r})
BY DEF Receiver, StartReceive, FirstBucket, LoopHead, Yield, NextBucket, ReceiveDone,
   TakeMeta, Deliver, CopyOut, Swap, senderVars

(* Another receiver's step does not concern receiver q.                    *)
LEMMA LoadedUnchanged ==
  ASSUME TypeOK, NEW r \in Receivers, Receiver(r), NEW q \in Receivers, q # r
  PROVE  loaded'[q] = loaded[q]
<1>1. ASSUME NEW c \in reads[r], CopyOut(r, c) PROVE loaded'[q] = loaded[q]
  BY <1>1 DEF CopyOut, TypeOK
<1>2. CASE StartReceive(r) \/ FirstBucket(r) \/ LoopHead(r) \/ Yield(r) \/ NextBucket(r) \/ ReceiveDone(r)
  BY <1>2 DEF StartReceive, FirstBucket, LoopHead, Yield, NextBucket, ReceiveDone, Swap, consumerVars
<1>3. CASE TakeMeta(r) \/ Deliver(r)
  BY <1>3 DEF TakeMeta, Deliver, consumerVars
<1> QED
  BY <1>1, <1>2, <1>3 DEF Receiver

(* Rank 0 leaves the receivers alone.                                      *)
SenderStep ==
  \/ Pack \/ Synchronize \/ BroadcastFull \/ BroadcastLast \/ SendDone
  \/ Publish \/ LeaveBroadcast \/ GeneratorRaises
  \/ (\E c \in copies : CopyIn(c)) \/ UNCHANGED vars

LEMMA SenderFrame ==
  SenderStep => UNCHANGED <<sync, stream, rpc, recvBuf, metadata, yielded, reads, rop, loaded>>
<1>1. CASE Pack \/ Synchronize \/ SendDone \/ GeneratorRaises \/ UNCHANGED vars
  BY <1>1 DEF Pack, Synchronize, SendDone, GeneratorRaises, vars, receiverVars, consumerVars
<1>2. CASE BroadcastFull \/ BroadcastLast \/ Publish \/ LeaveBroadcast
  BY <1>2 DEF BroadcastFull, BroadcastLast, Broadcast, Publish, LeaveBroadcast, receiverVars, consumerVars
<1>3. ASSUME NEW c \in copies, CopyIn(c)
      PROVE  UNCHANGED <<sync, stream, rpc, recvBuf, metadata, yielded, reads, rop, loaded>>
  BY <1>3 DEF CopyIn, receiverVars, consumerVars
<1> QED
  BY <1>1, <1>2, <1>3 DEF SenderStep

LEMMA StepCases ==
  [Next]_vars => StartSync \/ SenderStep \/ \E r \in Receivers : Receiver(r)
BY DEF Next, Sender, SenderStep

LEMMA DInit == Init => DInv
<1> SUFFICES ASSUME Init PROVE DInv
  OBVIOUS
<1>1. IInv
  BY InitInv
<1>2. sop.st = "none" /\ ~sop.msg.last /\ sync = 0 /\ spc = "idle"
  BY DEF Init, NoOp, Op, NoMessage
<1>3. Ending
  BY <1>2 DEF Ending
<1>4. ASSUME NEW r \in Receivers PROVE Following(r) /\ Coverage(r)
  <2>1. rpc[r] = "idle" /\ rop[r].st = "none"
    BY DEF Init, NoOp, Op
  <2> QED
    BY <1>2, <2>1 DEF Following, Coverage, SeenEnd, ReachedByEnd
<1> QED
  BY <1>1, <1>3, <1>4 DEF DInv

LEMMA EndingStep == DInv /\ [Next]_vars => Ending'
<1> SUFFICES ASSUME DInv, [Next]_vars PROVE Ending'
  OBVIOUS
<1>0. TypeOK /\ Ending /\ SenderOp
  BY DEF DInv, IInv
<1>1. CASE StartSync
  BY <1>0, <1>1 DEF StartSync, Ending, NoOp, Op, NoMessage
<1>2. CASE Pack \/ Synchronize \/ GeneratorRaises
  BY <1>0, <1>2 DEF Pack, Synchronize, GeneratorRaises, Ending, Weights
<1>3. CASE BroadcastFull
  BY <1>0, <1>3 DEF BroadcastFull, Broadcast, Ending, Op
<1>4. CASE BroadcastLast
  BY <1>0, <1>4 DEF BroadcastLast, Broadcast, Ending, Op, Weights
<1>5. CASE SendDone
  BY <1>0, <1>5 DEF SendDone, Ending, Weights
<1>6. CASE Publish \/ LeaveBroadcast
  BY <1>0, <1>6 DEF Publish, LeaveBroadcast, Ending, Op, Weights, senderVars
<1>7. ASSUME NEW c \in copies, CopyIn(c) PROVE Ending'
  BY <1>0, <1>7 DEF CopyIn, Ending, Weights, senderVars
<1>8. CASE UNCHANGED vars
  BY <1>0, <1>8 DEF vars, Ending, Weights, senderVars
<1>9. ASSUME NEW r \in Receivers, Receiver(r) PROVE Ending'
  <2>1. reached \in SUBSET Receivers
    BY <1>0 DEF TypeOK
  <2>2. sop.st = "done" => reached' = Receivers
    BY <1>0, <1>9, <2>1, ReceiverFrame DEF Ending
  <2>3. UNCHANGED <<sync, stream, spc, nextW, sop>>
    BY <1>9, ReceiverFrame
  <2> QED
    BY <1>0, <2>2, <2>3 DEF Ending, Weights
<1> QED
  BY <1>1, <1>2, <1>3, <1>4, <1>5, <1>6, <1>7, <1>8, <1>9 DEF Next, Sender

LEMMA FollowingStep ==
  ASSUME DInv, [Next]_vars, NEW q \in Receivers
  PROVE  Following(q)'
<1>0. /\ TypeOK /\ SenderOp /\ Messaging(q) /\ Position(q) /\ Ending /\ Following(q)
      /\ rop[q] = Op(rop[q].buf, rop[q].msg, rop[q].st)
  BY ReceiverFacts DEF DInv, IInv
<1>1. CASE StartSync
  <2>1. rpc'[q] = "start" /\ rop'[q].st = "none" /\ sop'.st = "none" /\ sync' > 0
    BY <1>0, <1>1 DEF StartSync, NoOp, Op, TypeOK
  <2> QED
    BY <2>1 DEF Following, SeenEnd, ReachedByEnd
<1>2. CASE SenderStep
  <2>1. UNCHANGED <<sync, rpc, metadata, rop>>
    BY <1>2, SenderFrame
  <2>2. ReachedByEnd(q)' <=> ReachedByEnd(q)
    <3>1. CASE BroadcastFull \/ BroadcastLast
      <4>1. sop'.st = "publish" /\ ~sop.msg.last
        BY <1>0, <3>1 DEF BroadcastFull, BroadcastLast, Broadcast, Op, Ending
      <4> QED
        BY <4>1 DEF ReachedByEnd
    <3>2. CASE Publish
      BY <1>0, <3>2 DEF Publish, ReachedByEnd, SenderOp, Op
    <3>3. CASE LeaveBroadcast
      BY <1>0, <3>3 DEF LeaveBroadcast, ReachedByEnd, Op
    <3>4. CASE UNCHANGED <<sop, reached>>
      BY <3>4 DEF ReachedByEnd
    <3> QED
      BY <1>2, <3>1, <3>2, <3>3, <3>4 DEF SenderStep, Pack, Synchronize, SendDone, GeneratorRaises, CopyIn, vars
  <2> QED
    BY <1>0, <2>1, <2>2 DEF Following, SeenEnd
<1>3. ASSUME NEW r \in Receivers, Receiver(r), r # q PROVE Following(q)'
  <2>1. ReceiverState(q)' = ReceiverState(q)
    BY <1>0, <1>3, OthersUnchanged
  <2>2. UNCHANGED <<sync, sop>> /\ (q \in reached' <=> q \in reached)
    BY <1>3, ReceiverFrame
  <2> QED
    BY <1>0, <2>1, <2>2 DEF ReceiverState, Following, SeenEnd, ReachedByEnd
<1>4. ASSUME Receiver(q) PROVE Following(q)'
  <2>0. UNCHANGED <<sync, sop>>
    BY <1>4, ReceiverFrame
  <2>1. CASE StartReceive(q)
    <3>1. rpc[q] = "start" /\ rpc'[q] = "first" /\ rop'[q].st = "recv" /\ reached' = reached
      BY <1>0, <2>1 DEF StartReceive, Receive, Op, TypeOK
    <3> QED
      BY <1>0, <2>0, <3>1 DEF Following, SeenEnd, ReachedByEnd
  <2>2. CASE FirstBucket(q) \/ NextBucket(q)
    <3>1. rpc[q] # "idle" /\ rpc'[q] = "head" /\ metadata'[q] = rop[q].msg /\ UNCHANGED <<rop, reached>>
      BY <1>0, <2>2 DEF FirstBucket, NextBucket, Swap, TypeOK
    <3> QED
      BY <1>0, <2>0, <3>1 DEF Following, SeenEnd, ReachedByEnd
  <2>3. CASE LoopHead(q)
    <3>1. /\ rpc[q] = "head" /\ rpc'[q] = "yield" /\ UNCHANGED <<metadata, reached>>
          /\ metadata[q] = rop[q].msg /\ rop[q].st = "done"
      BY <1>0, <2>3 DEF LoopHead, TypeOK, Following, Position
    <3>2. CASE metadata[q].last
      BY <1>0, <2>0, <2>3, <3>1, <3>2 DEF LoopHead, Following, SeenEnd, ReachedByEnd
    <3>3. CASE ~metadata[q].last
      <4>1. rop'[q].st = "recv" /\ ~SeenEnd(q)
        BY <1>0, <2>3, <3>1, <3>3 DEF LoopHead, Receive, Op, TypeOK, SeenEnd
      <4> QED
        BY <1>0, <2>0, <3>1, <3>3, <4>1 DEF Following, SeenEnd, ReachedByEnd
    <3> QED
      BY <3>2, <3>3
  <2>4. CASE Yield(q) \/ \E c \in reads[q] : CopyOut(q, c)
    <3>1. UNCHANGED <<rpc, metadata, rop, reached>>
      BY <2>4 DEF Yield, CopyOut
    <3> QED
      BY <1>0, <2>0, <3>1 DEF Following, SeenEnd, ReachedByEnd
  <2>5. CASE ReceiveDone(q)
    <3>1. rpc'[q] = "idle" /\ UNCHANGED <<rop, reached>>
      BY <1>0, <2>5 DEF ReceiveDone, TypeOK
    <3> QED
      BY <1>0, <2>0, <3>1 DEF Following, SeenEnd, ReachedByEnd
  <2>6. CASE TakeMeta(q)
    <3>1. rop[q].st = "recv" /\ rop'[q].st = "xfer" /\ UNCHANGED <<rpc, metadata, reached>>
      BY <1>0, <2>6 DEF TakeMeta, Op, TypeOK, receiverVars
    <3>2. rpc[q] # "start" /\ rpc[q] # "head" /\ ~(rpc[q] = "yield" /\ metadata[q].last)
      BY <1>0, <3>1 DEF Position
    <3> QED
      BY <1>0, <2>0, <3>1, <3>2 DEF Following, SeenEnd, ReachedByEnd
  <2>7. CASE Deliver(q)
    <3>1. /\ rop[q].st = "xfer" /\ rop'[q].st = "done" /\ rop'[q].msg = rop[q].msg
          /\ UNCHANGED <<rpc, metadata>> /\ q \in reached' /\ sop.st = "xfer"
      BY <1>0, <2>7 DEF Deliver, Op, TypeOK, receiverVars
    <3>2. rpc[q] # "start" /\ rpc[q] # "head" /\ ~(rpc[q] = "yield" /\ metadata[q].last)
      BY <1>0, <3>1 DEF Position
    <3>3. rop[q].msg = sop.msg
      BY <1>0, <3>1 DEF Messaging
    <3> QED
      BY <1>0, <2>0, <3>1, <3>2, <3>3 DEF Following, SeenEnd, ReachedByEnd
  <2> QED
    BY <1>4, <2>1, <2>2, <2>3, <2>4, <2>5, <2>6, <2>7 DEF Receiver
<1> QED
  BY <1>1, <1>2, <1>3, <1>4, StepCases

(* Where a weight is on its way to receiver r, or that it has arrived.     *)
Somewhere(r, w) ==
  w \in loaded[r] \/ Handed(r, w) \/ Received(r, w) \/ InFlight(r, w) \/ Unsent(w)

LEMMA CoverageStep ==
  ASSUME DInv, [Next]_vars, NEW q \in Receivers
  PROVE  Coverage(q)'
<1> SUFFICES ASSUME (spc # "failed")', (rpc[q] # "idle")', NEW w \in Weights' PROVE Somewhere(q, w)'
  BY DEF Coverage, Somewhere
<1>0. /\ TypeOK /\ SenderOp /\ Messaging(q) /\ Position(q) /\ PendingReads(q) /\ Following(q)
      /\ torn'[q] = {} /\ nextW \in Nat
  BY NoTornReadStep, SenderFacts DEF DInv, IInv
<1>c. ASSUME UNCHANGED stream, spc # "failed", rpc[q] # "idle" PROVE Somewhere(q, w) /\ w \in Weights /\ w \in Nat
  BY <1>c DEF DInv, Coverage, Somewhere, Weights
<1>1. CASE StartSync
  <2>1. w \in Nat /\ w >= 1 /\ nextW' = 1
    BY <1>1 DEF StartSync, Weights
  <2> QED
    BY <2>1 DEF Somewhere, Unsent
<1>2. CASE SenderStep
  <2>1. UNCHANGED <<sync, stream, rpc, recvBuf, metadata, yielded, reads, rop, loaded>>
    BY <1>2, SenderFrame
  <2>2. spc # "failed"
    BY <1>2 DEF SenderStep, Pack, Synchronize, BroadcastFull, BroadcastLast, Broadcast, SendDone,
       Publish, LeaveBroadcast, GeneratorRaises, CopyIn, vars, senderVars
  <2>3. Somewhere(q, w) /\ w \in Nat
    BY <1>c, <2>1, <2>2
  <2>4. CASE w \in loaded[q] \/ Handed(q, w) \/ Received(q, w)
    BY <2>1, <2>4 DEF Somewhere, Handed, Received, Remaining
  <2>5. CASE InFlight(q, w)
    <3>1. sop.st \in {"publish", "xfer"}
      BY <2>5 DEF InFlight, Owed
    <3>2. CASE Publish
      BY <1>0, <2>5, <3>2 DEF Publish, Op, SenderOp, InFlight, Owed, Somewhere
    <3>3. CASE LeaveBroadcast
      BY <2>5, <3>3 DEF LeaveBroadcast, InFlight, Owed
    <3>4. CASE UNCHANGED <<sop, reached>>
      BY <2>5, <3>4 DEF InFlight, Owed, Somewhere
    <3>5. ~BroadcastFull /\ ~BroadcastLast
      BY <3>1 DEF BroadcastFull, BroadcastLast, Broadcast, PreviousComplete
    <3> QED
      BY <1>2, <3>2, <3>3, <3>4, <3>5 DEF SenderStep, Pack, Synchronize, SendDone, GeneratorRaises, CopyIn, vars
  <2>6. CASE Unsent(w)
    <3>1. CASE Pack
      <4>1. spc' = "pack" /\ nextW' = nextW + 1 /\ DOMAIN bucketMeta' = DOMAIN bucketMeta \cup {nextW}
        BY <3>1 DEF Pack
      <4> QED
        BY <1>0, <2>3, <2>6, <4>1 DEF Unsent, Somewhere
    <3>2. CASE BroadcastFull \/ BroadcastLast
      <4>1. nextW' = nextW /\ sop'.st = "publish" /\ sop'.msg.meta = bucketMeta
        BY <3>2 DEF BroadcastFull, BroadcastLast, Broadcast, Op
      <4> QED
        BY <2>6, <4>1 DEF Unsent, InFlight, Somewhere
    <3>3. CASE Synchronize \/ SendDone
      BY <2>6, <3>3 DEF Synchronize, SendDone, Unsent, Somewhere
    <3>4. CASE UNCHANGED <<spc, nextW, bucketMeta>>
      BY <2>6, <3>4 DEF Unsent, Somewhere
    <3> QED
      BY <1>2, <3>1, <3>2, <3>3, <3>4 DEF SenderStep, Publish, LeaveBroadcast, GeneratorRaises, CopyIn,
         vars, senderVars
  <2> QED
    BY <2>3, <2>4, <2>5, <2>6 DEF Somewhere
<1>3. ASSUME NEW r \in Receivers, Receiver(r), r # q PROVE Somewhere(q, w)'
  <2>1. /\ UNCHANGED <<stream, spc, nextW, bucketMeta, sop>>
        /\ q \in reached' <=> q \in reached
    BY <1>3, ReceiverFrame
  <2>2. ReceiverState(q)' = ReceiverState(q) /\ loaded'[q] = loaded[q]
    BY <1>0, <1>3, OthersUnchanged, LoadedUnchanged
  <2>3. Somewhere(q, w)
    BY <1>c, <2>1, <2>2 DEF ReceiverState
  <2> QED
    BY <2>1, <2>2, <2>3 DEF ReceiverState, Somewhere, Handed, Received, Remaining, InFlight, Owed, Unsent
<1>4. ASSUME Receiver(q) PROVE Somewhere(q, w)'
  <2>1. UNCHANGED <<stream, spc, nextW, bucketMeta, sop>>
    BY <1>4, ReceiverFrame
  <2>2. rpc[q] # "idle"
    <3>1. ASSUME NEW c \in reads[q], CopyOut(q, c) PROVE rpc[q] # "idle"
      BY <3>1 DEF CopyOut
    <3> QED
      BY <1>0, <1>4, <3>1 DEF Receiver, StartReceive, FirstBucket, LoopHead, Yield, NextBucket, ReceiveDone,
         TakeMeta, Deliver, Position
  <2>3. Somewhere(q, w) /\ w \in Weights
    BY <1>c, <2>1, <2>2
  <2>4. Unsent(w) => Unsent(w)'
    BY <2>1 DEF Unsent
  <2>5. reached' = reached => (InFlight(q, w) => InFlight(q, w)')
    BY <2>1 DEF InFlight, Owed
  <2>6. CASE StartReceive(q)
    BY <2>3, <2>4, <2>5, <2>6 DEF StartReceive, Somewhere, Handed, Received, consumerVars
  <2>7. CASE FirstBucket(q) \/ NextBucket(q)
    <3>1. /\ rop[q].st = "done" /\ metadata'[q] = rop[q].msg /\ yielded'[q] = {} /\ rpc'[q] = "head"
          /\ UNCHANGED <<reached, loaded>>
      BY <1>0, <2>7 DEF FirstBucket, NextBucket, Swap, TypeOK, consumerVars
    <3>2. ~Handed(q, w)
      BY <2>7 DEF FirstBucket, NextBucket, Handed, Synchronized
    <3>3. Received(q, w) => Handed(q, w)'
      BY <3>1 DEF Received, Handed, Remaining
    <3> QED
      BY <2>3, <2>4, <2>5, <3>1, <3>2, <3>3 DEF Somewhere
  <2>8. CASE LoopHead(q)
    <3>1. rpc[q] = "head" /\ rpc'[q] = "yield" /\ UNCHANGED <<metadata, yielded, reads, reached, loaded>>
      BY <1>0, <2>8 DEF LoopHead, TypeOK, consumerVars
    <3> QED
      BY <2>3, <2>4, <2>5, <3>1 DEF Somewhere, Handed, Received, Remaining
  <2>9. CASE Yield(q)
    <3>1. PICK v \in Remaining(q) :
            /\ yielded' = [yielded EXCEPT ![q] = @ \cup {v}]
            /\ reads' = [reads EXCEPT ![q] = @ \cup
                 {[buf |-> Other(recvBuf[q]), w |-> v, off |-> metadata[q].meta[v]]}]
      BY <2>9 DEF Yield
    <3>2. /\ yielded'[q] = yielded[q] \cup {v}
          /\ reads'[q] = reads[q] \cup {[buf |-> Other(recvBuf[q]), w |-> v, off |-> metadata[q].meta[v]]}
          /\ UNCHANGED <<rpc, metadata, rop, reached, loaded>>
      BY <1>0, <2>9, <3>1 DEF Yield, TypeOK, consumerVars
    <3>3. \E c \in reads'[q] : c.w = v
      <4> DEFINE e == [buf |-> Other(recvBuf[q]), w |-> v, off |-> metadata[q].meta[v]]
      <4>1. e.w = v /\ e \in reads'[q]
        BY <3>2
      <4> QED
        BY <4>1
    <3>4. Handed(q, w) => Handed(q, w)'
      BY <3>2, <3>3 DEF Handed, Remaining
    <3> QED
      BY <2>3, <2>4, <2>5, <3>2, <3>4 DEF Somewhere, Received
  <2>10. CASE TakeMeta(q)
    <3>1. rop[q].st = "recv" /\ UNCHANGED <<rpc, metadata, yielded, reads, reached, loaded>>
      BY <2>10 DEF TakeMeta, receiverVars, consumerVars
    <3> QED
      BY <2>3, <2>4, <2>5, <3>1 DEF Somewhere, Handed, Received, Remaining
  <2>11. CASE Deliver(q)
    <3>1. /\ rop[q].st = "xfer" /\ rop'[q].st = "done" /\ rop'[q].msg = rop[q].msg
          /\ UNCHANGED <<rpc, metadata, yielded, reads, loaded>> /\ sop.st = "xfer"
      BY <1>0, <2>11 DEF Deliver, Op, TypeOK, receiverVars, consumerVars
    <3>2. rop[q].msg = sop.msg
      BY <1>0, <3>1 DEF Messaging
    <3>3. rpc[q] = "first" \/ (rpc[q] = "yield" /\ ~metadata[q].last)
      BY <1>0, <3>1 DEF Position, TypeOK
    <3>4. InFlight(q, w) => Received(q, w)'
      BY <3>1, <3>2, <3>3 DEF InFlight, Received
    <3> QED
      BY <2>3, <2>4, <3>1, <3>4 DEF Somewhere, Handed, Received, Remaining
  <2>12. ASSUME NEW c \in reads[q], CopyOut(q, c) PROVE Somewhere(q, w)'
    <3>1. /\ UNCHANGED <<rpc, metadata, yielded, rop, reached>> /\ reads'[q] = reads[q] \ {c}
          /\ \/ loaded'[q] = loaded[q] \cup {c.w}
             \/ torn'[q] = torn[q] \cup {c.w}
      BY <1>0, <2>12 DEF CopyOut, TypeOK
    <3>2. loaded'[q] = loaded[q] \cup {c.w}
      BY <1>0, <3>1
    <3>3. Handed(q, w) => w \in loaded'[q] \/ Handed(q, w)'
      BY <3>1, <3>2 DEF Handed, Remaining
    <3> QED
      BY <2>3, <2>4, <2>5, <3>1, <3>2, <3>3 DEF Somewhere, Received
  <2>13. ~ReceiveDone(q)
    BY <1>0 DEF ReceiveDone, TypeOK
  <2> QED
    BY <1>4, <2>6, <2>7, <2>8, <2>9, <2>10, <2>11, <2>12, <2>13 DEF Receiver
<1> QED
  BY <1>1, <1>2, <1>3, <1>4, StepCases

LEMMA DInvariance == Spec => []DInv
<1>1. DInv /\ [Next]_vars => DInv'
  <2> SUFFICES ASSUME DInv, [Next]_vars PROVE DInv'
    OBVIOUS
  <2>1. IInv'
    BY Inductive DEF DInv
  <2>2. \A r \in Receivers : Following(r)' /\ Coverage(r)'
    BY FollowingStep, CoverageStep
  <2> QED
    BY <2>1, <2>2, EndingStep DEF DInv
<1> QED
  BY <1>1, DInit, PTL DEF Spec

-----------------------------------------------------------------------------
(* When rank 0 reports success, every receiver has the last bucket: none   *)
(* of them waits for a broadcast that will not come.                       *)
THEOREM NobodyLeftBehind == Spec => []NoReceiverLeftBehind
<1>1. DInv => NoReceiverLeftBehind
  <2> SUFFICES ASSUME DInv, spc = "idle", sync > 0, NEW r \in Receivers
               PROVE  rop[r].st = "done" /\ rop[r].msg.last
    BY DEF NoReceiverLeftBehind
  <2>1. Ending /\ SenderOp /\ Following(r) /\ TypeOK
    BY DEF DInv, IInv
  <2>2. sop.msg.last
    BY <2>1 DEF Ending
  <2>3. sop.st = "done" /\ r \in reached
    BY <2>1, <2>2 DEF Ending, SenderOp
  <2> QED
    BY <2>1, <2>2, <2>3 DEF Following, SeenEnd, ReachedByEnd
<1> QED
  BY <1>1, DInvariance, PTL

(* What the receivers show of their state to WeightStream.                 *)
Open(r) == IF rpc[r] = "idle" THEN "closed" ELSE "open"

(* A receiver that ends has taken every weight of the stream.              *)
LEMMA CompleteWhenDone ==
  ASSUME DInv, NEW r \in Receivers, ReceiveDone(r)
  PROVE  loaded[r] = Weights
<1>1. TypeOK /\ SenderOp /\ Ending /\ Position(r) /\ Following(r) /\ Coverage(r)
  BY DEF DInv, IInv
<1>2. rpc[r] = "yield" /\ metadata[r].last /\ Remaining(r) = {} /\ reads[r] = {}
  BY DEF ReceiveDone, Synchronized
<1>3. ReachedByEnd(r)
  BY <1>1, <1>2 DEF Position, Following, SeenEnd
<1>4. spc \in {"drain", "idle"} /\ (spc = "idle" => sync > 0)
  <2>1. spc = "idle" => sync > 0
    BY <1>1, <1>2 DEF Following
  <2> QED
    BY <1>1, <1>3, <2>1 DEF Ending, ReachedByEnd, TypeOK
<1>5. ASSUME NEW w \in Weights PROVE w \in loaded[r]
  <2>1. ~Handed(r, w) /\ ~Received(r, w)
    BY <1>2 DEF Handed, Received
  <2>2. ~InFlight(r, w)
    BY <1>3 DEF InFlight, Owed, ReachedByEnd
  <2>3. ~Unsent(w)
    <3>1. nextW \notin Weights /\ nextW \in 1 .. Len(stream) + 1 /\ Len(stream) \in Nat
      BY <1>1, <1>4 DEF Ending, TypeOK
    <3> QED
      BY <1>4, <3>1 DEF Unsent, Weights
  <2> QED
    BY <1>1, <1>2, <1>4, <2>1, <2>2, <2>3 DEF Coverage
<1> QED
  BY <1>1, <1>5 DEF TypeOK

LEMMA ReceiverRefines ==
  ASSUME DInv, [Next]_vars, NEW r \in Receivers, Receiver(r)
  PROVE  [Promise!Next]_(Promise!vars)
<1>0. TypeOK /\ torn'[r] = {} /\ SenderOp /\ Position(r) /\ PendingReads(r)
  BY NoTornReadStep DEF DInv, IInv
<1>s. UNCHANGED <<sync, stream>>
  BY ReceiverFrame
<1>1. CASE loaded' = loaded /\ \A q \in Receivers : Open(q)' = Open(q)
  BY <1>s, <1>1 DEF Promise!vars, Open
<1>2. CASE StartReceive(r) \/ FirstBucket(r) \/ LoopHead(r) \/ Yield(r) \/ NextBucket(r)
  <2>1. rpc[r] # "idle" /\ rpc'[r] # "idle" /\ \A q \in Receivers : q # r => rpc'[q] = rpc[q]
    BY <1>0, <1>2 DEF StartReceive, FirstBucket, LoopHead, Yield, NextBucket, Swap, TypeOK
  <2>2. loaded' = loaded
    BY <1>2 DEF StartReceive, FirstBucket, LoopHead, Yield, NextBucket, Swap, consumerVars
  <2> QED
    BY <1>1, <2>1, <2>2 DEF Open
<1>3. CASE TakeMeta(r) \/ Deliver(r)
  BY <1>1, <1>3 DEF TakeMeta, Deliver, receiverVars, consumerVars, Open
<1>4. ASSUME NEW c \in reads[r], CopyOut(r, c) PROVE Promise!Take(r)
  <2>1. rpc' = rpc /\ rpc[r] = "yield"
    BY <1>0, <1>4 DEF CopyOut, PendingReads
  <2>2. loaded' = [loaded EXCEPT ![r] = @ \cup {c.w}]
    <3>1. \/ loaded' = [loaded EXCEPT ![r] = @ \cup {c.w}]
          \/ torn' = [torn EXCEPT ![r] = @ \cup {c.w}]
      BY <1>4, Zenon DEF CopyOut
    <3>2. torn' # [torn EXCEPT ![r] = @ \cup {c.w}]
      BY <1>0 DEF TypeOK
    <3> QED
      BY <3>1, <3>2
  <2>3. c.w \in DOMAIN stream
    BY <1>0 DEF TypeOK, Entries, Weights
  <2> DEFINE ws == {c.w} \ loaded[r]
  <2>4. ws \in SUBSET (Promise!Weights \ loaded[r])
    BY <2>3 DEF Promise!Weights
  <2>5. loaded' = [loaded EXCEPT ![r] = @ \cup ws]
    BY <1>0, <2>2 DEF TypeOK
  <2>6. \E W \in SUBSET (Promise!Weights \ loaded[r]) : loaded' = [loaded EXCEPT ![r] = @ \cup W]
    BY <2>4, <2>5
  <2> QED
    BY <1>s, <2>1, <2>6 DEF Promise!Take
<1>5. ASSUME ReceiveDone(r) PROVE Promise!Close(r)
  <2>1. loaded[r] = Promise!Weights
    BY <1>0, <1>5, CompleteWhenDone DEF Promise!Weights, Weights, TypeOK
  <2>2. rpc[r] = "yield" /\ rpc' = [rpc EXCEPT ![r] = "idle"] /\ loaded' = loaded
    BY <1>5 DEF ReceiveDone, consumerVars
  <2>3. [q \in Receivers |-> IF rpc'[q] = "idle" THEN "closed" ELSE "open"]
          = [[q \in Receivers |-> IF rpc[q] = "idle" THEN "closed" ELSE "open"] EXCEPT ![r] = "closed"]
    BY <1>0, <2>2 DEF TypeOK
  <2> QED
    BY <1>s, <2>1, <2>2, <2>3 DEF Promise!Close
<1> QED
  BY <1>2, <1>3, <1>4, <1>5 DEF Receiver, Promise!Next

(* The broadcast implements WeightStream: a receiver reports success only  *)
(* when its consumer holds every weight of the stream of this              *)
(* synchronisation, intact.                                                *)
THEOREM Refinement == Spec => ImplementsWeightStream
<1>1. Init => Promise!Init
  BY DEF Init, Promise!Init
<1>2. DInv /\ [Next]_vars => [Promise!Next]_(Promise!vars)
  <2> SUFFICES ASSUME DInv, [Next]_vars PROVE [Promise!Next]_(Promise!vars)
    OBVIOUS
  <2>1. CASE StartSync
    <3>1. Promise!Begin
      BY <2>1 DEF StartSync, Promise!Begin
    <3> QED
      BY <3>1 DEF Promise!Next
  <2>2. CASE SenderStep
    BY <2>2, SenderFrame DEF Promise!vars
  <2> QED
    BY <2>1, <2>2, ReceiverRefines, StepCases
<1> QED
  BY <1>1, <1>2, DInvariance, PTL DEF Spec, ImplementsWeightStream, Promise!Spec
=============================================================================
