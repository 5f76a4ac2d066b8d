-------------------------- MODULE BucketIpcProofs --------------------------
(***************************************************************************)
(* Proofs about BucketIpc for every group of ranks, every weight stream,   *)
(* every bucket size and any number of synchronisations, with and without  *)
(* timeouts on either side.                                                *)
(***************************************************************************)
EXTENDS BucketIpc, DataLemmas, TLAPS

Entries == [w : Weights, off : Nat]

SenderStates == {"idle", "handshake", "pack", "flush", "flushLast", "rpc", "failed"}
RankStates == {"idle", "handle", "recv", "clone", "barrier", "passed", "load",
               "finish", "return", "failed"}

(* The types of the state, as far as the proofs need them.                 *)
Types ==
  /\ sync \in Nat
  /\ stream \in Seq(Nat)
  /\ lora \in BOOLEAN
  /\ spc \in SenderStates
  /\ nextW \in 1 .. Len(stream) + 1
  /\ offset \in 0 .. BucketSize
  /\ DOMAIN bucketMeta \subseteq Weights /\ \A w \in DOMAIN bucketMeta : bucketMeta[w] \in Nat
  /\ copies \in SUBSET Entries
  /\ rpc \in [Ranks -> RankStates]
  /\ DOMAIN objs = Ranks
  /\ DOMAIN message = Ranks
  /\ reads \in [Ranks -> SUBSET Entries]
  /\ taken \in [Ranks -> SUBSET Weights]
  /\ loaded \in [Ranks -> SUBSET Weights]
  /\ torn \in [Ranks -> SUBSET Weights]

-----------------------------------------------------------------------------
(* The sender.  While it packs, the weights of the bucket lie one after    *)
(* the other below offset, each in the bytes or in a pending copy.         *)
Layout ==
  spc = "pack" =>
    \A w \in DOMAIN bucketMeta :
      /\ w < nextW
      /\ bucketMeta[w] + stream[w] <= offset
      /\ \A v \in DOMAIN bucketMeta : v < w => bucketMeta[v] + stream[v] <= bucketMeta[w]
      /\ \/ [w |-> w, off |-> bucketMeta[w]] \in copies
         \/ \A i \in Span(bucketMeta[w], w) : bucket[i] = <<sync, w>>

PendingCopies ==
  /\ copies # {} => spc \in {"pack", "failed"}
  /\ spc = "pack" => \A c \in copies : c.w \in DOMAIN bucketMeta /\ c.off = bucketMeta[c.w]

(* From the flush to the last clone the bucket holds what its metadata     *)
(* say, and nothing is about to be written.                                *)
InUse == spc \in {"flush", "flushLast"} \/ rpc[Driver] \in {"clone", "barrier"}
Filled == \A w \in DOMAIN bucketMeta : \A i \in Span(bucketMeta[w], w) : bucket[i] = <<sync, w>>
BucketFilled == InUse => copies = {} /\ Filled

(* The socket pair: whose turn it is, and where that finds the driver.     *)
AtEnd == nextW \notin Weights
Current == Message(bucketMeta, AtEnd)
BetweenBuckets ==
  rpc[Driver] \in {"recv", "failed"} \/ (rpc[Driver] = "load" /\ ~message[Driver].last)
AfterLast ==
  rpc[Driver] \in {"finish", "return", "idle"} \/ (rpc[Driver] = "load" /\ message[Driver].last)

Turns ==
  /\ spc = "idle" => wire = Empty /\ \A r \in Ranks : rpc[r] = "idle"
  /\ spc = "handshake" =>
       /\ DOMAIN bucketMeta = {}
       /\ \/ wire = Handle /\ rpc[Driver] = "handle"
          \/ wire = Reply /\ rpc[Driver] \in {"recv", "failed"}
  /\ spc = "pack" => wire = Empty /\ BetweenBuckets
  /\ spc \in {"flush", "flushLast"} =>
       /\ spc = "flushLast" <=> AtEnd
       /\ \/ wire = Payload(Current) /\ BetweenBuckets
          \/ wire = Replying /\ rpc[Driver] \in {"clone", "barrier", "passed"}
          \/ wire = Reply /\ IF AtEnd THEN AfterLast ELSE BetweenBuckets
  /\ spc = "rpc" => wire = Empty /\ AfterLast
  /\ spc = "failed" => wire = Empty
  /\ rpc[Driver] \in {"clone", "barrier", "passed"} => message[Driver] = Current

-----------------------------------------------------------------------------
(* The ranks.  How far another rank may be behind the driver, and what the *)
(* driver has told it in the meantime.                                     *)
Waiting(r) == rpc[r] = "recv" \/ (rpc[r] = "passed" /\ ~message[r].last)
Leaving(r) == rpc[r] \in {"finish", "return", "idle"} \/ (rpc[r] = "passed" /\ message[r].last)

Behind(r) ==
  /\ rpc[r] \notin {"load", "failed"}
  /\ rpc[Driver] = "handle" => rpc[r] = "handle" /\ objs[r] = << >>
  /\ rpc[Driver] \in {"recv", "failed"} =>
       \/ rpc[r] = "handle" /\ objs[r] = <<Nothing>>
       \/ rpc[r] = "handle" /\ objs[r] = << >> /\ rpc[Driver] = "failed"
       \/ Waiting(r) /\ objs[r] = << >>
  /\ rpc[Driver] \in {"clone", "barrier"} =>
       \/ rpc[r] = "handle" /\ objs[r] = <<Nothing, message[Driver]>>
       \/ Waiting(r) /\ objs[r] = <<message[Driver]>>
       \/ rpc[r] \in {"clone", "barrier"} /\ message[r] = message[Driver] /\ objs[r] = << >>
  /\ rpc[Driver] \in {"passed", "load"} =>
       objs[r] = << >> /\ IF message[Driver].last THEN Leaving(r) ELSE Waiting(r)
  /\ rpc[Driver] \in {"finish", "return", "idle"} => objs[r] = << >> /\ Leaving(r)

(* The clones of a rank are of the bucket in use.                          *)
Reading(r) ==
  /\ reads[r] # {} => rpc[r] = "clone"
  /\ \A c \in reads[r] : c.w \in DOMAIN message[r].meta /\ c.off = message[r].meta[c.w]
  /\ rpc[r] \in {"idle", "handle", "return"} => taken[r] = {}

(* Every weight is on the rank or will still be sent to it, and a rank     *)
(* that knows of the last bucket has them all.                             *)
Has(r, w) == w \in loaded[r] \/ w \in taken[r] \/ \E c \in reads[r] : c.w = w
HasAll(r, W) == \A w \in W : Has(r, w)

HasBucket(r) ==
  \/ rpc[r] \in {"clone", "barrier"}
  \/ rpc[Driver] = "passed"
  \/ spc \in {"flush", "flushLast"} /\ wire = Reply
KnowsLast(r) ==
  \/ rpc[r] \in {"clone", "barrier", "passed", "load"} /\ message[r].last
  \/ rpc[r] \in {"finish", "return"}

Holding(r) ==
  /\ \A w \in Weights : Has(r, w) \/ w \in DOMAIN bucketMeta \/ w >= nextW
  /\ HasBucket(r) => HasAll(r, DOMAIN bucketMeta)
  /\ KnowsLast(r) => HasAll(r, Weights)

IInv ==
  /\ Types
  /\ Layout /\ PendingCopies /\ BucketFilled /\ Turns
  /\ objs[Driver] = << >>
  /\ \A r \in Ranks \ {Driver} : Behind(r)
  /\ \A r \in Ranks : Reading(r) /\ Holding(r)
  /\ NoTornRead

-----------------------------------------------------------------------------
(* The messages of the socket pair are told apart by their kind.           *)
LEMMA Wires ==
  /\ Empty # Handle /\ Empty # Reply /\ Empty # Replying
  /\ Handle # Reply /\ Handle # Replying /\ Reply # Replying
  /\ Empty.kind = "none" /\ Handle.kind = "handle" /\ Reply.kind = "reply" /\ Replying.kind = "replying"
  /\ \A m : /\ Payload(m).kind = "payload" /\ Payload(m).msg = m
            /\ Payload(m) # Empty /\ Payload(m) # Handle /\ Payload(m) # Reply /\ Payload(m) # Replying
<1>1. /\ Empty.kind = "none" /\ Handle.kind = "handle" /\ Reply.kind = "reply" /\ Replying.kind = "replying"
      /\ \A m : Payload(m).kind = "payload" /\ Payload(m).msg = m
  BY DEF Empty, Handle, Reply, Replying, Payload
<1> QED
  BY <1>1

LEMMA NothingIs == Nothing.last = FALSE /\ DOMAIN Nothing.meta = {} /\ DOMAIN NoMeta = {}
BY DEF Nothing, NoMeta

LEMMA MessageIs ==
  ASSUME NEW meta, NEW last
  PROVE  Message(meta, last).meta = meta /\ Message(meta, last).last = last
BY DEF Message

LEMMA InitInv == Init => IInv
<1> SUFFICES ASSUME Init PROVE IInv
  OBVIOUS
<1> USE IpcAssumption DEF Init
<1>1. Types
  <2>1. stream \in Seq(Nat) /\ Len(stream) = 0 /\ Weights = {}
    BY DEF Weights
  <2>2. sync \in Nat /\ nextW \in 1 .. Len(stream) + 1 /\ offset \in 0 .. BucketSize
    BY <2>1
  <2>3. lora \in BOOLEAN
    OBVIOUS
  <2>4. /\ DOMAIN bucketMeta \subseteq Weights /\ \A w \in DOMAIN bucketMeta : bucketMeta[w] \in Nat
        /\ copies \in SUBSET Entries
        /\ rpc \in [Ranks -> RankStates]
        /\ DOMAIN objs = Ranks /\ DOMAIN message = Ranks
        /\ reads \in [Ranks -> SUBSET Entries]
        /\ taken \in [Ranks -> SUBSET Weights]
        /\ loaded \in [Ranks -> SUBSET Weights]
        /\ torn \in [Ranks -> SUBSET Weights]
    BY NothingIs DEF RankStates
  <2> QED
    BY <2>1, <2>2, <2>3, <2>4 DEF Types, SenderStates
<1>2. Layout /\ PendingCopies /\ BucketFilled
  BY DEF Layout, PendingCopies, BucketFilled, InUse
<1>3. Turns
  BY DEF Turns
<1>4. objs[Driver] = << >> /\ \A r \in Ranks \ {Driver} : Behind(r)
  BY DEF Behind, Leaving
<1>5. \A r \in Ranks : Reading(r)
  BY DEF Reading
<1>6. \A r \in Ranks : Holding(r)
  BY DEF Holding, HasBucket, KnowsLast, Weights
<1>7. NoTornRead
  BY DEF NoTornRead
<1> QED
  BY <1>1, <1>2, <1>3, <1>4, <1>5, <1>6, <1>7 DEF IInv

(* The types depend on the state only through the stream.                  *)
LEMMA SameTypes == stream' = stream => Weights' = Weights /\ Entries' = Entries
BY DEF Weights, Entries

(* A bucket becomes the clones of a rank.                                  *)
LEMMA CloneType ==
  ASSUME Types, Turns, NEW r \in Ranks, rpc[Driver] \in {"clone", "barrier", "passed"} \/ wire = Payload(Current),
         NEW m, m = Current, Clone(r, m)
  PROVE  /\ reads' \in [Ranks -> SUBSET Entries]
         /\ reads'[r] = {[w |-> w, off |-> bucketMeta[w]] : w \in DOMAIN bucketMeta}
         /\ rpc' \in [Ranks -> RankStates] /\ DOMAIN message' = Ranks
<1>1. m.meta = bucketMeta
  BY MessageIs DEF Current
<1>2. {[w |-> w, off |-> m.meta[w]] : w \in DOMAIN m.meta} \in SUBSET Entries
  BY <1>1 DEF Types, Entries
<1> QED
  BY <1>1, <1>2 DEF Clone, Types, RankStates

LEMMA TypesStep == IInv /\ [Next]_vars => Types'
<1> SUFFICES ASSUME IInv, [Next]_vars PROVE Types'
  OBVIOUS
<1>0. Types /\ Turns /\ IpcAssumption
  BY IpcAssumption DEF IInv
<1>n. Len(stream) \in Nat /\ \A w \in Weights : w \in Nat /\ stream[w] \in Nat
  BY <1>0 DEF Types, Weights
<1>1. CASE StartSync
  <2>1. stream' \in Seq(Nat) /\ Len(stream') \in Nat
    BY <1>0, <1>1 DEF StartSync, IpcAssumption
  <2>2. copies = {} /\ \A r \in Ranks : reads[r] = {} /\ taken[r] = {}
    BY <1>1 DEF IInv, StartSync, PendingCopies, Reading, Turns
  <2>3. reads' \in [Ranks -> SUBSET Entries'] /\ taken' \in [Ranks -> SUBSET Weights']
    BY <1>0, <1>1, <2>2 DEF StartSync, Types
  <2>4. lora' \in BOOLEAN
    BY <1>1, Zenon DEF StartSync
  <2>5. /\ sync' \in Nat /\ spc' = "handshake" /\ nextW' = 1 /\ offset' = 0
        /\ DOMAIN bucketMeta' = {} /\ copies' = {} /\ rpc' \in [Ranks -> RankStates]
        /\ objs' = objs /\ message' = message
        /\ loaded' = [r \in Ranks |-> {}] /\ torn' = [r \in Ranks |-> {}]
    BY <1>0, <1>1, <2>2, NothingIs DEF StartSync, Types, RankStates
  <2> QED
    BY <1>0, <2>1, <2>3, <2>4, <2>5 DEF Types, SenderStates, IpcAssumption
<1>2. CASE Pack
  <2>1. nextW \in Weights /\ offset + stream[nextW] \in 0 .. BucketSize
    BY <1>0, <1>2, <1>n DEF Pack, Full, Types, IpcAssumption
  <2>2. /\ nextW' \in 1 .. Len(stream) + 1 /\ DOMAIN bucketMeta' \subseteq Weights
        /\ \A w \in DOMAIN bucketMeta' : bucketMeta'[w] \in Nat
    BY <1>0, <1>2, <1>n, <2>1 DEF Pack, Types, Weights, IpcAssumption
  <2>3. copies' \in SUBSET Entries
    BY <1>0, <1>2, <2>1 DEF Pack, Types, Entries, IpcAssumption
  <2>4. /\ UNCHANGED <<sync, stream, lora, spc, rpc, objs, message, reads, taken, loaded, torn>>
        /\ offset' \in 0 .. BucketSize
    BY <1>2, <2>1 DEF Pack, syncVars, rankVars
  <2> QED
    BY <1>0, <2>2, <2>3, <2>4, SameTypes DEF Types
<1>3. CASE RaiseTooLarge \/ Flush \/ SendDone \/ SenderTimeout
  BY <1>0, <1>3, SameTypes DEF RaiseTooLarge, Flush, SendDone, SenderTimeout, Types, SenderStates, syncVars, rankVars
<1>4. CASE Acknowledged
  BY <1>0, <1>4, SameTypes, NothingIs DEF Acknowledged, Types, SenderStates, syncVars, rankVars, IpcAssumption
<1>5. ASSUME NEW c \in copies, CopyIn(c) PROVE Types'
  BY <1>0, <1>5, SameTypes DEF CopyIn, Types, syncVars, senderVars, rankVars
<1>6. CASE DriverHandle
  BY <1>0, <1>6, SameTypes DEF DriverHandle, Share, Types, RankStates, syncVars, senderVars
<1>7. CASE DriverBucket
  <2>1. wire = Payload(Current) /\ wire.msg = Current
    BY <1>0, <1>7, Wires DEF DriverBucket, Turns, Types, SenderStates
  <2>2. Driver \in Ranks /\ Clone(Driver, wire.msg)
    BY <1>0, <1>7 DEF DriverBucket, IpcAssumption
  <2>3. /\ reads' \in [Ranks -> SUBSET Entries]
        /\ rpc' \in [Ranks -> RankStates] /\ DOMAIN message' = Ranks
    BY <1>0, <2>1, <2>2, CloneType
  <2>4. DOMAIN objs' = Ranks
    BY <1>7 DEF DriverBucket, Share
  <2> QED
    BY <1>0, <2>2, <2>3, <2>4, SameTypes DEF Clone, Types, syncVars, senderVars
<1>8. ASSUME NEW r \in Ranks, TakeHandle(r) PROVE Types'
  BY <1>0, <1>8, SameTypes DEF TakeHandle, Types, RankStates, syncVars, senderVars
<1>9. ASSUME NEW r \in Ranks, TakeBucket(r) PROVE Types'
  <2>1. Behind(r) /\ objs[r] # << >> /\ rpc[r] = "recv" /\ r # Driver
    BY <1>9 DEF IInv, TakeBucket
  <2>2. rpc[Driver] \in {"clone", "barrier"} /\ objs[r] = <<message[Driver]>>
    BY <1>0, <2>1 DEF Behind, Types, RankStates, IpcAssumption
  <2>3. Head(objs[r]) = Current
    BY <1>0, <2>2 DEF Turns
  <2>4. /\ reads' \in [Ranks -> SUBSET Entries]
        /\ rpc' \in [Ranks -> RankStates] /\ DOMAIN message' = Ranks
    BY <1>0, <1>9, <2>2, <2>3, CloneType DEF TakeBucket
  <2>5. DOMAIN objs' = Ranks
    BY <1>0, <1>9 DEF TakeBucket, Types
  <2> QED
    BY <1>0, <1>9, <2>4, <2>5, SameTypes DEF TakeBucket, Clone, Types, syncVars, senderVars
<1>10. ASSUME NEW r \in Ranks, NEW c \in reads[r], CopyOut(r, c) PROVE Types'
  BY <1>0, <1>10, SameTypes DEF CopyOut, Types, Entries, syncVars, senderVars
<1>11. ASSUME NEW r \in Ranks, EnterBarrier(r) \/ Load(r) \/ Finish(r) \/ Return(r) PROVE Types'
  <2>1. CASE EnterBarrier(r) \/ Return(r)
    BY <1>0, <2>1, SameTypes DEF EnterBarrier, Return, Types, RankStates, syncVars, senderVars
  <2>2. CASE Load(r)
    <3>1. /\ loaded' \in [Ranks -> SUBSET Weights] /\ taken' \in [Ranks -> SUBSET Weights]
      BY <1>0, <2>2 DEF Load, Types
    <3>2. rpc' \in [Ranks -> RankStates]
      BY <1>0, <2>2 DEF Load, Types, RankStates
    <3> QED
      BY <1>0, <2>2, <3>1, <3>2, SameTypes DEF Load, Types, syncVars, senderVars
  <2>3. CASE Finish(r)
    <3>1. /\ loaded' \in [Ranks -> SUBSET Weights] /\ taken' \in [Ranks -> SUBSET Weights]
      BY <1>0, <2>3 DEF Finish, Types
    <3>2. rpc' \in [Ranks -> RankStates] /\ DOMAIN message' = Ranks
      BY <1>0, <2>3 DEF Finish, Types, RankStates
    <3> QED
      BY <1>0, <2>3, <3>1, <3>2, SameTypes DEF Finish, Types, syncVars, senderVars
  <2> QED
    BY <1>11, <2>1, <2>2, <2>3
<1>12. CASE Barrier \/ DriverReply \/ DriverTimeout
  BY <1>0, <1>12, SameTypes DEF Barrier, DriverReply, DriverTimeout, Types, RankStates, syncVars, senderVars
<1>13. CASE UNCHANGED vars
  BY <1>0, <1>13, SameTypes DEF vars, Types, syncVars, senderVars, rankVars
<1> QED
  BY <1>1, <1>2, <1>3, <1>4, <1>5, <1>6, <1>7, <1>8, <1>9, <1>10, <1>11, <1>12, <1>13
  DEF Next, Sender, Group, Rank

-----------------------------------------------------------------------------
(* Packing and flushing                                                    *)

(* What a rank does leaves the sender and the bucket alone.                *)
RankStep ==
  \/ Group \/ DriverTimeout \/ \E r \in Ranks : Rank(r)

LEMMA RankFrame == RankStep => UNCHANGED <<syncVars, senderVars, copies, bucket>>
<1>1. CASE Group \/ DriverTimeout
  BY <1>1 DEF Group, DriverHandle, DriverBucket, Clone, Barrier, DriverReply, DriverTimeout
<1>2. ASSUME NEW r \in Ranks, Rank(r) PROVE UNCHANGED <<syncVars, senderVars, copies, bucket>>
  BY <1>2 DEF Rank, TakeHandle, TakeBucket, Clone, CopyOut, EnterBarrier, Load, Finish, Return
<1> QED
  BY <1>1, <1>2 DEF RankStep

LEMMA SenderFacts ==
  Types =>
    /\ nextW \in Nat /\ offset \in Nat /\ offset <= BucketSize
    /\ \A w \in Weights : w \in Nat /\ stream[w] \in Nat
    /\ \A w \in DOMAIN bucketMeta : w \in Nat /\ stream[w] \in Nat /\ bucketMeta[w] \in Nat
    /\ \A c \in copies : /\ c.w \in Weights /\ c.off \in Nat
                         /\ c = [w |-> c.w, off |-> c.off]
BY IpcAssumption DEF Types, Weights, Entries

LEMMA DisjointIntervals ==
  ASSUME NEW a \in Nat, NEW m \in Nat, NEW b \in Nat, NEW n \in Nat,
         a + m <= b \/ b + n <= a
  PROVE  (a .. a + m - 1) \cap (b .. b + n - 1) = {}
OBVIOUS

LEMMA IntervalInside ==
  ASSUME NEW a \in Nat, NEW m \in Nat, NEW n \in Nat, a + m <= n
  PROVE  (a .. a + m - 1) \subseteq (0 .. n - 1)
OBVIOUS

(* A weight packed comes after all others of the bucket.                   *)
LEMMA PackLayout == IInv /\ Pack => Layout'
<1> SUFFICES ASSUME IInv, Pack PROVE Layout'
  OBVIOUS
<1>0. /\ nextW \in Nat /\ offset \in Nat /\ stream[nextW] \in Nat
      /\ \A w \in DOMAIN bucketMeta : w \in Nat /\ stream[w] \in Nat /\ bucketMeta[w] \in Nat
  BY SenderFacts DEF IInv, Pack
<1>1. \A w \in DOMAIN bucketMeta :
        /\ w < nextW
        /\ bucketMeta[w] + stream[w] <= offset
        /\ \A v \in DOMAIN bucketMeta : v < w => bucketMeta[v] + stream[v] <= bucketMeta[w]
  BY DEF IInv, Layout, Pack
<1>2. \A w \in DOMAIN bucketMeta :
        \/ [w |-> w, off |-> bucketMeta[w]] \in copies
        \/ \A i \in Span(bucketMeta[w], w) : bucket[i] = <<sync, w>>
  BY DEF IInv, Layout, Pack
<1>3. /\ offset' = offset + stream[nextW] /\ nextW' = nextW + 1
      /\ copies' = copies \cup {[w |-> nextW, off |-> offset]}
      /\ UNCHANGED <<stream, sync, bucket>>
  BY DEF Pack, syncVars
<1>4. /\ DOMAIN bucketMeta' = DOMAIN bucketMeta \cup {nextW}
      /\ bucketMeta'[nextW] = offset
      /\ \A w \in DOMAIN bucketMeta : bucketMeta'[w] = bucketMeta[w]
  BY <1>0, <1>1 DEF Pack
<1>5. ASSUME NEW w \in DOMAIN bucketMeta'
      PROVE  /\ w < nextW' /\ bucketMeta'[w] + stream[w] <= offset'
             /\ \A v \in DOMAIN bucketMeta' : v < w => bucketMeta'[v] + stream[v] <= bucketMeta'[w]
  <2>1. CASE w = nextW
    <3>1. ASSUME NEW v \in DOMAIN bucketMeta', v < w PROVE bucketMeta'[v] + stream[v] <= bucketMeta'[w]
      <4>1. v \in DOMAIN bucketMeta
        BY <1>0, <1>4, <2>1, <3>1
      <4> QED
        BY <1>1, <1>4, <2>1, <4>1
    <3> QED
      BY <1>0, <1>3, <1>4, <2>1, <3>1
  <2>2. CASE w \in DOMAIN bucketMeta
    <3>1. /\ w \in Nat /\ stream[w] \in Nat /\ bucketMeta[w] \in Nat /\ w < nextW
          /\ bucketMeta[w] + stream[w] <= offset /\ bucketMeta'[w] = bucketMeta[w]
      BY <1>0, <1>1, <1>4, <2>2
    <3>2. ASSUME NEW v \in DOMAIN bucketMeta', v < w PROVE bucketMeta'[v] + stream[v] <= bucketMeta'[w]
      <4>1. v \in DOMAIN bucketMeta
        BY <1>0, <1>4, <3>1, <3>2
      <4>2. bucketMeta[v] + stream[v] <= bucketMeta[w] /\ bucketMeta'[v] = bucketMeta[v]
        BY <1>1, <1>4, <2>2, <3>2, <4>1
      <4> QED
        BY <3>1, <4>2
    <3> QED
      BY <1>0, <1>3, <3>1, <3>2
  <2> QED
    BY <1>4, <2>1, <2>2
<1>6. ASSUME NEW w \in DOMAIN bucketMeta'
      PROVE  \/ [w |-> w, off |-> bucketMeta'[w]] \in copies'
             \/ \A i \in Span(bucketMeta'[w], w) : bucket'[i] = <<sync', w>>
  <2>1. CASE w = nextW
    BY <1>3, <1>4, <2>1
  <2>2. CASE w \in DOMAIN bucketMeta /\ [w |-> w, off |-> bucketMeta[w]] \in copies
    BY <1>3, <1>4, <2>2
  <2>3. CASE w \in DOMAIN bucketMeta /\ \A i \in Span(bucketMeta[w], w) : bucket[i] = <<sync, w>>
    BY <1>3, <1>4, <2>3 DEF Span
  <2> QED
    BY <1>2, <1>4, <2>1, <2>2, <2>3
<1> QED
  BY <1>3, <1>5, <1>6 DEF Layout, Span

(* A copy executed writes its own weight and no other.                     *)
LEMMA CopyInLayout ==
  ASSUME IInv, NEW c \in copies, CopyIn(c), spc = "pack"
  PROVE  Layout'
<1>0. /\ offset \in Nat /\ offset <= BucketSize /\ BucketSize \in Nat /\ c.off \in Nat
      /\ \A w \in DOMAIN bucketMeta : w \in Nat /\ stream[w] \in Nat /\ bucketMeta[w] \in Nat
  BY SenderFacts, IpcAssumption DEF IInv
<1>1. c.w \in DOMAIN bucketMeta /\ c.off = bucketMeta[c.w]
  BY DEF IInv, PendingCopies
<1>2. \A w \in DOMAIN bucketMeta :
        /\ w < nextW
        /\ bucketMeta[w] + stream[w] <= offset
        /\ \A v \in DOMAIN bucketMeta : v < w => bucketMeta[v] + stream[v] <= bucketMeta[w]
  BY DEF IInv, Layout
<1>3. \A w \in DOMAIN bucketMeta :
        \/ [w |-> w, off |-> bucketMeta[w]] \in copies
        \/ \A i \in Span(bucketMeta[w], w) : bucket[i] = <<sync, w>>
  BY DEF IInv, Layout
<1>4. /\ UNCHANGED <<stream, sync, spc, nextW, offset, bucketMeta>> /\ copies' = copies \ {c}
      /\ bucket' = [i \in Bytes |-> IF i \in Span(c.off, c.w) THEN <<sync, c.w>> ELSE bucket[i]]
  BY DEF CopyIn, syncVars, senderVars
<1>5. ASSUME NEW w \in DOMAIN bucketMeta PROVE Span(bucketMeta[w], w) \subseteq Bytes
  <2>1. bucketMeta[w] + stream[w] <= BucketSize
    BY <1>0, <1>2
  <2> QED
    BY <1>0, <2>1, IntervalInside DEF Span, Bytes
<1>6. ASSUME NEW w \in DOMAIN bucketMeta, w # c.w
      PROVE  Span(bucketMeta[w], w) \cap Span(c.off, c.w) = {}
  <2>1. w < c.w \/ c.w < w
    BY <1>0, <1>1, <1>6
  <2>2. bucketMeta[w] + stream[w] <= c.off \/ c.off + stream[c.w] <= bucketMeta[w]
    BY <1>1, <1>2, <2>1
  <2> QED
    BY <1>0, <1>1, <2>2, DisjointIntervals DEF Span
<1>7. ASSUME NEW w \in DOMAIN bucketMeta
      PROVE  \/ [w |-> w, off |-> bucketMeta[w]] \in copies'
             \/ \A i \in Span(bucketMeta[w], w) : bucket'[i] = <<sync, w>>
  <2>1. CASE w = c.w
    BY <1>1, <1>4, <1>5, <2>1
  <2>2. CASE w # c.w /\ [w |-> w, off |-> bucketMeta[w]] \in copies
    BY <1>4, <2>2
  <2>3. CASE w # c.w /\ \A i \in Span(bucketMeta[w], w) : bucket[i] = <<sync, w>>
    BY <1>4, <1>5, <1>6, <2>3
  <2> QED
    BY <1>3, <2>1, <2>2, <2>3
<1> QED
  BY <1>2, <1>4, <1>7 DEF Layout, Span

LEMMA LayoutStep == IInv /\ [Next]_vars => Layout'
<1> SUFFICES ASSUME IInv, [Next]_vars PROVE Layout'
  OBVIOUS
<1>0. Layout
  BY DEF IInv
<1>1. CASE StartSync \/ RaiseTooLarge \/ Flush \/ SendDone \/ SenderTimeout
  BY <1>1 DEF StartSync, RaiseTooLarge, Flush, SendDone, SenderTimeout, Layout
<1>2. CASE Acknowledged
  BY <1>2, NothingIs DEF Acknowledged, Layout
<1>3. ASSUME NEW c \in copies, CopyIn(c) PROVE Layout'
  <2>1. spc' = spc
    BY <1>3 DEF CopyIn, senderVars
  <2> QED
    BY <1>3, <2>1, CopyInLayout DEF Layout
<1>4. CASE RankStep \/ UNCHANGED vars
  <2>1. UNCHANGED <<sync, stream, spc, nextW, offset, bucketMeta, copies, bucket>>
    BY <1>4, RankFrame DEF vars, syncVars, senderVars
  <2> QED
    BY <1>0, <2>1 DEF Layout, Span
<1> QED
  BY <1>1, <1>2, <1>3, <1>4, PackLayout DEF Next, Sender, RankStep

LEMMA PendingCopiesStep == IInv /\ [Next]_vars => PendingCopies'
<1> SUFFICES ASSUME IInv, [Next]_vars PROVE PendingCopies'
  OBVIOUS
<1>0. Types /\ Layout /\ PendingCopies /\ SenderFacts!2
  BY SenderFacts DEF IInv
<1>1. CASE StartSync \/ RaiseTooLarge \/ SendDone
  BY <1>0, <1>1 DEF StartSync, RaiseTooLarge, SendDone, PendingCopies
<1>2. CASE Pack
  <2>1. /\ spc = "pack" /\ spc' = "pack" /\ copies' = copies \cup {[w |-> nextW, off |-> offset]}
        /\ DOMAIN bucketMeta' = DOMAIN bucketMeta \cup {nextW}
        /\ bucketMeta'[nextW] = offset
        /\ \A w \in DOMAIN bucketMeta : w # nextW => bucketMeta'[w] = bucketMeta[w]
    BY <1>2 DEF Pack
  <2>2. nextW \notin DOMAIN bucketMeta
    <3>1. nextW \in Nat /\ \A w \in DOMAIN bucketMeta : w < nextW
      BY <1>0, <2>1 DEF Layout, Types
    <3> QED
      BY <3>1
  <2>3. ASSUME NEW c \in copies' PROVE c.w \in DOMAIN bucketMeta' /\ c.off = bucketMeta'[c.w]
    <3>1. CASE c = [w |-> nextW, off |-> offset]
      BY <2>1, <3>1
    <3>2. CASE c \in copies
      BY <1>0, <2>1, <2>2, <3>2 DEF PendingCopies
    <3> QED
      BY <2>1, <3>1, <3>2
  <2> QED
    BY <2>1, <2>3 DEF PendingCopies
<1>3. CASE Flush
  BY <1>3 DEF Flush, Synchronized, PendingCopies
<1>4. CASE Acknowledged \/ SenderTimeout
  BY <1>0, <1>4 DEF Acknowledged, SenderTimeout, PendingCopies
<1>5. ASSUME NEW c \in copies, CopyIn(c) PROVE PendingCopies'
  BY <1>0, <1>5 DEF CopyIn, PendingCopies, senderVars
<1>6. CASE RankStep \/ UNCHANGED vars
  <2>1. UNCHANGED <<spc, bucketMeta, copies>>
    BY <1>6, RankFrame DEF vars, senderVars
  <2> QED
    BY <1>0, <2>1 DEF PendingCopies
<1> QED
  BY <1>1, <1>2, <1>3, <1>4, <1>5, <1>6 DEF Next, Sender, RankStep

LEMMA BucketFilledStep == IInv /\ [Next]_vars => BucketFilled'
<1> SUFFICES ASSUME IInv, [Next]_vars PROVE BucketFilled'
  OBVIOUS
<1>0. Types /\ Layout /\ BucketFilled /\ Turns /\ PendingCopies
  BY DEF IInv
<1>1. CASE StartSync
  <2>1. spc' = "handshake" /\ rpc'[Driver] = "handle"
    BY <1>1, IpcAssumption DEF StartSync
  <2> QED
    BY <2>1 DEF BucketFilled, InUse
<1>2. CASE RaiseTooLarge \/ Pack \/ Acknowledged \/ SendDone
  <2>1. rpc'[Driver] = rpc[Driver] /\ spc' \notin {"flush", "flushLast"}
    BY <1>2 DEF RaiseTooLarge, Pack, Acknowledged, SendDone, rankVars
  <2>2. CASE RaiseTooLarge \/ Pack
    <3>1. BetweenBuckets
      BY <1>0, <2>2 DEF RaiseTooLarge, Pack, Turns
    <3> QED
      BY <2>1, <3>1 DEF BetweenBuckets, BucketFilled, InUse
  <2>3. CASE SendDone
    <3>1. AfterLast
      BY <1>0, <2>3 DEF SendDone, Turns
    <3> QED
      BY <2>1, <3>1 DEF AfterLast, BucketFilled, InUse
  <2>4. CASE Acknowledged
    <3>1. wire = Reply /\ spc \in {"handshake", "flush", "flushLast"}
      BY <2>4 DEF Acknowledged
    <3>2. rpc[Driver] \in {"recv", "failed"} \/ BetweenBuckets \/ AfterLast
      BY <1>0, <3>1, Wires DEF Turns
    <3> QED
      BY <2>1, <3>2 DEF BetweenBuckets, AfterLast, BucketFilled, InUse
  <2> QED
    BY <1>2, <2>2, <2>3, <2>4
<1>3. CASE Flush
  <2>1. spc = "pack" /\ copies = {} /\ UNCHANGED <<copies, bucket, bucketMeta, stream, sync>>
    BY <1>3 DEF Flush, Synchronized, syncVars
  <2> QED
    BY <1>0, <2>1 DEF Layout, BucketFilled, Filled, Span
<1>4. CASE SenderTimeout
  <2>1. (InUse' => InUse) /\ UNCHANGED <<copies, bucket, bucketMeta, stream, sync>>
    BY <1>4 DEF SenderTimeout, InUse, syncVars, rankVars
  <2> QED
    BY <1>0, <2>1 DEF BucketFilled, Filled, Span
<1>5. ASSUME NEW c \in copies, CopyIn(c) PROVE BucketFilled'
  <2>1. ~InUse /\ UNCHANGED <<spc, rpc>>
    BY <1>0, <1>5 DEF CopyIn, BucketFilled, senderVars, rankVars
  <2> QED
    BY <2>1 DEF BucketFilled, InUse
<1>6. CASE RankStep \/ UNCHANGED vars
  <2>1. UNCHANGED <<spc, copies, bucket, bucketMeta, stream, sync>>
    BY <1>6, RankFrame DEF vars, syncVars, senderVars
  <2>2. InUse' => InUse
    <3>1. CASE DriverBucket
      <4>1. wire.kind = "payload"
        BY <3>1 DEF DriverBucket
      <4>2. spc \in {"flush", "flushLast"}
        BY <1>0, <4>1, Wires DEF Turns, Types, SenderStates
      <4> QED
        BY <4>2 DEF InUse
    <3>2. CASE DriverHandle \/ Barrier \/ DriverReply \/ DriverTimeout \/ UNCHANGED vars
      BY <1>0, <2>1, <3>2, IpcAssumption
      DEF DriverHandle, Barrier, Released, Arrived, DriverReply, DriverTimeout, vars, rankVars, InUse, Types
    <3>3. ASSUME NEW r \in Ranks, Rank(r) PROVE InUse' => InUse
      BY <1>0, <2>1, <3>3, IpcAssumption
      DEF Rank, TakeHandle, TakeBucket, Clone, CopyOut, EnterBarrier, Load, Finish, Return, InUse, Types
    <3> QED
      BY <1>6, <3>1, <3>2, <3>3 DEF RankStep, Group
  <2> QED
    BY <1>0, <2>1, <2>2 DEF BucketFilled, Filled, Span
<1> QED
  BY <1>1, <1>2, <1>3, <1>4, <1>5, <1>6 DEF Next, Sender, RankStep
-----------------------------------------------------------------------------
(* Whose turn it is                                                        *)

(* A step of one rank leaves the others and the socket pair alone.         *)
LEMMA RankLocal ==
  ASSUME Types, NEW r \in Ranks, Rank(r), NEW q \in Ranks, q # r
  PROVE  /\ wire' = wire
         /\ rpc'[q] = rpc[q] /\ objs'[q] = objs[q] /\ message'[q] = message[q]
         /\ reads'[q] = reads[q] /\ taken'[q] = taken[q] /\ loaded'[q] = loaded[q]
         /\ torn'[q] = torn[q]
<1>1. CASE TakeHandle(r) \/ TakeBucket(r)
  BY <1>1 DEF TakeHandle, TakeBucket, Clone, Types
<1>2. CASE EnterBarrier(r) \/ Finish(r) \/ Return(r)
  BY <1>2 DEF EnterBarrier, Finish, Return, Types
<1>3. CASE Load(r)
  BY <1>3 DEF Load, Types
<1>4. ASSUME NEW c \in reads[r], CopyOut(r, c)
      PROVE  /\ wire' = wire
             /\ rpc'[q] = rpc[q] /\ objs'[q] = objs[q] /\ message'[q] = message[q]
             /\ reads'[q] = reads[q] /\ taken'[q] = taken[q] /\ loaded'[q] = loaded[q]
             /\ torn'[q] = torn[q]
  BY <1>4 DEF CopyOut, Types
<1> QED
  BY <1>1, <1>2, <1>3, <1>4 DEF Rank

(* What a step of a rank does to the rank itself.                          *)
LEMMA RankOwn ==
  ASSUME Types, NEW r \in Ranks
  PROVE  /\ TakeHandle(r) => /\ rpc'[r] = "recv" /\ objs'[r] = Tail(objs[r])
                             /\ UNCHANGED <<message, reads, taken, loaded>>
         /\ TakeBucket(r) => /\ rpc'[r] = "clone" /\ objs'[r] = Tail(objs[r])
                             /\ message'[r] = Head(objs[r]) /\ UNCHANGED <<taken, loaded>>
         /\ EnterBarrier(r) => /\ rpc'[r] = "barrier" /\ reads[r] = {}
                               /\ UNCHANGED <<objs, message, reads, taken, loaded>>
         /\ Load(r) => /\ rpc'[r] = IF message[r].last THEN "finish" ELSE "recv"
                       /\ UNCHANGED <<objs, message, reads>>
         /\ Finish(r) => /\ rpc'[r] = "return" /\ taken'[r] = {}
                         /\ message'[r] = Nothing /\ UNCHANGED <<objs, reads>>
         /\ Return(r) => /\ rpc'[r] = "idle"
                         /\ UNCHANGED <<objs, message, reads, taken, loaded>>
         /\ \A c \in reads[r] : CopyOut(r, c) =>
              /\ reads'[r] = reads[r] \ {c} /\ taken'[r] = taken[r] \cup {c.w}
              /\ UNCHANGED <<rpc, objs, message, loaded>>
<1>1. \A c \in reads[r] : CopyOut(r, c) =>
         /\ reads'[r] = reads[r] \ {c} /\ taken'[r] = taken[r] \cup {c.w}
         /\ UNCHANGED <<rpc, objs, message, loaded>>
  BY DEF Types, CopyOut
<1>2. TakeHandle(r) => /\ rpc'[r] = "recv" /\ objs'[r] = Tail(objs[r])
                       /\ UNCHANGED <<message, reads, taken, loaded>>
  BY DEF Types, TakeHandle
<1>3. TakeBucket(r) => /\ rpc'[r] = "clone" /\ objs'[r] = Tail(objs[r])
                       /\ message'[r] = Head(objs[r]) /\ UNCHANGED <<taken, loaded>>
  BY DEF Types, TakeBucket, Clone
<1>4. /\ EnterBarrier(r) => /\ rpc'[r] = "barrier" /\ reads[r] = {}
                            /\ UNCHANGED <<objs, message, reads, taken, loaded>>
      /\ Return(r) => /\ rpc'[r] = "idle"
                      /\ UNCHANGED <<objs, message, reads, taken, loaded>>
  BY DEF Types, EnterBarrier, Synchronized, Return
<1>5. Load(r) => /\ rpc'[r] = IF message[r].last THEN "finish" ELSE "recv"
                 /\ UNCHANGED <<objs, message, reads>>
  BY DEF Types, Load
<1>6. Finish(r) => /\ rpc'[r] = "return" /\ taken'[r] = {}
                   /\ message'[r] = Nothing /\ UNCHANGED <<objs, reads>>
  BY DEF Types, Finish
<1> QED
  BY <1>1, <1>2, <1>3, <1>4, <1>5, <1>6

LEMMA Tails ==
  /\ \A a : Tail(<<a>>) = << >> /\ Head(<<a>>) = a
  /\ \A a, b : Tail(<<a, b>>) = <<b>>
OBVIOUS

LEMMA AppendToNone == \A b : Append(<< >>, b) = <<b>>
OBVIOUS

(* A rank takes what the driver has told it, in order.                     *)
LEMMA TakesTold ==
  ASSUME IInv, NEW r \in Ranks
  PROVE  /\ TakeHandle(r) => /\ r # Driver /\ rpc[r] = "handle"
                             /\ \/ /\ rpc[Driver] \in {"recv", "failed"}
                                   /\ objs[r] = <<Nothing>> /\ objs'[r] = << >>
                                \/ /\ rpc[Driver] \in {"clone", "barrier"}
                                   /\ objs[r] = <<Nothing, message[Driver]>>
                                   /\ objs'[r] = <<message[Driver]>>
         /\ TakeBucket(r) => /\ r # Driver /\ rpc[r] = "recv"
                             /\ rpc[Driver] \in {"clone", "barrier"}
                             /\ message[Driver] = Current
                             /\ objs[r] = <<Current>> /\ objs'[r] = << >>
                             /\ Clone(r, Current) /\ message'[r] = Current
<1>0. Types /\ Turns /\ Driver \in Ranks /\ (r # Driver => Behind(r))
      /\ rpc[Driver] \in RankStates
  BY IpcAssumption DEF IInv, Types
<1>1. ASSUME TakeHandle(r)
      PROVE  /\ r # Driver /\ rpc[r] = "handle"
             /\ \/ /\ rpc[Driver] \in {"recv", "failed"}
                   /\ objs[r] = <<Nothing>> /\ objs'[r] = << >>
                \/ /\ rpc[Driver] \in {"clone", "barrier"}
                   /\ objs[r] = <<Nothing, message[Driver]>>
                   /\ objs'[r] = <<message[Driver]>>
  <2>1. r # Driver /\ rpc[r] = "handle" /\ objs[r] # << >> /\ objs'[r] = Tail(objs[r])
    BY <1>0, <1>1, RankOwn DEF TakeHandle
  <2>2. \/ rpc[Driver] \in {"recv", "failed"} /\ objs[r] = <<Nothing>>
        \/ rpc[Driver] \in {"clone", "barrier"} /\ objs[r] = <<Nothing, message[Driver]>>
    BY <1>0, <2>1 DEF Behind, Waiting, Leaving, RankStates
  <2> QED
    BY <2>1, <2>2, Tails
<1>2. ASSUME TakeBucket(r)
      PROVE  /\ r # Driver /\ rpc[r] = "recv"
             /\ rpc[Driver] \in {"clone", "barrier"}
             /\ message[Driver] = Current
             /\ objs[r] = <<Current>> /\ objs'[r] = << >>
             /\ Clone(r, Current) /\ message'[r] = Current
  <2>1. /\ r # Driver /\ rpc[r] = "recv" /\ objs[r] # << >> /\ objs'[r] = Tail(objs[r])
        /\ Clone(r, Head(objs[r])) /\ message'[r] = Head(objs[r])
    BY <1>0, <1>2, RankOwn DEF TakeBucket
  <2>2. rpc[Driver] \in {"clone", "barrier"} /\ objs[r] = <<message[Driver]>>
    BY <1>0, <2>1 DEF Behind, Waiting, Leaving, RankStates
  <2>3. message[Driver] = Current
    BY <1>0, <2>2 DEF Turns
  <2> QED
    BY <2>1, <2>2, <2>3
<1> QED
  BY <1>1, <1>2

(* A rank that clones a bucket clones the one the driver clones.           *)
LEMMA SameBucket ==
  ASSUME IInv, NEW r \in Ranks, rpc[r] \in {"clone", "barrier"}
  PROVE  rpc[Driver] \in {"clone", "barrier"} /\ message[r] = Current
<1>0. Types /\ Turns /\ Driver \in Ranks /\ (r # Driver => Behind(r))
      /\ rpc[Driver] \in RankStates
  BY IpcAssumption DEF IInv, Types
<1>1. CASE r = Driver
  BY <1>0, <1>1 DEF Turns
<1>2. CASE r # Driver
  <2>1. rpc[Driver] \in {"clone", "barrier"} /\ message[r] = message[Driver]
    BY <1>0, <1>2 DEF Behind, Waiting, Leaving, RankStates
  <2> QED
    BY <1>0, <2>1 DEF Turns
<1> QED
  BY <1>1, <1>2

(* A message on the wire finds the sender waiting for the answer.          *)
LEMMA WireTells ==
  ASSUME IInv
  PROVE  /\ wire = Handle => spc = "handshake" /\ rpc[Driver] = "handle"
         /\ wire.kind = "payload" => /\ spc \in {"flush", "flushLast"}
                                     /\ wire = Payload(Current) /\ wire.msg = Current
<1>1. Turns /\ spc \in SenderStates
  BY DEF IInv, Types
<1> QED
  BY <1>1, Wires DEF Turns, SenderStates

(* The ranks are idle between two synchronisations.                        *)
LEMMA IdleRanks ==
  ASSUME IInv, spc = "idle"
  PROVE  ~RankStep
<1>0. Types /\ wire = Empty /\ Driver \in Ranks
      /\ \A r \in Ranks : rpc[r] = "idle" /\ reads[r] = {}
  BY IpcAssumption DEF IInv, Turns, Reading
<1>1. ~Group
  BY <1>0, Wires DEF Group, DriverHandle, DriverBucket, Barrier, Released, Arrived, DriverReply
<1>2. ~DriverTimeout
  BY <1>0 DEF DriverTimeout
<1>3. ASSUME NEW r \in Ranks PROVE ~Rank(r)
  BY <1>0 DEF Rank, TakeHandle, TakeBucket, EnterBarrier, Load, Finish, Return
<1> QED
  BY <1>1, <1>2, <1>3 DEF RankStep
LEMMA TurnsStep == IInv /\ [Next]_vars => Turns'
<1> SUFFICES ASSUME IInv, [Next]_vars PROVE Turns'
  OBVIOUS
<1>0. Types /\ Turns /\ Driver \in Ranks /\ rpc[Driver] \in RankStates /\ spc \in SenderStates
  BY IpcAssumption DEF IInv, Types
<1>1. CASE StartSync
  <2>1. /\ spc' = "handshake" /\ wire' = Handle /\ rpc'[Driver] = "handle"
        /\ DOMAIN bucketMeta' = {}
    BY <1>0, <1>1, NothingIs DEF StartSync
  <2> QED
    BY <2>1 DEF Turns
<1>2. CASE RaiseTooLarge \/ Pack
  <2>1. /\ wire' = wire /\ rpc' = rpc /\ message' = message
        /\ spc = "pack" /\ spc' \in {"pack", "failed"}
    BY <1>2 DEF RaiseTooLarge, Pack, rankVars
  <2>2. wire = Empty /\ BetweenBuckets
    BY <1>0, <2>1 DEF Turns
  <2> QED
    BY <2>1, <2>2 DEF Turns, BetweenBuckets
<1>3. CASE Flush
  <2>1. /\ UNCHANGED <<rpc, message, nextW, stream, bucketMeta>> /\ spc = "pack"
        /\ wire' = Payload(Current) /\ spc' = IF AtEnd THEN "flushLast" ELSE "flush"
    BY <1>3 DEF Flush, Current, AtEnd, rankVars, syncVars
  <2>2. BetweenBuckets /\ Current' = Current /\ AtEnd' = AtEnd
    BY <1>0, <2>1 DEF Turns, Current, AtEnd, Weights
  <2> QED
    BY <2>1, <2>2 DEF Turns, BetweenBuckets
<1>4. CASE Acknowledged
  <2>1. /\ UNCHANGED <<rpc, message>> /\ wire = Reply /\ wire' = Empty
        /\ spc \in {"handshake", "flush", "flushLast"}
        /\ spc' = IF spc = "flushLast" THEN "rpc" ELSE "pack"
    BY <1>4 DEF Acknowledged, rankVars
  <2>2. IF spc = "flushLast" THEN AfterLast ELSE BetweenBuckets
    BY <1>0, <2>1, Wires DEF Turns, BetweenBuckets
  <2> QED
    BY <2>1, <2>2 DEF Turns, BetweenBuckets, AfterLast
<1>5. CASE SendDone
  <2>1. /\ UNCHANGED <<rpc, wire>> /\ spc = "rpc" /\ spc' = "idle"
        /\ \A r \in Ranks : rpc[r] = "idle"
    BY <1>5 DEF SendDone, rankVars
  <2> QED
    BY <1>0, <2>1 DEF Turns
<1>6. CASE SenderTimeout
  <2>1. /\ UNCHANGED <<rpc, message, nextW, stream, bucketMeta>> /\ spc' = "failed" /\ wire' = Empty
    BY <1>6 DEF SenderTimeout, rankVars, syncVars
  <2> QED
    BY <1>0, <2>1 DEF Turns, Current, AtEnd, Weights
<1>7. CASE UNCHANGED vars \/ \E c \in copies : CopyIn(c)
  <2>1. UNCHANGED <<rpc, message, nextW, stream, bucketMeta, spc, wire>>
    BY <1>7 DEF CopyIn, vars, syncVars, senderVars, rankVars
  <2> QED
    BY <1>0, <2>1 DEF Turns, Current, AtEnd, Weights, BetweenBuckets, AfterLast
<1>8. CASE RankStep
  <2>0. /\ UNCHANGED <<nextW, stream, bucketMeta, spc>> /\ spc # "idle"
        /\ Current' = Current /\ AtEnd' = AtEnd
    BY <1>8, RankFrame, IdleRanks DEF syncVars, senderVars, Current, AtEnd, Weights
  <2>1. CASE DriverHandle
    <3>1. spc = "handshake" /\ wire' = Reply /\ rpc'[Driver] = "recv"
      BY <1>0, <2>1, WireTells DEF DriverHandle, Types
    <3> QED
      BY <1>0, <2>0, <3>1 DEF Turns
  <2>2. CASE DriverBucket
    <3>1. /\ spc \in {"flush", "flushLast"} /\ wire' = Replying
          /\ rpc'[Driver] = "clone" /\ message'[Driver] = Current
      BY <1>0, <2>2, WireTells DEF DriverBucket, Clone, Types
    <3> QED
      BY <1>0, <2>0, <3>1 DEF Turns
  <2>3. CASE Barrier
    <3>1. rpc[Driver] = "barrier" /\ rpc'[Driver] = "passed" /\ UNCHANGED <<message, wire>>
      BY <1>0, <2>3 DEF Barrier, Released, Arrived
    <3> QED
      BY <1>0, <2>0, <3>1, Wires DEF Turns, BetweenBuckets, AfterLast
  <2>4. CASE DriverReply
    <3>1. /\ rpc[Driver] = "passed" /\ rpc'[Driver] = "load" /\ message' = message
          /\ wire' = IF wire = Replying THEN Reply ELSE wire
      BY <1>0, <2>4 DEF DriverReply, Types
    <3>2. message[Driver].last = AtEnd
      BY <1>0, <3>1, MessageIs DEF Turns, Current
    <3>3. CASE spc = "failed"
      BY <1>0, <2>0, <3>1, <3>3, Wires DEF Turns
    <3>4. CASE spc # "failed"
      <4>1. spc \in {"flush", "flushLast"} /\ wire = Replying
        BY <1>0, <2>0, <3>1, <3>4 DEF Turns, BetweenBuckets, AfterLast, SenderStates
      <4>2. IF AtEnd' THEN AfterLast' ELSE BetweenBuckets'
        BY <2>0, <3>1, <3>2 DEF AfterLast, BetweenBuckets
      <4> QED
        BY <1>0, <2>0, <3>1, <4>1, <4>2 DEF Turns
    <3> QED
      BY <3>3, <3>4
  <2>5. CASE DriverTimeout
    <3>1. /\ rpc[Driver] \in {"handle", "recv"} /\ rpc'[Driver] = "failed" /\ UNCHANGED <<message, wire>>
          /\ wire.kind \notin {"handle", "payload"}
      BY <1>0, <2>5 DEF DriverTimeout, Types
    <3>2. BetweenBuckets' /\ wire # Handle /\ wire # Payload(Current)
      BY <3>1, Wires DEF BetweenBuckets
    <3>3. rpc'[Driver] \notin {"clone", "barrier", "passed"}
      BY <3>1
    <3> QED
      BY <1>0, <2>0, <3>1, <3>2, <3>3 DEF Turns, AfterLast
  <2>6. CASE Rank(Driver)
    <3>0. wire' = wire
      BY <2>6 DEF Rank, TakeHandle, TakeBucket, EnterBarrier, Load, Finish, Return, CopyOut
    <3>1. ~TakeHandle(Driver) /\ ~TakeBucket(Driver)
      BY DEF TakeHandle, TakeBucket
    <3>2. CASE EnterBarrier(Driver)
      <4>1. rpc[Driver] = "clone" /\ rpc'[Driver] = "barrier" /\ message' = message
        BY <1>0, <3>2, RankOwn DEF EnterBarrier
      <4> QED
        BY <1>0, <2>0, <3>0, <4>1 DEF Turns, BetweenBuckets, AfterLast
    <3>3. CASE Load(Driver)
      <4>1. /\ rpc[Driver] = "load" /\ rpc'[Driver] = IF message[Driver].last THEN "finish" ELSE "recv"
            /\ message' = message
        BY <1>0, <3>3, RankOwn DEF Load
      <4>2. (BetweenBuckets => BetweenBuckets') /\ (AfterLast => AfterLast')
        BY <4>1 DEF BetweenBuckets, AfterLast
      <4> QED
        BY <1>0, <2>0, <3>0, <4>1, <4>2 DEF Turns
    <3>4. CASE Finish(Driver) \/ Return(Driver)
      <4>1. rpc[Driver] \in {"finish", "return"} /\ rpc'[Driver] \in {"return", "idle"}
        BY <1>0, <3>4, RankOwn DEF Finish, Return
      <4>2. ~BetweenBuckets /\ AfterLast'
        BY <4>1 DEF BetweenBuckets, AfterLast
      <4> QED
        BY <1>0, <2>0, <3>0, <4>1, <4>2 DEF Turns
    <3>5. CASE \E c \in reads[Driver] : CopyOut(Driver, c)
      <4>1. UNCHANGED <<rpc, message>>
        BY <3>5 DEF CopyOut
      <4> QED
        BY <1>0, <2>0, <3>0, <4>1 DEF Turns, BetweenBuckets, AfterLast
    <3> QED
      BY <2>6, <3>1, <3>2, <3>3, <3>4, <3>5 DEF Rank
  <2>7. ASSUME NEW r \in Ranks, r # Driver, Rank(r) PROVE Turns'
    <3>1. wire' = wire /\ rpc'[Driver] = rpc[Driver] /\ message'[Driver] = message[Driver]
      BY <1>0, <2>7, RankLocal
    <3> QED
      BY <1>0, <2>0, <3>1 DEF Turns, BetweenBuckets, AfterLast
  <2> QED
    BY <1>8, <2>1, <2>2, <2>3, <2>4, <2>5, <2>6, <2>7 DEF RankStep, Group
<1> QED
  BY <1>1, <1>2, <1>3, <1>4, <1>5, <1>6, <1>7, <1>8 DEF Next, Sender, RankStep

-----------------------------------------------------------------------------
(* How far a rank is behind                                                *)

LEMMA QueueStep == IInv /\ [Next]_vars => (objs[Driver] = << >>)'
<1> SUFFICES ASSUME IInv, [Next]_vars PROVE objs'[Driver] = << >>
  OBVIOUS
<1>0. Types /\ Driver \in Ranks /\ objs[Driver] = << >>
  BY IpcAssumption DEF IInv
<1>1. CASE StartSync \/ Sender \/ SenderTimeout \/ UNCHANGED vars
  BY <1>0, <1>1 DEF StartSync, Sender, RaiseTooLarge, Pack, Flush, Acknowledged, SendDone, CopyIn,
                    SenderTimeout, vars, rankVars
<1>2. CASE Group \/ DriverTimeout
  BY <1>0, <1>2 DEF Group, DriverHandle, DriverBucket, Share, Barrier, DriverReply, DriverTimeout
<1>3. CASE Rank(Driver)
  BY <1>0, <1>3, RankOwn DEF Rank, TakeHandle, TakeBucket, Load, Finish
<1>4. ASSUME NEW r \in Ranks, r # Driver, Rank(r) PROVE objs'[Driver] = << >>
  BY <1>0, <1>4, RankLocal
<1> QED
  BY <1>1, <1>2, <1>3, <1>4 DEF Next

(* The sender leaves the ranks alone, but for the start of an RPC.         *)
SenderStep == Sender \/ SenderTimeout
LEMMA SenderLeavesRanks == SenderStep => UNCHANGED rankVars
BY DEF SenderStep, Sender, RaiseTooLarge, Pack, Flush, Acknowledged, SendDone, CopyIn, SenderTimeout

LEMMA BehindStep ==
  ASSUME IInv, [Next]_vars, NEW r \in Ranks, r # Driver
  PROVE  Behind(r)'
<1>0. Types /\ Driver \in Ranks /\ Behind(r) /\ rpc[r] \in RankStates /\ rpc[Driver] \in RankStates
  BY IpcAssumption DEF IInv, Types
<1>1. CASE StartSync
  <2>1. rpc[Driver] = "idle"
    BY <1>0, <1>1 DEF IInv, Turns, StartSync
  <2>2. objs'[r] = << >> /\ rpc'[r] = "handle" /\ rpc'[Driver] = "handle"
    BY <1>0, <1>1, <2>1 DEF StartSync, Behind
  <2> QED
    BY <2>2 DEF Behind
<1>2. CASE SenderStep \/ UNCHANGED vars
  <2>1. UNCHANGED rankVars
    BY <1>2, SenderLeavesRanks DEF vars
  <2> QED
    BY <1>0, <2>1 DEF rankVars, Behind, Waiting, Leaving
<1>3. CASE DriverHandle
  <2>1. rpc'[Driver] = "recv" /\ rpc'[r] = "handle" /\ objs'[r] = <<Nothing>>
    BY <1>0, <1>3 DEF DriverHandle, Share, Behind, Types
  <2> QED
    BY <2>1 DEF Behind
<1>4. CASE DriverBucket
  <2>1. /\ rpc[Driver] = "recv" /\ rpc'[Driver] = "clone"
        /\ rpc'[r] = rpc[r] /\ message'[r] = message[r]
        /\ objs'[r] = Append(objs[r], message'[Driver])
    BY <1>0, <1>4 DEF DriverBucket, Share, Clone, Types
  <2>2. \/ rpc[r] = "handle" /\ objs[r] = <<Nothing>>
        \/ Waiting(r) /\ objs[r] = << >>
    BY <1>0, <2>1 DEF Behind
  <2>3. \/ rpc'[r] = "handle" /\ objs'[r] = <<Nothing, message'[Driver]>>
        \/ Waiting(r)' /\ objs'[r] = <<message'[Driver]>>
    BY <2>1, <2>2, AppendToNone, AppendToOne, Zenon DEF Waiting
  <2> QED
    BY <1>0, <2>1, <2>3 DEF Behind
<1>5. CASE Barrier
  <2>1. /\ rpc[r] = "barrier" /\ rpc[Driver] = "barrier" /\ UNCHANGED <<message, objs>>
        /\ rpc'[r] = "passed" /\ rpc'[Driver] = "passed"
    BY <1>0, <1>5 DEF Barrier, Released, Arrived
  <2>2. message[r] = message[Driver] /\ objs[r] = << >>
    BY <1>0, <2>1 DEF Behind, Waiting
  <2>3. IF message'[Driver].last THEN Leaving(r)' ELSE Waiting(r)'
    BY <2>1, <2>2 DEF Waiting, Leaving
  <2> QED
    BY <2>1, <2>2, <2>3 DEF Behind
<1>6. CASE DriverReply \/ DriverTimeout
  <2>1. /\ UNCHANGED <<message, objs>> /\ rpc'[r] = rpc[r]
        /\ \/ rpc[Driver] = "passed" /\ rpc'[Driver] = "load"
           \/ rpc[Driver] \in {"handle", "recv"} /\ rpc'[Driver] = "failed"
    BY <1>0, <1>6 DEF DriverReply, DriverTimeout, Types
  <2>2. (Waiting(r)' <=> Waiting(r)) /\ (Leaving(r)' <=> Leaving(r))
    BY <2>1 DEF Waiting, Leaving
  <2> QED
    BY <1>0, <2>1, <2>2 DEF Behind
<1>7. CASE Rank(Driver)
  <2>1. rpc'[r] = rpc[r] /\ objs'[r] = objs[r] /\ message'[r] = message[r]
    BY <1>0, <1>7, RankLocal
  <2>2. (Waiting(r)' <=> Waiting(r)) /\ (Leaving(r)' <=> Leaving(r))
    BY <2>1 DEF Waiting, Leaving
  <2>3. \/ rpc'[Driver] = rpc[Driver] /\ message'[Driver] = message[Driver]
        \/ rpc[Driver] = "clone" /\ rpc'[Driver] = "barrier" /\ message'[Driver] = message[Driver]
        \/ /\ rpc[Driver] = "load"
           /\ rpc'[Driver] = IF message[Driver].last THEN "finish" ELSE "recv"
        \/ rpc[Driver] \in {"finish", "return"} /\ rpc'[Driver] \in {"return", "idle"}
    BY <1>0, <1>7, RankOwn DEF Rank, TakeHandle, TakeBucket, EnterBarrier, Load, Finish, Return
  <2> QED
    BY <1>0, <2>1, <2>2, <2>3 DEF Behind
<1>8. ASSUME NEW q \in Ranks, q # Driver, q # r, Rank(q) PROVE Behind(r)'
  <2>1. /\ rpc'[r] = rpc[r] /\ objs'[r] = objs[r] /\ message'[r] = message[r]
        /\ rpc'[Driver] = rpc[Driver] /\ message'[Driver] = message[Driver]
    BY <1>0, <1>8, RankLocal
  <2> QED
    BY <1>0, <2>1 DEF Behind, Waiting, Leaving
<1>9. CASE Rank(r)
  <2>0. rpc'[Driver] = rpc[Driver] /\ message'[Driver] = message[Driver]
    BY <1>0, <1>9, RankLocal
  <2>1. CASE TakeHandle(r)
    <3>1. rpc'[r] = "recv" /\ Waiting(r)'
      BY <1>0, <2>1, RankOwn DEF Waiting
    <3> QED
      BY <2>0, <2>1, <3>1, TakesTold DEF Behind
  <2>2. CASE TakeBucket(r)
    <3>1. rpc'[r] = "clone" /\ message'[r] = message'[Driver] /\ objs'[r] = << >> /\ rpc[Driver] \in {"clone", "barrier"}
      BY <1>0, <2>0, <2>2, RankOwn, TakesTold
    <3> QED
      BY <2>0, <3>1 DEF Behind
  <2>3. CASE EnterBarrier(r)
    <3>1. rpc[r] = "clone" /\ rpc'[r] = "barrier" /\ UNCHANGED <<objs, message>>
      BY <1>0, <2>3, RankOwn DEF EnterBarrier
    <3> QED
      BY <1>0, <2>0, <3>1 DEF Behind, Waiting, Leaving
  <2>4. CASE Load(r)
    <3>1. /\ rpc[r] = "passed" /\ UNCHANGED <<objs, message>>
          /\ rpc'[r] = IF message[r].last THEN "finish" ELSE "recv"
      BY <1>0, <2>4, RankOwn DEF Load, Behind
    <3>2. (Waiting(r) => Waiting(r)') /\ (Leaving(r) => Leaving(r)')
      BY <3>1 DEF Waiting, Leaving
    <3> QED
      BY <1>0, <2>0, <3>1, <3>2 DEF Behind
  <2>5. CASE Finish(r) \/ Return(r)
    <3>1. /\ rpc[r] \in {"finish", "return"} /\ rpc'[r] \in {"return", "idle"}
          /\ objs' = objs
      BY <1>0, <2>5, RankOwn DEF Finish, Return
    <3>2. ~Waiting(r) /\ Leaving(r)'
      BY <3>1 DEF Waiting, Leaving
    <3> QED
      BY <1>0, <2>0, <3>1, <3>2 DEF Behind
  <2>6. CASE \E c \in reads[r] : CopyOut(r, c)
    <3>1. UNCHANGED <<rpc, objs, message>>
      BY <2>6 DEF CopyOut
    <3> QED
      BY <1>0, <3>1 DEF Behind, Waiting, Leaving
  <2> QED
    BY <1>9, <2>1, <2>2, <2>3, <2>4, <2>5, <2>6 DEF Rank
<1> QED
  BY <1>1, <1>2, <1>3, <1>4, <1>5, <1>6, <1>7, <1>8, <1>9 DEF Next, SenderStep, Group
-----------------------------------------------------------------------------
(* What the ranks hold                                                     *)

LEMMA CurrentIs ==
  Current.meta = bucketMeta /\ Current.last = AtEnd
BY MessageIs DEF Current

(* The clones a rank is about to make are those of the whole bucket.       *)
LEMMA CloneEffect ==
  ASSUME Types, NEW r \in Ranks, Clone(r, Current)
  PROVE  /\ message'[r] = Current /\ rpc'[r] = "clone"
         /\ reads'[r] = {[w |-> w, off |-> bucketMeta[w]] : w \in DOMAIN bucketMeta}
         /\ UNCHANGED <<taken, loaded, torn>>
BY CurrentIs DEF Clone, Types

LEMMA ReadingStep ==
  ASSUME IInv, [Next]_vars, NEW r \in Ranks
  PROVE  Reading(r)'
<1>0. Types /\ Driver \in Ranks /\ Reading(r)
  BY IpcAssumption DEF IInv
<1>1. CASE StartSync
  <2>1. rpc[r] = "idle" /\ UNCHANGED <<reads, taken>>
    BY <1>1 DEF IInv, Turns, StartSync
  <2>2. reads'[r] = {} /\ taken'[r] = {}
    BY <1>0, <2>1 DEF Reading
  <2> QED
    BY <2>2 DEF Reading
<1>2. CASE SenderStep \/ UNCHANGED vars
  <2>1. UNCHANGED rankVars
    BY <1>2, SenderLeavesRanks DEF vars
  <2> QED
    BY <1>0, <2>1 DEF rankVars, Reading
<1>3. CASE DriverHandle \/ DriverReply \/ DriverTimeout \/ Barrier
  <2>1. /\ UNCHANGED <<message, reads, taken>>
        /\ rpc'[r] = rpc[r] \/ (rpc'[r] \in {"recv", "load", "failed", "passed"} /\ rpc[r] # "clone")
    BY <1>0, <1>3 DEF DriverHandle, DriverReply, DriverTimeout, Barrier, Released, Arrived, Types
  <2> QED
    BY <1>0, <2>1 DEF Reading
<1>4. ASSUME Clone(r, Current) PROVE Reading(r)'
  <2>1. /\ message'[r].meta = bucketMeta /\ rpc'[r] = "clone"
        /\ reads'[r] = {[w |-> w, off |-> bucketMeta[w]] : w \in DOMAIN bucketMeta}
    BY <1>0, <1>4, CloneEffect, CurrentIs
  <2> QED
    BY <2>1 DEF Reading
<1>5. CASE DriverBucket
  <2>1. Clone(Driver, Current)
    BY <1>5, WireTells DEF DriverBucket
  <2>2. CASE r = Driver
    BY <1>4, <2>1, <2>2
  <2>3. CASE r # Driver
    <3>1. /\ message'[r] = message[r] /\ rpc'[r] = rpc[r]
          /\ reads'[r] = reads[r] /\ taken'[r] = taken[r]
      BY <1>0, <2>1, <2>3 DEF Clone, Types
    <3> QED
      BY <1>0, <3>1 DEF Reading
  <2> QED
    BY <2>2, <2>3
<1>6. ASSUME NEW q \in Ranks, q # r, Rank(q) PROVE Reading(r)'
  <2>1. /\ message'[r] = message[r] /\ rpc'[r] = rpc[r]
        /\ reads'[r] = reads[r] /\ taken'[r] = taken[r]
    BY <1>0, <1>6, RankLocal
  <2> QED
    BY <1>0, <2>1 DEF Reading
<1>7. CASE Rank(r)
  <2>1. CASE TakeHandle(r)
    <3>1. rpc[r] = "handle" /\ rpc'[r] = "recv" /\ UNCHANGED <<message, reads, taken>>
      BY <1>0, <2>1, RankOwn DEF TakeHandle
    <3> QED
      BY <1>0, <3>1 DEF Reading
  <2>2. CASE TakeBucket(r)
    BY <1>4, <2>2, TakesTold
  <2>3. CASE EnterBarrier(r) \/ Load(r)
    <3>1. /\ reads[r] = {} \/ rpc[r] # "clone"
          /\ rpc'[r] \in {"barrier", "finish", "recv"} /\ UNCHANGED <<message, reads>>
      BY <1>0, <2>3, RankOwn DEF Load
    <3> QED
      BY <1>0, <3>1 DEF Reading
  <2>4. CASE Finish(r)
    <3>1. /\ rpc[r] = "finish" /\ rpc'[r] = "return" /\ taken'[r] = {} /\ UNCHANGED <<reads>>
      BY <1>0, <2>4, RankOwn DEF Finish
    <3> QED
      BY <1>0, <3>1 DEF Reading
  <2>5. CASE Return(r)
    <3>1. /\ rpc[r] = "return" /\ rpc'[r] = "idle" /\ UNCHANGED <<message, reads, taken>>
      BY <1>0, <2>5, RankOwn DEF Return
    <3> QED
      BY <1>0, <3>1 DEF Reading
  <2>6. ASSUME NEW c \in reads[r], CopyOut(r, c) PROVE Reading(r)'
    <3>1. /\ rpc[r] = "clone" /\ reads'[r] = reads[r] \ {c} /\ UNCHANGED <<rpc, message>>
      BY <1>0, <2>6, RankOwn DEF Reading
    <3> QED
      BY <1>0, <3>1 DEF Reading
  <2> QED
    BY <1>7, <2>1, <2>2, <2>3, <2>4, <2>5, <2>6 DEF Rank
<1> QED
  BY <1>1, <1>2, <1>3, <1>5, <1>6, <1>7 DEF Next, SenderStep, Group

(* A clone is read from bytes that hold its weight.                        *)
LEMMA CloneReadsWeight ==
  ASSUME IInv, NEW r \in Ranks, NEW c \in reads[r]
  PROVE  \A i \in Span(c.off, c.w) : bucket[i] = <<sync, c.w>>
<1>1. rpc[r] = "clone" /\ c.w \in DOMAIN message[r].meta /\ c.off = message[r].meta[c.w]
  BY DEF IInv, Reading
<1>2. message[r] = Current /\ rpc[Driver] \in {"clone", "barrier"}
  BY <1>1, SameBucket
<1>3. c.w \in DOMAIN bucketMeta /\ c.off = bucketMeta[c.w]
  BY <1>1, <1>2, CurrentIs
<1>4. Filled
  BY <1>2 DEF IInv, BucketFilled, InUse
<1> QED
  BY <1>3, <1>4 DEF Filled

LEMMA NoTornReadStep == IInv /\ [Next]_vars => NoTornRead'
<1> SUFFICES ASSUME IInv, [Next]_vars PROVE NoTornRead'
  OBVIOUS
<1>0. NoTornRead
  BY DEF IInv
<1>1. CASE StartSync
  BY <1>1 DEF StartSync, NoTornRead
<1>2. CASE SenderStep \/ UNCHANGED vars
  <2>1. UNCHANGED rankVars
    BY <1>2, SenderLeavesRanks DEF vars
  <2> QED
    BY <1>0, <2>1 DEF rankVars, NoTornRead
<1>3. CASE Group \/ DriverTimeout
  <2>1. torn' = torn
    BY <1>3 DEF Group, DriverHandle, DriverBucket, Clone, Barrier, DriverReply, DriverTimeout
  <2> QED
    BY <1>0, <2>1 DEF NoTornRead
<1>4. ASSUME NEW r \in Ranks, Rank(r) PROVE NoTornRead'
  <2>1. CASE \E c \in reads[r] : CopyOut(r, c)
    <3>1. torn' = torn
      BY <2>1, CloneReadsWeight DEF CopyOut
    <3> QED
      BY <1>0, <3>1 DEF NoTornRead
  <2>2. CASE TakeHandle(r) \/ TakeBucket(r) \/ EnterBarrier(r) \/ Load(r) \/ Finish(r) \/ Return(r)
    <3>1. torn' = torn
      BY <2>2 DEF TakeHandle, TakeBucket, Clone, EnterBarrier, Load, Finish, Return
    <3> QED
      BY <1>0, <3>1 DEF NoTornRead
  <2> QED
    BY <1>4, <2>1, <2>2 DEF Rank
<1> QED
  BY <1>1, <1>2, <1>3, <1>4 DEF Next, SenderStep, Group
(* A step that moves no weight, and makes no rank know more, keeps what    *)
(* the ranks hold.                                                         *)
LEMMA HoldingKept ==
  ASSUME NEW r \in Ranks, Holding(r), UNCHANGED <<stream, nextW, bucketMeta>>,
         \A w \in Weights : Has(r, w) => Has(r, w)',
         DOMAIN bucketMeta \subseteq Weights,
         HasBucket(r)' => HasBucket(r), KnowsLast(r)' => KnowsLast(r)
  PROVE  Holding(r)'
<1>1. Weights' = Weights
  BY DEF Weights
<1>2. \A w \in Weights' : Has(r, w)' \/ w \in DOMAIN bucketMeta' \/ w >= nextW'
  BY <1>1 DEF Holding
<1>3. HasBucket(r)' => HasAll(r, DOMAIN bucketMeta)'
  BY DEF Holding, HasAll
<1>4. KnowsLast(r)' => HasAll(r, Weights)'
  BY <1>1 DEF Holding, HasAll
<1> QED
  BY <1>2, <1>3, <1>4 DEF Holding

LEMMA HasKept ==
  ASSUME NEW r \in Ranks,
         reads'[r] = reads[r], taken[r] \subseteq loaded'[r] \cup taken'[r], loaded[r] \subseteq loaded'[r]
  PROVE  \A w : Has(r, w) => Has(r, w)'
BY DEF Has

(* A rank that clones the current bucket has all that was packed so far.   *)
LEMMA HoldingAfterClone ==
  ASSUME IInv, NEW r \in Ranks, Clone(r, Current), reads[r] = {},
         UNCHANGED <<stream, nextW, bucketMeta>>
  PROVE  Holding(r)'
<1>0. Types /\ Holding(r)
  BY DEF IInv
<1>1. /\ message'[r] = Current /\ rpc'[r] = "clone"
      /\ reads'[r] = {[w |-> w, off |-> bucketMeta[w]] : w \in DOMAIN bucketMeta}
      /\ UNCHANGED <<taken, loaded>>
  BY <1>0, CloneEffect
<1>2. Weights' = Weights
  BY DEF Weights
<1>3. ASSUME NEW w \in Weights, Has(r, w) PROVE Has(r, w)'
  BY <1>1, <1>3 DEF Has
<1>4. ASSUME NEW w \in DOMAIN bucketMeta PROVE Has(r, w)'
  <2> DEFINE c == [w |-> w, off |-> bucketMeta[w]]
  <2>1. c \in reads'[r] /\ c.w = w
    BY <1>1
  <2> QED
    BY <2>1 DEF Has
<1>5. \A w \in Weights' : Has(r, w)' \/ w \in DOMAIN bucketMeta' \/ w >= nextW'
  BY <1>0, <1>2, <1>3 DEF Holding
<1>6. HasAll(r, DOMAIN bucketMeta)'
  BY <1>4 DEF HasAll
<1>7. AtEnd => \A w \in Weights : w < nextW
  BY <1>0 DEF AtEnd, Types, Weights
<1>8. ASSUME AtEnd, NEW w \in Weights PROVE Has(r, w)'
  <2>1. ~(w >= nextW)
    BY <1>0, <1>7, <1>8 DEF Types, Weights
  <2> QED
    BY <1>0, <1>3, <1>4, <2>1 DEF Holding
<1>9. KnowsLast(r)' => AtEnd
  BY <1>1, CurrentIs DEF KnowsLast
<1>10. KnowsLast(r)' => HasAll(r, Weights)'
  BY <1>2, <1>8, <1>9 DEF HasAll
<1> QED
  BY <1>5, <1>6, <1>10 DEF Holding

LEMMA HoldingSenderStep ==
  ASSUME IInv, SenderStep, NEW r \in Ranks
  PROVE  Holding(r)'
<1>0. /\ Types /\ Turns /\ Holding(r) /\ spc \in SenderStates
      /\ DOMAIN bucketMeta \subseteq Weights /\ nextW \in Nat
  BY SenderFacts DEF IInv, Types
<1>1. UNCHANGED rankVars
  BY SenderLeavesRanks
<1>2. \A w : Has(r, w) <=> Has(r, w)'
  BY <1>1 DEF rankVars, Has
<1>3. KnowsLast(r)' <=> KnowsLast(r)
  BY <1>1 DEF rankVars, KnowsLast
<1>4. spc = "pack" => rpc[r] \notin {"clone", "barrier"} /\ rpc[Driver] # "passed"
  BY <1>0, SameBucket DEF Turns, BetweenBuckets
<1>5. CASE Pack
  <2>1. /\ spc = "pack" /\ spc' = "pack" /\ nextW' = nextW + 1 /\ stream' = stream
        /\ DOMAIN bucketMeta' = DOMAIN bucketMeta \cup {nextW}
    BY <1>5 DEF Pack, syncVars
  <2>2. ~HasBucket(r)'
    BY <1>1, <1>4, <2>1 DEF HasBucket, rankVars
  <2>3. Weights' = Weights
    BY <2>1 DEF Weights
  <2>4. \A w \in Weights : w >= nextW => w = nextW \/ w >= nextW + 1
    BY <1>0 DEF Weights
  <2>5. \A w \in Weights' : Has(r, w)' \/ w \in DOMAIN bucketMeta' \/ w >= nextW'
    BY <1>0, <1>2, <2>1, <2>3, <2>4 DEF Holding
  <2>6. KnowsLast(r)' => HasAll(r, Weights)'
    BY <1>0, <1>2, <1>3, <2>3 DEF Holding, HasAll
  <2> QED
    BY <2>2, <2>5, <2>6 DEF Holding
<1>6. CASE Acknowledged
  <2>1. /\ spc \in {"handshake", "flush", "flushLast"} /\ wire = Reply
        /\ UNCHANGED <<stream, nextW>> /\ DOMAIN bucketMeta' = {}
    BY <1>6, NothingIs DEF Acknowledged, syncVars
  <2>2. \A w \in DOMAIN bucketMeta : Has(r, w)
    BY <1>0, <2>1 DEF Turns, Holding, HasBucket, HasAll
  <2>3. Weights' = Weights
    BY <2>1 DEF Weights
  <2>4. \A w \in Weights' : Has(r, w)' \/ w \in DOMAIN bucketMeta' \/ w >= nextW'
    BY <1>0, <1>2, <2>1, <2>2, <2>3 DEF Holding
  <2>5. HasAll(r, DOMAIN bucketMeta)'
    BY <2>1 DEF HasAll
  <2>6. KnowsLast(r)' => HasAll(r, Weights)'
    BY <1>0, <1>2, <1>3, <2>3 DEF Holding, HasAll
  <2> QED
    BY <2>4, <2>5, <2>6 DEF Holding
<1>7. CASE RaiseTooLarge \/ Flush \/ SendDone \/ SenderTimeout \/ \E c \in copies : CopyIn(c)
  <2>1. UNCHANGED <<stream, nextW, bucketMeta>>
    BY <1>7 DEF RaiseTooLarge, Flush, SendDone, SenderTimeout, CopyIn, syncVars, senderVars
  <2>2. spc' \in {"flush", "flushLast"} /\ wire' = Reply => spc \in {"flush", "flushLast"} /\ wire = Reply
    BY <1>7, Wires DEF RaiseTooLarge, Flush, SendDone, SenderTimeout, CopyIn, senderVars
  <2>3. HasBucket(r)' => HasBucket(r)
    BY <1>1, <2>2 DEF HasBucket, rankVars
  <2> QED
    BY <1>0, <1>2, <1>3, <2>1, <2>3, HoldingKept
<1> QED
  BY <1>5, <1>6, <1>7 DEF SenderStep, Sender

LEMMA HoldingOwnStep ==
  ASSUME IInv, NEW r \in Ranks, Rank(r)
  PROVE  Holding(r)'
<1>0. /\ Types /\ Holding(r) /\ Reading(r) /\ DOMAIN bucketMeta \subseteq Weights
      /\ UNCHANGED <<stream, nextW, bucketMeta, spc>> /\ wire' = wire /\ Driver \in Ranks
  <2>1. RankStep
    BY DEF RankStep
  <2>2. wire' = wire
    BY DEF Rank, TakeHandle, TakeBucket, EnterBarrier, Load, Finish, Return, CopyOut
  <2> QED
    BY <2>1, <2>2, RankFrame, IpcAssumption DEF IInv, Types, syncVars, senderVars
<1>1. rpc'[Driver] = "passed" => rpc[Driver] = "passed"
  <2>1. CASE r # Driver
    BY <1>0, <2>1, RankLocal
  <2>2. CASE r = Driver
    BY <1>0, <2>2, RankOwn DEF Rank
  <2> QED
    BY <2>1, <2>2
<1>2. CASE TakeBucket(r)
  <2>1. Clone(r, Current) /\ reads[r] = {}
    BY <1>0, <1>2, TakesTold DEF Reading
  <2> QED
    BY <1>0, <2>1, HoldingAfterClone
<1>3. CASE TakeHandle(r) \/ EnterBarrier(r) \/ Return(r)
  <2>1. /\ UNCHANGED <<message, reads, taken, loaded>>
        /\ rpc'[r] \in {"recv", "idle"} \/ (rpc[r] = "clone" /\ rpc'[r] = "barrier")
    BY <1>0, <1>3, RankOwn DEF EnterBarrier
  <2>2. \A w \in Weights : Has(r, w) => Has(r, w)'
    BY <2>1 DEF Has
  <2>3. (HasBucket(r)' => HasBucket(r)) /\ (KnowsLast(r)' => KnowsLast(r))
    BY <1>0, <1>1, <2>1 DEF HasBucket, KnowsLast
  <2> QED
    BY <1>0, <2>2, <2>3, HoldingKept
<1>4. CASE Load(r) \/ Finish(r)
  <2>1. torn[r] = {}
    BY DEF IInv, NoTornRead
  <2>2. taken[r] \subseteq loaded'[r] \cup taken'[r] /\ loaded[r] \subseteq loaded'[r]
    <3>1. CASE Load(r)
      BY <1>0, <2>1, <3>1 DEF Load, Types
    <3>2. CASE Finish(r)
      BY <1>0, <2>1, <3>2 DEF Finish, Types
    <3> QED
      BY <1>4, <3>1, <3>2
  <2>3. /\ reads' = reads
        /\ \/ /\ rpc[r] \in {"load", "passed"} /\ message'[r] = message[r]
              /\ rpc'[r] = IF message[r].last THEN "finish" ELSE "recv"
           \/ rpc[r] = "finish" /\ rpc'[r] = "return"
    BY <1>0, <1>4, RankOwn DEF Load, Finish
  <2>4. (HasBucket(r)' => HasBucket(r)) /\ (KnowsLast(r)' => KnowsLast(r))
    BY <1>0, <1>1, <2>3 DEF HasBucket, KnowsLast
  <2>5. \A w \in Weights : Has(r, w) => Has(r, w)'
    BY <2>2, <2>3, HasKept
  <2> QED
    BY <1>0, <2>4, <2>5, HoldingKept
<1>5. ASSUME NEW c \in reads[r], CopyOut(r, c) PROVE Holding(r)'
  <2>1. /\ reads'[r] = reads[r] \ {c} /\ taken'[r] = taken[r] \cup {c.w}
        /\ UNCHANGED <<rpc, message, loaded>>
    BY <1>0, <1>5, RankOwn
  <2>2. \A w \in Weights : Has(r, w) => Has(r, w)'
    BY <2>1 DEF Has
  <2>3. (HasBucket(r)' => HasBucket(r)) /\ (KnowsLast(r)' => KnowsLast(r))
    BY <1>0, <2>1 DEF HasBucket, KnowsLast
  <2> QED
    BY <1>0, <2>2, <2>3, HoldingKept
<1> QED
  BY <1>2, <1>3, <1>4, <1>5 DEF Rank

LEMMA HoldingGroupStep ==
  ASSUME IInv, Group \/ DriverTimeout, NEW r \in Ranks
  PROVE  Holding(r)'
<1>0. /\ Types /\ Turns /\ Holding(r) /\ Reading(Driver) /\ DOMAIN bucketMeta \subseteq Weights
      /\ UNCHANGED <<stream, nextW, bucketMeta, spc>> /\ Driver \in Ranks
  <2>1. RankStep
    BY DEF RankStep
  <2> QED
    BY <2>1, RankFrame, IpcAssumption DEF IInv, Types, syncVars, senderVars
<1>1. CASE DriverBucket
  <2>1. Clone(Driver, Current) /\ rpc[Driver] = "recv" /\ wire' = Replying
    BY <1>1, WireTells DEF DriverBucket
  <2>2. CASE r = Driver
    BY <1>0, <2>1, <2>2, HoldingAfterClone DEF Reading
  <2>3. CASE r # Driver
    <3>1. /\ message'[r] = message[r] /\ rpc'[r] = rpc[r] /\ rpc'[Driver] = "clone"
          /\ reads'[r] = reads[r] /\ taken'[r] = taken[r] /\ loaded'[r] = loaded[r]
      BY <1>0, <2>1, <2>3 DEF Clone, Types
    <3>2. \A w \in Weights : Has(r, w) => Has(r, w)'
      BY <3>1 DEF Has
    <3>3. (HasBucket(r)' => HasBucket(r)) /\ (KnowsLast(r)' => KnowsLast(r))
      BY <1>0, <2>1, <3>1, Wires DEF HasBucket, KnowsLast
    <3> QED
      BY <1>0, <3>2, <3>3, HoldingKept
  <2> QED
    BY <2>2, <2>3
<1>2. CASE DriverHandle \/ Barrier \/ DriverReply \/ DriverTimeout
  <2>1. UNCHANGED <<message, reads, taken, loaded>>
    BY <1>2 DEF DriverHandle, Barrier, DriverReply, DriverTimeout
  <2>2. \A w \in Weights : Has(r, w) => Has(r, w)'
    BY <2>1 DEF Has
  <2>3. HasBucket(r)' => HasBucket(r)
    <3>1. CASE DriverHandle
      <4>1. spc = "handshake" /\ rpc'[Driver] = "recv" /\ (r # Driver => rpc'[r] = rpc[r])
        BY <1>0, <3>1, WireTells DEF DriverHandle, Types
      <4> QED
        BY <1>0, <4>1 DEF HasBucket
    <3>2. CASE Barrier
      <4>1. rpc[r] = "barrier"
        BY <3>2 DEF Barrier, Released, Arrived
      <4> QED
        BY <4>1 DEF HasBucket
    <3>3. CASE DriverReply
      BY <3>3 DEF DriverReply, HasBucket
    <3>4. CASE DriverTimeout
      <4>1. rpc'[Driver] = "failed" /\ (r # Driver => rpc'[r] = rpc[r]) /\ wire' = wire
        BY <1>0, <3>4 DEF DriverTimeout, Types
      <4> QED
        BY <1>0, <4>1 DEF HasBucket
    <3> QED
      BY <1>2, <3>1, <3>2, <3>3, <3>4
  <2>4. KnowsLast(r)' => KnowsLast(r)
    <3>1. \/ rpc'[r] = rpc[r] \/ rpc'[r] \in {"recv", "failed"}
          \/ rpc[r] \in {"barrier", "passed"} /\ rpc'[r] \in {"passed", "load"}
      BY <1>0, <1>2 DEF DriverHandle, Barrier, Released, Arrived, DriverReply, DriverTimeout, Types
    <3> QED
      BY <2>1, <3>1 DEF KnowsLast
  <2> QED
    BY <1>0, <2>2, <2>3, <2>4, HoldingKept
<1> QED
  BY <1>1, <1>2 DEF Group

LEMMA HoldingStep ==
  ASSUME IInv, [Next]_vars, NEW r \in Ranks
  PROVE  Holding(r)'
<1>0. Types /\ Holding(r) /\ Driver \in Ranks /\ DOMAIN bucketMeta \subseteq Weights
  BY IpcAssumption DEF IInv, Types
<1>1. CASE StartSync
  <2>1. /\ nextW' = 1 /\ DOMAIN bucketMeta' = {} /\ spc' = "handshake"
        /\ rpc'[r] = "handle" /\ rpc'[Driver] = "handle"
    BY <1>0, <1>1, NothingIs DEF StartSync
  <2>2. \A w \in Weights' : w >= nextW'
    BY <2>1 DEF Weights
  <2> QED
    BY <2>1, <2>2 DEF Holding, HasBucket, KnowsLast, HasAll
<1>2. ASSUME NEW q \in Ranks, q # r, Rank(q) PROVE Holding(r)'
  <2>1. /\ wire' = wire /\ message'[r] = message[r] /\ rpc'[r] = rpc[r]
        /\ reads'[r] = reads[r] /\ taken'[r] = taken[r] /\ loaded'[r] = loaded[r]
    BY <1>0, <1>2, RankLocal
  <2>2. UNCHANGED <<stream, nextW, bucketMeta, spc>>
    <3>1. RankStep
      BY <1>2 DEF RankStep
    <3> QED
      BY <3>1, RankFrame DEF syncVars, senderVars
  <2>3. rpc'[Driver] = "passed" => rpc[Driver] = "passed"
    <3>1. CASE q # Driver
      BY <1>0, <1>2, <3>1, RankLocal
    <3>2. CASE q = Driver
      BY <1>0, <1>2, <3>2, RankOwn DEF Rank
    <3> QED
      BY <3>1, <3>2
  <2>4. \A w \in Weights : Has(r, w) => Has(r, w)'
    BY <2>1 DEF Has
  <2>5. (HasBucket(r)' => HasBucket(r)) /\ (KnowsLast(r)' => KnowsLast(r))
    BY <2>1, <2>2, <2>3 DEF HasBucket, KnowsLast
  <2> QED
    BY <1>0, <2>2, <2>4, <2>5, HoldingKept
<1>3. CASE UNCHANGED vars
  BY <1>0, <1>3 DEF vars, syncVars, senderVars, rankVars, Holding, HasAll, Has, HasBucket, KnowsLast, Weights
<1> QED
  BY <1>1, <1>2, <1>3, HoldingSenderStep, HoldingOwnStep, HoldingGroupStep DEF Next, SenderStep

LEMMA Inductive == IInv /\ [Next]_vars => IInv'
BY TypesStep, LayoutStep, PendingCopiesStep, BucketFilledStep, TurnsStep, QueueStep, BehindStep,
   ReadingStep, HoldingStep, NoTornReadStep DEF IInv

LEMMA Invariance == Spec => []IInv
BY InitInv, Inductive, PTL DEF Spec
-----------------------------------------------------------------------------
(* Theorems                                                                *)

(* No rank clones a weight out of bytes the sender has overwritten: the    *)
(* reply that lets it pack again comes after the barrier.                  *)
THEOREM Untorn == Spec => []NoTornRead
<1>1. IInv => NoTornRead
  BY DEF IInv
<1> QED
  BY <1>1, Invariance, PTL

(* The sender packs only when no rank has a clone pending or a bucket      *)
(* still to take.                                                          *)
THEOREM ReplyLast == Spec => []ReplyAfterAllCopied
<1>1. IInv => ReplyAfterAllCopied
  <2> SUFFICES ASSUME IInv, spc = "pack", NEW r \in Ranks
               PROVE  /\ reads[r] = {}
                      /\ rpc[r] \in {"passed", "load", "recv"} => objs[r] = << >>
    BY DEF ReplyAfterAllCopied
  <2>1. /\ Reading(r) /\ BetweenBuckets /\ objs[Driver] = << >>
        /\ (r # Driver => Behind(r))
    BY DEF IInv, Turns
  <2>2. reads[r] = {}
    BY <2>1, SameBucket DEF Reading, BetweenBuckets
  <2>3. rpc[r] \in {"passed", "load", "recv"} => objs[r] = << >>
    BY <2>1 DEF Behind, BetweenBuckets
  <2> QED
    BY <2>2, <2>3
<1> QED
  BY <1>1, Invariance, PTL

(* What a rank holds when it has finished.                                 *)
LEMMA FinishedHasAll ==
  ASSUME IInv, NEW r \in Ranks, rpc[r] \in {"finish", "return"}
  PROVE  loaded[r] \cup taken[r] = Weights /\ (rpc[r] = "return" => taken[r] = {})
<1>1. Types /\ Holding(r) /\ Reading(r)
  BY DEF IInv
<1>2. reads[r] = {} /\ \A w \in Weights : Has(r, w)
  BY <1>1 DEF Holding, HasAll, KnowsLast, Reading
<1>3. \A w \in Weights : w \in loaded[r] \cup taken[r]
  BY <1>2 DEF Has
<1> QED
  BY <1>1, <1>3 DEF Types, Reading

(* An adapter becomes part of the model in one step and whole.             *)
THEOREM AdaptersWhole == Spec => AdapterWhole
<1>1. IInv /\ [Next]_vars =>
        [\A r \in Ranks : (lora /\ sync' = sync /\ loaded'[r] # loaded[r]) => loaded'[r] = Weights]_vars
  <2> SUFFICES ASSUME IInv, [Next]_vars, NEW r \in Ranks, lora, sync' = sync, loaded'[r] # loaded[r]
               PROVE  loaded'[r] = Weights
    OBVIOUS
  <2>0. Types /\ torn[r] = {}
    BY DEF IInv, NoTornRead
  <2>1. ~StartSync
    <3>1. sync \in Nat /\ sync + 1 # sync
      BY <2>0 DEF Types
    <3>2. StartSync => sync' = sync + 1
      BY DEF StartSync
    <3> QED
      BY <3>1, <3>2
  <2>2. ~SenderStep /\ ~UNCHANGED vars
    BY SenderLeavesRanks DEF vars, rankVars
  <2>3. ~Group /\ ~DriverTimeout
    BY DEF Group, DriverHandle, DriverBucket, Clone, Barrier, DriverReply, DriverTimeout
  <2>4. Rank(r)
    BY <2>0, <2>1, <2>2, <2>3, RankLocal DEF Next, SenderStep
  <2>5. Finish(r)
    BY <2>0, <2>4, RankOwn DEF Rank, Load, IntoModel
  <2>6. loaded'[r] = loaded[r] \cup taken[r] /\ rpc[r] = "finish"
    BY <2>0, <2>5 DEF Finish, Types
  <2> QED
    BY <2>6, FinishedHasAll
<1> QED
  BY <1>1, Invariance, PTL DEF Spec, AdapterWhole

-----------------------------------------------------------------------------
(* The transfer implements WeightStream                                    *)

Open(r) == IF rpc[r] = "idle" THEN "closed" ELSE "open"

(* Steps that give no weight to the model and end no RPC.                  *)
LEMMA HiddenStep ==
  ASSUME UNCHANGED <<stream, loaded>>, \A r \in Ranks : Open(r)' = Open(r)
  PROVE  UNCHANGED Promise!vars
BY DEF Promise!vars, Open

LEMMA RankRefines ==
  ASSUME IInv, NEW r \in Ranks, Rank(r)
  PROVE  [Promise!Next]_(Promise!vars)
<1>0. Types /\ torn[r] = {} /\ Weights = DOMAIN stream
  BY DEF IInv, NoTornRead, Types, Weights
<1>1. stream' = stream /\ \A q \in Ranks : q # r => rpc'[q] = rpc[q]
  <2>1. RankStep
    BY DEF RankStep
  <2> QED
    BY <1>0, <2>1, RankFrame, RankLocal DEF syncVars
<1>2. CASE TakeHandle(r) \/ TakeBucket(r) \/ EnterBarrier(r) \/ \E c \in reads[r] : CopyOut(r, c)
  <2>1. (rpc[r] # "idle" /\ rpc'[r] # "idle") \/ rpc' = rpc
    BY <1>0, <1>2, RankOwn DEF TakeHandle, TakeBucket, EnterBarrier
  <2>2. loaded' = loaded
    BY <1>2 DEF TakeHandle, TakeBucket, Clone, EnterBarrier, CopyOut
  <2> QED
    BY <1>1, <2>1, <2>2, HiddenStep DEF Open
<1>3. CASE Load(r) \/ Finish(r)
  <2>1. rpc[r] # "idle" /\ rpc'[r] # "idle"
    BY <1>0, <1>3, RankOwn DEF Load, Finish
  <2>2. \A q \in Ranks : Open(q)' = Open(q)
    BY <1>1, <2>1 DEF Open
  <2>3. CASE loaded' = loaded
    BY <1>1, <2>2, <2>3, HiddenStep
  <2>4. CASE loaded' # loaded
    <3>1. loaded' = [loaded EXCEPT ![r] = @ \cup (taken[r] \ torn[r])]
      BY <1>3, <2>4 DEF Load, Finish
    <3> DEFINE ws == taken[r] \ loaded[r]
    <3>2. ws \in SUBSET (Promise!Weights \ loaded[r])
      BY <1>0 DEF Promise!Weights, Types
    <3>3. loaded' = [loaded EXCEPT ![r] = @ \cup ws]
      BY <1>0, <3>1 DEF Types
    <3>4. \E W \in SUBSET (Promise!Weights \ loaded[r]) : loaded' = [loaded EXCEPT ![r] = @ \cup W]
      BY <3>2, <3>3
    <3>5. [q \in Ranks |-> IF rpc'[q] = "idle" THEN "closed" ELSE "open"]
            = [q \in Ranks |-> IF rpc[q] = "idle" THEN "closed" ELSE "open"]
      BY <2>2 DEF Open
    <3>6. Promise!Take(r)
      BY <1>1, <2>1, <3>4, <3>5 DEF Promise!Take
    <3> QED
      BY <3>6 DEF Promise!Next
  <2> QED
    BY <2>3, <2>4
<1>4. CASE Return(r)
  <2>1. rpc[r] = "return" /\ rpc' = [rpc EXCEPT ![r] = "idle"] /\ loaded' = loaded
    BY <1>4 DEF Return
  <2>2. loaded[r] = Promise!Weights
    BY <1>0, <2>1, FinishedHasAll DEF Promise!Weights
  <2>3. [q \in Ranks |-> IF rpc'[q] = "idle" THEN "closed" ELSE "open"]
          = [[q \in Ranks |-> IF rpc[q] = "idle" THEN "closed" ELSE "open"] EXCEPT ![r] = "closed"]
    BY <1>0, <2>1 DEF Types
  <2>4. Promise!Close(r)
    BY <1>1, <2>1, <2>2, <2>3 DEF Promise!Close
  <2> QED
    BY <2>4 DEF Promise!Next
<1> QED
  BY <1>2, <1>3, <1>4 DEF Rank

(* The transfer implements WeightStream: the RPC returns on a rank only    *)
(* when that rank holds every weight of this synchronisation, intact.      *)
THEOREM Refinement == Spec => ImplementsWeightStream
<1>1. Init => Promise!Init
  BY DEF Init, Promise!Init
<1>2. IInv /\ [Next]_vars => [Promise!Next]_(Promise!vars)
  <2> SUFFICES ASSUME IInv, [Next]_vars PROVE [Promise!Next]_(Promise!vars)
    OBVIOUS
  <2>0. Types /\ Driver \in Ranks
    BY IpcAssumption DEF IInv
  <2>1. CASE StartSync
    <3>1. \A r \in Ranks : rpc[r] = "idle"
      BY <2>1 DEF IInv, Turns, StartSync
    <3>2. Promise!Begin
      BY <2>1, <3>1 DEF StartSync, Promise!Begin
    <3> QED
      BY <3>2 DEF Promise!Next
  <2>2. CASE SenderStep \/ UNCHANGED vars
    <3>1. UNCHANGED rankVars
      BY <2>2, SenderLeavesRanks DEF vars
    <3>2. stream' = stream
      BY <2>2 DEF SenderStep, Sender, RaiseTooLarge, Pack, Flush, Acknowledged, SendDone, CopyIn,
                  SenderTimeout, vars, syncVars
    <3> QED
      BY <3>1, <3>2, HiddenStep DEF rankVars, Open
  <2>3. CASE Group \/ DriverTimeout
    <3>1. loaded' = loaded /\ stream' = stream
      BY <2>3 DEF Group, DriverHandle, DriverBucket, Clone, Barrier, DriverReply, DriverTimeout, syncVars
    <3>2. \A r \in Ranks : rpc'[r] = rpc[r] \/ (rpc[r] # "idle" /\ rpc'[r] # "idle")
      BY <2>0, <2>3 DEF Group, DriverHandle, DriverBucket, Clone, Barrier, Released, Arrived,
                        DriverReply, DriverTimeout, Types
    <3> QED
      BY <3>1, <3>2, HiddenStep DEF Open
  <2> QED
    BY <2>1, <2>2, <2>3, RankRefines DEF Next, SenderStep
<1> QED
  BY <1>1, <1>2, Invariance, PTL DEF Spec, ImplementsWeightStream, Promise!Spec
=============================================================================
