-------------------------- MODULE RayTrainLoopProofs --------------------------
(***************************************************************************)
(* Proofs about the driver of Ray training (RayTrainLoop) for any workers  *)
(* and replicas, in every setting, whichever calls raise, for any number   *)
(* of training steps.                                                      *)
(***************************************************************************)
EXTENDS RayTrainLoop, DataLemmas, TLAPS

Over == pc \in {"finalize", "done"}

(* The engines that sleep when they are told to.                           *)
Sleeps == Colocated /\ SleepMode

(* The driver knows that a call is done when the call is neither           *)
(* outstanding nor has raised.                                             *)
DoneBy(w) == issued /\ Method(pc) \notin raised /\ Method(pc) \notin Calls(inbox[w])
DoneIn(r) == issued /\ Method(pc) \notin raised /\ Method(pc) \notin threads[r]

(* Until the driver gives up, the calls it waits for are outstanding, and  *)
(* what the calls that raised have left behind.                            *)
LeftBehind ==
  IF ~failing THEN {} ELSE IF pc \in {"reload", "unmerge"} THEN {"update"} ELSE {"generate"}
Expected == LeftBehind \cup (IF issued THEN {Method(pc)} ELSE {})

Outstanding ==
  /\ \A w \in Workers : inbox[w] \in Seq(Methods)
  /\ \A r \in Replicas : threads[r] \subseteq Methods
  /\ issued => pc \in Phases /\ (pc \in {"genOffload", "genReload"} => Colocated \/ Offload)
                             /\ (pc \in {"merge", "unmerge"} => MergeAndSync)
  /\ failing => Over \/ pc \in {"reload", "unmerge", "finalizeGen", "genSleep", "genReload"}
  /\ failing /\ pc \in {"finalizeGen", "genSleep", "genReload"} => "generate" \in failedAt
  /\ ~Over => /\ \A w \in Workers : Calls(inbox[w]) \subseteq Expected
              /\ \A r \in Replicas : threads[r] \subseteq Expected
  /\ (~Over /\ ~failing) => \A w \in Workers : Len(inbox[w]) <= 1
  /\ \A r \in Replicas : "train" \notin threads[r]

(* What the manager has put to sleep.                                      *)
Slept ==
  /\ ~Colocated => sleeping = {}
  /\ (Colocated /\ pc \in {"top", "sleep", "train"}) =>
       sleeping = Memory \/ (sleeping = {} /\ ~baseSyncDone)
  /\ pc = "sleep" /\ issued => sleeping = {}
  /\ pc \in {"wakeWeights", "logps"} \/ (Colocated /\ pc = "genReload") => (Colocated => sleeping = Memory)
  /\ (Colocated /\ pc \in {"merge", "offload", "update", "reload", "unmerge", "genOffload", "wakeKv"})
       => sleeping = {"kv_cache"}
  /\ pc \in {"generate", "finalizeGen", "genSleep"} => sleeping = {}

(* The memory of an engine that sleeps: what it must have, and must not.   *)
Engine(r) ==
  /\ (\/ pc \in {"merge", "offload", "update", "reload", "unmerge", "genOffload", "wakeKv", "generate"}
      \/ (pc = "wakeWeights" /\ DoneIn(r))) => "weights" \in awake[r]
  /\ (pc = "generate" \/ (pc = "wakeKv" /\ DoneIn(r))) => "kv_cache" \in awake[r]
  /\ Colocated /\
     (\/ pc \in {"wakeWeights", "merge", "offload", "update", "reload", "unmerge", "genOffload",
                 "genReload", "logps"}
      \/ pc = "wakeKv" /\ ~issued
      \/ pc \in {"sleep", "genSleep"} /\ DoneIn(r)
      \/ pc \in {"top", "sleep", "train"} /\ sleeping = Memory) => "kv_cache" \notin awake[r]
Engines ==
  ~Over => /\ Sleeps => \A r \in Replicas : Engine(r)
           /\ ~Sleeps => \A r \in Replicas : awake[r] = Memory

(* Where the training model is.                                            *)
Model(w) ==
  /\ ~(Colocated \/ Offload) => onGpu[w]
  /\ pc \in {"top", "logps", "train"} \/ (pc = "genReload" /\ DoneBy(w)) => onGpu[w]
  /\ Colocated /\ (\/ pc \in {"wakeKv", "generate", "finalizeGen", "genSleep"}
                   \/ pc = "genOffload" /\ DoneBy(w)) => ~onGpu[w]
Models == ~Over => \A w \in Workers : Model(w)

(* When the adapter is merged.                                             *)
Merging(w) ==
  /\ pc \notin {"merge", "offload", "update", "reload", "send", "unmerge"} => ~merged[w]
  /\ ~MergeAndSync => ~merged[w]
  /\ (MergeAndSync /\ Lora /\ (pc \in {"offload", "update", "send"} \/ (pc = "merge" /\ DoneBy(w))))
       => merged[w]
  /\ pc = "unmerge" /\ DoneBy(w) => ~merged[w]
Merges == ~Over => \A w \in Workers : Merging(w)

(* The driver has given up: nothing that is still running can put the      *)
(* other side back on the GPU, merge an adapter, put an engine to sleep    *)
(* under the weights it is sent, or train; and no replica still generates  *)
(* unless a generation has raised.                                         *)
KvAsleep == \A r \in Replicas : "kv_cache" \notin awake[r] /\ "wakeKv" \notin threads[r]
GpuFree == \A w \in Workers : ~onGpu[w] /\ "reload" \notin Calls(inbox[w])
NothingStreams == \A w \in Workers : "update" \notin Calls(inbox[w])
WeightsStay == \A r \in Replicas : "weights" \in awake[r] /\ "sleep" \notin threads[r]
GivenUp ==
  Over => /\ Sleeps /\ baseSyncDone => KvAsleep \/ GpuFree
          /\ failedAt \cap LeavesMerged = {} =>
               \A w \in Workers : ~merged[w] /\ "merge" \notin Calls(inbox[w])
          /\ NothingStreams \/ WeightsStay
          /\ "generate" \notin failedAt => \A r \in Replicas : "generate" \notin threads[r]
          /\ \E w \in Workers : "train" \notin Calls(inbox[w])

(* Training steps and rounds.                                              *)
Trained == issued /\ "train" \notin raised /\ \A w \in Workers : inbox[w] = << >>
Rounds ==
  /\ pc = "train" /\ issued => \/ "train" \notin raised /\ \A w \in Workers : inbox[w] = <<"train">>
                               \/ Trained
                               \/ "train" \in raised /\ \E w \in Workers : inbox[w] = << >>
  /\ ~Over /\ pc # "top" /\ ~(pc = "train" /\ Trained) => version < TrainIters
  /\ ~Over /\ pc # "top" => chunk < Spg
  /\ ~Over /\ pc \notin {"top", "train"} => chunk = 0

(* What is loaded and sampled.                                             *)
Synchronised == {"genOffload", "wakeKv", "generate", "finalizeGen", "genSleep", "genReload", "logps"}
Updated ==
  ~failing /\ (\/ pc \in Synchronised \cup {"reload", "unmerge", "release"}
               \/ pc \in {"update", "send"} /\ \A w \in Workers : DoneBy(w))
Loaded ==
  /\ MergeAndSync => \A r \in Replicas : policy[r].lora = 0 /\ (Updated => policy[r].base = version)
  /\ ~MergeAndSync => /\ \A r \in Replicas : policy[r].base = 0
                      /\ \A w \in Workers : ~merged[w] /\ "merge" \notin Calls(inbox[w])
  /\ pc \in Synchronised => baseSyncDone
Samples ==
  (MergeAndSync /\ ~Over /\ ~failing) =>
    /\ pc \notin {"top", "train"} => \A v \in sampled : v = version
    /\ pc = "train" => \A v \in sampled : v = version - chunk - (IF Trained THEN 1 ELSE 0)

IInv ==
  /\ TypeOK /\ Outstanding /\ Slept /\ Engines /\ Models /\ Merges /\ GivenUp /\ Rounds
  /\ Loaded /\ Samples

(* A training whose adapter is sent apart starts with an adapter that is   *)
(* nothing yet, and samples before it trains: the first synchronisation    *)
(* sends the base weights alone.                                           *)
FreshAdapters ==
  \A s \in Settings : ~s.mergeAndSync => FirstVersion = 0 /\ ~s.offPolicy
Adapters ==
  ~MergeAndSync =>
    /\ ~baseSyncDone => version = 0 /\ \A r \in Replicas : policy[r].lora = 0
    /\ Updated => \A r \in Replicas : policy[r].lora = version
    /\ pc = "train" => baseSyncDone
-----------------------------------------------------------------------------
(* The cycle, phase by phase                                               *)

(* Three tuples in a row, element by element.                              *)
LEMMA JoinTuples ==
  ASSUME NEW S, NEW s \in Seq(S), NEW t \in Seq(S), NEW u \in Seq(S)
  PROVE  /\ DOMAIN ((s \o t) \o u) = 1 .. Len(s) + Len(t) + Len(u)
         /\ \A i \in DOMAIN s : ((s \o t) \o u)[i] = s[i]
         /\ \A i \in DOMAIN t : ((s \o t) \o u)[i + Len(s)] = t[i]
         /\ \A i \in DOMAIN u : ((s \o t) \o u)[i + Len(s) + Len(t)] = u[i]
         /\ (s \o t) \o u \in Seq(S)
<1> DEFINE v == s \o t
           x == v \o u
<1>1. Len(s) \in Nat /\ Len(t) \in Nat /\ Len(u) \in Nat
  OBVIOUS
<1>2. /\ v \in Seq(S) /\ Len(v) = Len(s) + Len(t)
      /\ \A i \in DOMAIN s : i \in DOMAIN v /\ v[i] = s[i]
      /\ \A i \in DOMAIN t : i + Len(s) \in DOMAIN v /\ v[i + Len(s)] = t[i]
  BY ConcatHolds, ConcatProperties
<1> HIDE DEF v
<1>3. /\ \A i \in DOMAIN v : x[i] = v[i]
      /\ \A i \in DOMAIN u : x[i + Len(v)] = u[i]
      /\ x \in Seq(S)
  BY <1>2, ConcatHolds
<1>4. DOMAIN x = 1 .. Len(v) + Len(u)
  <2>1. Len(x) = Len(v) + Len(u)
    BY <1>2, ConcatProperties
  <2> QED
    BY <1>3, <2>1, LenProperties
<1> HIDE DEF x
<1>5. \A i \in DOMAIN u : i \in Nat /\ i + Len(v) = i + Len(s) + Len(t)
  BY <1>1, <1>2
<1>6. x = (s \o t) \o u
  BY DEF x, v
<1> QED
  BY <1>1, <1>2, <1>3, <1>4, <1>5, <1>6

(* The phases of a round.                                                  *)
ColocatedRound ==
  {"sleep", "wakeWeights", "merge", "offload", "update", "reload", "unmerge", "genOffload",
   "wakeKv", "generate", "finalizeGen", "genSleep", "genReload", "logps", "train"}
SeparateRound ==
  {"prepareTrain", "prepareRollout", "join", "merge", "send", "unmerge", "release", "genOffload",
   "generate", "finalizeGen", "genReload", "logps", "train"}

(* The round of colocated engines, phase by phase.                         *)
LEMMA ColocatedCycle ==
  ASSUME Colocated
  PROVE  /\ DOMAIN Cycle = 1 .. 15
         /\ Cycle[1] = "sleep" /\ Cycle[2] = "wakeWeights" /\ Cycle[3] = "merge"
         /\ Cycle[4] = "offload" /\ Cycle[5] = "update" /\ Cycle[6] = "reload"
         /\ Cycle[7] = "unmerge" /\ Cycle[8] = "genOffload" /\ Cycle[9] = "wakeKv"
         /\ Cycle[10] = "generate" /\ Cycle[11] = "finalizeGen" /\ Cycle[12] = "genSleep"
         /\ Cycle[13] = "genReload" /\ Cycle[14] = "logps" /\ Cycle[15] = "train"
         /\ SyncCalls[Len(SyncCalls)] = "unmerge" /\ Head(Cycle) = "sleep"
<1> DEFINE S == <<"sleep", "wakeWeights", "merge", "offload", "update", "reload", "unmerge">>
           G == <<"genOffload", "wakeKv", "generate", "finalizeGen", "genSleep", "genReload">>
           L == <<"logps", "train">>
<1>1. /\ S \in Seq(ColocatedRound) /\ G \in Seq(ColocatedRound) /\ L \in Seq(ColocatedRound)
      /\ Len(S) = 7 /\ Len(G) = 6 /\ Len(L) = 2
      /\ DOMAIN S = 1 .. 7 /\ DOMAIN G = 1 .. 6 /\ DOMAIN L = 1 .. 2
  BY DEF ColocatedRound
<1>2. /\ S[1] = "sleep" /\ S[2] = "wakeWeights" /\ S[3] = "merge" /\ S[4] = "offload"
      /\ S[5] = "update" /\ S[6] = "reload" /\ S[7] = "unmerge"
  OBVIOUS
<1>3. /\ G[1] = "genOffload" /\ G[2] = "wakeKv" /\ G[3] = "generate" /\ G[4] = "finalizeGen"
      /\ G[5] = "genSleep" /\ G[6] = "genReload" /\ L[1] = "logps" /\ L[2] = "train"
  OBVIOUS
<1>4. SyncCalls = S /\ Cycle = (S \o G) \o L
  BY DEF Cycle, SyncCalls, GenerationCalls
<1> HIDE DEF S, G, L
<1> DEFINE C == (S \o G) \o L
<1>5. /\ DOMAIN C = 1 .. Len(S) + Len(G) + Len(L)
      /\ \A i \in DOMAIN S : C[i] = S[i]
      /\ \A i \in DOMAIN G : C[i + Len(S)] = G[i]
      /\ \A i \in DOMAIN L : C[i + Len(S) + Len(G)] = L[i]
      /\ C \in Seq(ColocatedRound)
  BY <1>1, JoinTuples
<1> HIDE DEF C
<1>6. /\ DOMAIN C = 1 .. 15
      /\ C[1] = S[1] /\ C[2] = S[2] /\ C[3] = S[3] /\ C[4] = S[4] /\ C[5] = S[5]
      /\ C[6] = S[6] /\ C[7] = S[7]
      /\ C[1 + 7] = G[1] /\ C[2 + 7] = G[2] /\ C[3 + 7] = G[3] /\ C[4 + 7] = G[4]
      /\ C[5 + 7] = G[5] /\ C[6 + 7] = G[6]
      /\ C[1 + 7 + 6] = L[1] /\ C[2 + 7 + 6] = L[2]
  BY <1>1, <1>5
<1>7. Head(C) = C[1]
  <2>1. 1 \in DOMAIN C
    BY <1>6
  <2>2. C # << >>
    BY <2>1
  <2> QED
    BY <1>5, <2>2
<1>8. C = Cycle /\ SyncCalls[Len(SyncCalls)] = S[7]
  BY <1>1, <1>4 DEF C
<1> QED
  BY <1>2, <1>3, <1>6, <1>7, <1>8

(* The round of engines on GPUs of their own, phase by phase.              *)
LEMMA SeparateCycle ==
  ASSUME ~Colocated
  PROVE  /\ DOMAIN Cycle = 1 .. 13
         /\ Cycle[1] = "prepareTrain" /\ Cycle[2] = "prepareRollout" /\ Cycle[3] = "join"
         /\ Cycle[4] = "merge" /\ Cycle[5] = "send" /\ Cycle[6] = "unmerge"
         /\ Cycle[7] = "release" /\ Cycle[8] = "genOffload" /\ Cycle[9] = "generate"
         /\ Cycle[10] = "finalizeGen" /\ Cycle[11] = "genReload" /\ Cycle[12] = "logps"
         /\ Cycle[13] = "train"
         /\ SyncCalls[Len(SyncCalls)] = "release" /\ Head(Cycle) = "prepareTrain"
<1> DEFINE S == <<"prepareTrain", "prepareRollout", "join", "merge", "send", "unmerge", "release">>
           G == <<"genOffload", "generate", "finalizeGen", "genReload">>
           L == <<"logps", "train">>
<1>1. /\ S \in Seq(SeparateRound) /\ G \in Seq(SeparateRound) /\ L \in Seq(SeparateRound)
      /\ Len(S) = 7 /\ Len(G) = 4 /\ Len(L) = 2
      /\ DOMAIN S = 1 .. 7 /\ DOMAIN G = 1 .. 4 /\ DOMAIN L = 1 .. 2
  BY DEF SeparateRound
<1>2. /\ S[1] = "prepareTrain" /\ S[2] = "prepareRollout" /\ S[3] = "join" /\ S[4] = "merge"
      /\ S[5] = "send" /\ S[6] = "unmerge" /\ S[7] = "release"
  OBVIOUS
<1>3. /\ G[1] = "genOffload" /\ G[2] = "generate" /\ G[3] = "finalizeGen" /\ G[4] = "genReload"
      /\ L[1] = "logps" /\ L[2] = "train"
  OBVIOUS
<1>4. SyncCalls = S /\ Cycle = (S \o G) \o L
  BY DEF Cycle, SyncCalls, GenerationCalls
<1> HIDE DEF S, G, L
<1> DEFINE C == (S \o G) \o L
<1>5. /\ DOMAIN C = 1 .. Len(S) + Len(G) + Len(L)
      /\ \A i \in DOMAIN S : C[i] = S[i]
      /\ \A i \in DOMAIN G : C[i + Len(S)] = G[i]
      /\ \A i \in DOMAIN L : C[i + Len(S) + Len(G)] = L[i]
      /\ C \in Seq(SeparateRound)
  BY <1>1, JoinTuples
<1> HIDE DEF C
<1>6. /\ DOMAIN C = 1 .. 13
      /\ C[1] = S[1] /\ C[2] = S[2] /\ C[3] = S[3] /\ C[4] = S[4] /\ C[5] = S[5]
      /\ C[6] = S[6] /\ C[7] = S[7]
      /\ C[1 + 7] = G[1] /\ C[2 + 7] = G[2] /\ C[3 + 7] = G[3] /\ C[4 + 7] = G[4]
      /\ C[1 + 7 + 4] = L[1] /\ C[2 + 7 + 4] = L[2]
  BY <1>1, <1>5
<1>7. Head(C) = C[1]
  <2>1. 1 \in DOMAIN C
    BY <1>6
  <2>2. C # << >>
    BY <2>1
  <2> QED
    BY <1>5, <2>2
<1>8. C = Cycle /\ SyncCalls[Len(SyncCalls)] = S[7]
  BY <1>1, <1>4 DEF C
<1> QED
  BY <1>2, <1>3, <1>6, <1>7, <1>8

(* Where a phase is in the cycle.                                          *)
ColocatedPlace(p) ==
  CASE p = "sleep" -> 1 [] p = "wakeWeights" -> 2 [] p = "merge" -> 3
    [] p = "offload" -> 4 [] p = "update" -> 5 [] p = "reload" -> 6
    [] p = "unmerge" -> 7 [] p = "genOffload" -> 8 [] p = "wakeKv" -> 9
    [] p = "generate" -> 10 [] p = "finalizeGen" -> 11
    [] p = "genSleep" -> 12 [] p = "genReload" -> 13 [] p = "logps" -> 14
    [] p = "train" -> 15

(* What follows each phase with colocated engines.                         *)
LEMMA ColocatedAfter ==
  ASSUME Colocated
  PROVE  /\ After("sleep") = "wakeWeights" /\ After("wakeWeights") = "merge"
         /\ After("merge") = "offload" /\ After("offload") = "update"
         /\ After("update") = "reload" /\ After("reload") = "unmerge"
         /\ After("unmerge") = "genOffload" /\ After("genOffload") = "wakeKv"
         /\ After("wakeKv") = "generate" /\ After("generate") = "finalizeGen"
         /\ After("finalizeGen") = "genSleep" /\ After("genSleep") = "genReload"
         /\ After("genReload") = "logps" /\ After("logps") = "train"
         /\ {Cycle[i] : i \in DOMAIN Cycle} = ColocatedRound
<1>1. DOMAIN Cycle = 1 .. 15
  BY ColocatedCycle
<1>2. \A i \in 1 .. 15 :
        \/ i = 1 \/ i = 2 \/ i = 3 \/ i = 4 \/ i = 5
        \/ i = 6 \/ i = 7 \/ i = 8 \/ i = 9 \/ i = 10
        \/ i = 11 \/ i = 12 \/ i = 13 \/ i = 14 \/ i = 15
  OBVIOUS
<1>3. \A i \in DOMAIN Cycle : ColocatedPlace(Cycle[i]) = i /\ Cycle[i] \in ColocatedRound
  BY <1>1, <1>2, ColocatedCycle DEF ColocatedPlace, ColocatedRound
<1>4. ASSUME NEW k \in DOMAIN Cycle PROVE After(Cycle[k]) = Cycle[1 + k]
  <2> DEFINE c == CHOOSE i \in DOMAIN Cycle : Cycle[i] = Cycle[k]
  <2>1. c \in DOMAIN Cycle /\ Cycle[c] = Cycle[k]
    OBVIOUS
  <2>2. c = k
    BY <1>3, <2>1
  <2> HIDE DEF c
  <2>3. After(Cycle[k]) = Cycle[1 + c]
    BY DEF After, c
  <2> QED
    BY <2>2, <2>3
<1>5. \A p \in ColocatedRound : \E i \in DOMAIN Cycle : Cycle[i] = p
  BY <1>1, ColocatedCycle DEF ColocatedRound
<1>6. /\ After(Cycle[1]) = Cycle[2] /\ After(Cycle[2]) = Cycle[3]
      /\ After(Cycle[3]) = Cycle[4] /\ After(Cycle[4]) = Cycle[5]
      /\ After(Cycle[5]) = Cycle[6] /\ After(Cycle[6]) = Cycle[7]
      /\ After(Cycle[7]) = Cycle[8] /\ After(Cycle[8]) = Cycle[9]
      /\ After(Cycle[9]) = Cycle[10] /\ After(Cycle[10]) = Cycle[11]
      /\ After(Cycle[11]) = Cycle[12] /\ After(Cycle[12]) = Cycle[13]
      /\ After(Cycle[13]) = Cycle[14] /\ After(Cycle[14]) = Cycle[15]
  BY <1>1, <1>4
<1> QED
  BY <1>3, <1>5, <1>6, ColocatedCycle

SeparatePlace(p) ==
  CASE p = "prepareTrain" -> 1 [] p = "prepareRollout" -> 2 [] p = "join" -> 3
    [] p = "merge" -> 4 [] p = "send" -> 5 [] p = "unmerge" -> 6
    [] p = "release" -> 7 [] p = "genOffload" -> 8 [] p = "generate" -> 9
    [] p = "finalizeGen" -> 10 [] p = "genReload" -> 11
    [] p = "logps" -> 12 [] p = "train" -> 13

(* What follows each phase with separate engines.                          *)
LEMMA SeparateAfter ==
  ASSUME ~Colocated
  PROVE  /\ After("prepareTrain") = "prepareRollout" /\ After("prepareRollout") = "join"
         /\ After("join") = "merge" /\ After("merge") = "send"
         /\ After("send") = "unmerge" /\ After("unmerge") = "release"
         /\ After("release") = "genOffload" /\ After("genOffload") = "generate"
         /\ After("generate") = "finalizeGen" /\ After("finalizeGen") = "genReload"
         /\ After("genReload") = "logps" /\ After("logps") = "train"
         /\ {Cycle[i] : i \in DOMAIN Cycle} = SeparateRound
<1>1. DOMAIN Cycle = 1 .. 13
  BY SeparateCycle
<1>2. \A i \in 1 .. 13 :
        \/ i = 1 \/ i = 2 \/ i = 3 \/ i = 4 \/ i = 5
        \/ i = 6 \/ i = 7 \/ i = 8 \/ i = 9 \/ i = 10
        \/ i = 11 \/ i = 12 \/ i = 13
  OBVIOUS
<1>3. \A i \in DOMAIN Cycle : SeparatePlace(Cycle[i]) = i /\ Cycle[i] \in SeparateRound
  BY <1>1, <1>2, SeparateCycle DEF SeparatePlace, SeparateRound
<1>4. ASSUME NEW k \in DOMAIN Cycle PROVE After(Cycle[k]) = Cycle[1 + k]
  <2> DEFINE c == CHOOSE i \in DOMAIN Cycle : Cycle[i] = Cycle[k]
  <2>1. c \in DOMAIN Cycle /\ Cycle[c] = Cycle[k]
    OBVIOUS
  <2>2. c = k
    BY <1>3, <2>1
  <2> HIDE DEF c
  <2>3. After(Cycle[k]) = Cycle[1 + c]
    BY DEF After, c
  <2> QED
    BY <2>2, <2>3
<1>5. \A p \in SeparateRound : \E i \in DOMAIN Cycle : Cycle[i] = p
  BY <1>1, SeparateCycle DEF SeparateRound
<1>6. /\ After(Cycle[1]) = Cycle[2] /\ After(Cycle[2]) = Cycle[3]
      /\ After(Cycle[3]) = Cycle[4] /\ After(Cycle[4]) = Cycle[5]
      /\ After(Cycle[5]) = Cycle[6] /\ After(Cycle[6]) = Cycle[7]
      /\ After(Cycle[7]) = Cycle[8] /\ After(Cycle[8]) = Cycle[9]
      /\ After(Cycle[9]) = Cycle[10] /\ After(Cycle[10]) = Cycle[11]
      /\ After(Cycle[11]) = Cycle[12] /\ After(Cycle[12]) = Cycle[13]
  BY <1>1, <1>4
<1> QED
  BY <1>3, <1>5, <1>6, SeparateCycle
-----------------------------------------------------------------------------
(* Phases, methods and calls                                               *)

(* The phases are those of the round and the end of training.              *)
LEMMA PhasesAre ==
  /\ Colocated => Phases = ColocatedRound \cup {"finalize"}
  /\ ~Colocated => Phases = SeparateRound \cup {"finalize"}
  /\ "train" \in Phases /\ "finalize" \in Phases /\ "top" \notin Phases /\ "done" \notin Phases
<1>1. CASE Colocated
  <2>1. Phases = ColocatedRound \cup {"finalize"}
    BY <1>1, ColocatedAfter DEF Phases
  <2> QED
    BY <1>1, <2>1 DEF ColocatedRound
<1>2. CASE ~Colocated
  <2>1. Phases = SeparateRound \cup {"finalize"}
    BY <1>2, SeparateAfter DEF Phases
  <2> QED
    BY <1>2, <2>1 DEF SeparateRound
<1> QED
  BY <1>1, <1>2

(* Three phases call a method of another name.                             *)
LEMMA MethodIs ==
  /\ Method("genSleep") = "sleep" /\ Method("genOffload") = "offload" /\ Method("genReload") = "reload"
  /\ \A p : p \notin {"genSleep", "genOffload", "genReload"} => Method(p) = p
BY DEF Method

(* What depends on the setting alone stays as it is.                       *)
LEMMA SettingSame ==
  ASSUME setting' = setting
  PROVE  /\ Phases' = Phases /\ Methods' = Methods
         /\ Colocated' = Colocated /\ Lora' = Lora /\ MergeAndSync' = MergeAndSync
         /\ Offload' = Offload /\ OffPolicy' = OffPolicy
         /\ SleepMode' = SleepMode /\ Sleeps' = Sleeps
<1>1. Colocated' = Colocated
  BY DEF Colocated
<1>2. Cycle' = Cycle
  BY <1>1 DEF Cycle, SyncCalls, GenerationCalls
<1>3. Phases' = Phases
  BY <1>2 DEF Phases
<1>4. Methods' = Methods
  BY <1>3, MethodIs DEF Methods, Method
<1> QED
  BY <1>1, <1>3, <1>4 DEF Lora, MergeAndSync, Offload, OffPolicy, SleepMode, Sleeps

(* The settings are flags, and adapters are sent apart in LoRA training only.*)
LEMMA SettingKinds ==
  ASSUME setting \in Settings
  PROVE  /\ Colocated \in BOOLEAN /\ Lora \in BOOLEAN /\ MergeAndSync \in BOOLEAN
         /\ Offload \in BOOLEAN
         /\ ~MergeAndSync => Lora
BY RayAssumption DEF Colocated, Lora, MergeAndSync, Offload

(* The calls in an inbox when one is taken from it or put into it.         *)
LEMMA CallsAre ==
  ASSUME NEW S, NEW s \in Seq(S)
  PROVE  /\ Calls(s) \subseteq S /\ Calls(<< >>) = {} /\ (Calls(s) = {} => s = << >>)
         /\ s # << >> => Calls(s) = {Head(s)} \cup Calls(Tail(s)) /\ Head(s) \in S
                         /\ Tail(s) \in Seq(S) /\ Len(Tail(s)) = Len(s) - 1
         /\ \A x \in S : Calls(Append(s, x)) = Calls(s) \cup {x} /\ Append(s, x) \in Seq(S)
                         /\ Len(Append(s, x)) = Len(s) + 1
         /\ Len(s) \in Nat
<1>1. \A t : Calls(t) = Held(t)
  BY DEF Calls, Held
<1>3. s # << >> => Tail(s) \in Seq(S) /\ Len(Tail(s)) = Len(s) - 1
  BY TailHolds
<1>4. \A x \in S : Append(s, x) \in Seq(S) /\ Len(Append(s, x)) = Len(s) + 1
  BY AppendHolds
<1>5. /\ Held(s) \subseteq S /\ Held(<< >>) = {}
      /\ s # << >> => Held(s) = {Head(s)} \cup Held(Tail(s)) /\ Head(s) \in S
      /\ \A x \in S : Held(Append(s, x)) = Held(s) \cup {x}
  BY HeldAre
<1>2. Calls(s) = {} => s = << >>
  BY <1>1, <1>5
<1>6. Len(s) \in Nat
  OBVIOUS
<1> QED
  BY <1>1, <1>2, <1>3, <1>4, <1>5, <1>6

(* A call that is expected: of the phase, or left behind by one that raised.*)
LEMMA ExpectedIs ==
  ASSUME Outstanding, NEW m \in Expected, ~Over
  PROVE  \/ issued /\ m = Method(pc) /\ pc \in Phases
         \/ failing /\ m = "update" /\ pc \in {"reload", "unmerge"}
         \/ failing /\ m = "generate" /\ pc \in {"finalizeGen", "genSleep", "genReload"}
BY DEF Outstanding, Expected, LeftBehind
-----------------------------------------------------------------------------
(* The steps of the driver                                                 *)

ColocatedNext(p, q) ==
  \/ p = "sleep" /\ q = "wakeWeights"
  \/ p = "wakeWeights" /\ q = "merge"
  \/ p = "merge" /\ q = "offload"
  \/ p = "offload" /\ q = "update"
  \/ p = "update" /\ q = "reload"
  \/ p = "reload" /\ q = "unmerge"
  \/ p = "unmerge" /\ q = "genOffload"
  \/ p = "genOffload" /\ q = "wakeKv"
  \/ p = "wakeKv" /\ q = "generate"
  \/ p = "generate" /\ q = "finalizeGen"
  \/ p = "finalizeGen" /\ q = "genSleep"
  \/ p = "genSleep" /\ q = "genReload"
  \/ p = "genReload" /\ q = "logps"
  \/ p = "logps" /\ q = "train"

SeparateNext(p, q) ==
  \/ p = "prepareTrain" /\ q = "prepareRollout"
  \/ p = "prepareRollout" /\ q = "join"
  \/ p = "join" /\ q = "merge"
  \/ p = "merge" /\ q = "send"
  \/ p = "send" /\ q = "unmerge"
  \/ p = "unmerge" /\ q = "release"
  \/ p = "release" /\ q = "genOffload"
  \/ p = "genOffload" /\ q = "generate"
  \/ p = "generate" /\ q = "finalizeGen"
  \/ p = "finalizeGen" /\ q = "genReload"
  \/ p = "genReload" /\ q = "logps"
  \/ p = "logps" /\ q = "train"

Unwinds(p, q) == failing /\ p \in {"unmerge", "genReload"} /\ q = "finalize"

(* Skip and Return are alike: on with the next phase.                      *)
Advance ==
  /\ pc \in Phases /\ pc \notin {"train", "finalize", "top", "done"} /\ ~Over
  /\ \/ Unwinds(pc, pc')
     \/ /\ ~(failing /\ pc \in {"unmerge", "genReload"})
        /\ \/ Colocated /\ ColocatedNext(pc, pc')
           \/ ~Colocated /\ SeparateNext(pc, pc')
  /\ issued' = FALSE
  /\ \/ ~issued /\ NotNeeded(pc) /\ sleeping' = sleeping
     \/ /\ issued /\ Method(pc) \notin raised
        /\ \A w \in Workers : Method(pc) \notin Calls(inbox[w])
        /\ \A r \in Replicas : Method(pc) \notin threads[r]
        /\ sleeping' = IF pc \in {"sleep", "genSleep"} THEN Memory
                       ELSE IF pc = "wakeWeights" THEN sleeping \ {"weights"}
                       ELSE IF pc = "wakeKv" THEN sleeping \ {"kv_cache"} ELSE sleeping
  /\ baseSyncDone' = (baseSyncDone \/ (~failing /\ pc = IF Colocated THEN "unmerge" ELSE "release"))
  /\ UNCHANGED <<setting, failing, failedAt, chunk, workerVars, replicaVars, rayVars>>

(* Skipping a phase and returning from one go on with the next.            *)
LEMMA AdvanceIs ==
  ASSUME TypeOK, Outstanding, Skip \/ Return, setting' = setting
  PROVE  Advance
<1>1. /\ pc \in Phases /\ pc \notin {"train", "finalize", "top", "done"} /\ ~Over
  <2>1. CASE Skip
    <3>1. pc \in Phases /\ NotNeeded(pc)
      BY <2>1 DEF Skip
    <3>2. pc \notin {"train", "finalize"}
      BY <3>1 DEF NotNeeded
    <3> QED
      BY <3>1, <3>2, PhasesAre DEF Over
  <2>2. CASE Return
    <3>1. issued /\ pc \notin {"train", "finalize"}
      BY <2>2 DEF Return, Answered
    <3>2. pc \in Phases
      BY <3>1 DEF Outstanding
    <3> QED
      BY <3>1, <3>2, PhasesAre DEF Over
  <2> QED
    BY <2>1, <2>2
<1>2. /\ pc' = Goto(pc) /\ issued' = FALSE /\ baseSyncDone' = (baseSyncDone \/ Synced(pc))
      /\ UNCHANGED <<setting, failing, failedAt, chunk, workerVars, replicaVars, rayVars>>
  BY DEF Skip, Return
<1>3. pc' = IF failing /\ pc \in {"unmerge", "genReload"} THEN "finalize" ELSE After(pc)
  BY <1>2 DEF Goto, EndOfFinally
<1>4. Colocated => pc \in ColocatedRound /\ ColocatedNext(pc, After(pc))
  <2> SUFFICES ASSUME Colocated PROVE pc \in ColocatedRound /\ ColocatedNext(pc, After(pc))
    OBVIOUS
  <2>1. pc \in ColocatedRound
    BY <1>1, PhasesAre
  <2>2. /\ After("sleep") = "wakeWeights" /\ After("wakeWeights") = "merge"
        /\ After("merge") = "offload" /\ After("offload") = "update"
        /\ After("update") = "reload" /\ After("reload") = "unmerge"
        /\ After("unmerge") = "genOffload" /\ After("genOffload") = "wakeKv"
        /\ After("wakeKv") = "generate" /\ After("generate") = "finalizeGen"
        /\ After("finalizeGen") = "genSleep" /\ After("genSleep") = "genReload"
        /\ After("genReload") = "logps" /\ After("logps") = "train"
    BY ColocatedAfter
  <2>3. pc \in ColocatedRound \ {"train"}
    BY <1>1, <2>1
  <2> QED
    BY <2>1, <2>2, <2>3 DEF ColocatedRound, ColocatedNext
<1>5. ~Colocated => pc \in SeparateRound /\ SeparateNext(pc, After(pc))
  <2> SUFFICES ASSUME ~Colocated PROVE pc \in SeparateRound /\ SeparateNext(pc, After(pc))
    OBVIOUS
  <2>1. pc \in SeparateRound
    BY <1>1, PhasesAre
  <2>2. /\ After("prepareTrain") = "prepareRollout" /\ After("prepareRollout") = "join"
        /\ After("join") = "merge" /\ After("merge") = "send"
        /\ After("send") = "unmerge" /\ After("unmerge") = "release"
        /\ After("release") = "genOffload" /\ After("genOffload") = "generate"
        /\ After("generate") = "finalizeGen" /\ After("finalizeGen") = "genReload"
        /\ After("genReload") = "logps" /\ After("logps") = "train"
    BY SeparateAfter
  <2>3. pc \in SeparateRound \ {"train"}
    BY <1>1, <2>1
  <2> QED
    BY <2>1, <2>2, <2>3 DEF SeparateRound, SeparateNext
<1>6. \/ Unwinds(pc, pc')
      \/ /\ ~(failing /\ pc \in {"unmerge", "genReload"})
         /\ \/ Colocated /\ ColocatedNext(pc, pc')
            \/ ~Colocated /\ SeparateNext(pc, pc')
  BY <1>3, <1>4, <1>5 DEF Unwinds
<1>7. Synced(pc) <=> ~failing /\ pc = IF Colocated THEN "unmerge" ELSE "release"
  BY ColocatedCycle, SeparateCycle DEF Synced
<1>8. \/ ~issued /\ NotNeeded(pc) /\ sleeping' = sleeping
      \/ /\ issued /\ Method(pc) \notin raised
         /\ \A w \in Workers : Method(pc) \notin Calls(inbox[w])
         /\ \A r \in Replicas : Method(pc) \notin threads[r]
         /\ sleeping' = IF pc \in {"sleep", "genSleep"} THEN Memory
                        ELSE IF pc = "wakeWeights" THEN sleeping \ {"weights"}
                        ELSE IF pc = "wakeKv" THEN sleeping \ {"kv_cache"} ELSE sleeping
  <2>1. CASE Skip
    BY <2>1 DEF Skip
  <2>2. CASE Return
    <3>1. /\ Answered
          /\ sleeping' = CASE Method(pc) = "sleep" -> Memory
                           [] pc = "wakeWeights"   -> sleeping \ {"weights"}
                           [] pc = "wakeKv"        -> sleeping \ {"kv_cache"}
                           [] OTHER                -> sleeping
      BY <2>2 DEF Return
    <3>2. Method(pc) = "sleep" <=> pc \in {"sleep", "genSleep"}
      BY MethodIs
    <3> QED
      BY <3>1, <3>2 DEF Answered
  <2> QED
    BY <2>1, <2>2
<1> QED
  BY <1>1, <1>2, <1>6, <1>7, <1>8 DEF Advance

(* What is updated was updated before the driver went on.                  *)
LEMMA AdvanceUpdated ==
  ASSUME Advance, Updated' PROVE Updated
<1>1. failing' = failing /\ issued' = FALSE
  BY DEF Advance
<1>2. ~failing /\ pc' \in Synchronised \cup {"reload", "unmerge", "release"}
  BY <1>1, RayAssumption DEF Updated, DoneBy
<1>3. \/ Colocated /\ ColocatedNext(pc, pc')
      \/ ~Colocated /\ SeparateNext(pc, pc')
  BY <1>2 DEF Advance, Unwinds
<1>4. pc \in {"update", "send"} => \A w \in Workers : DoneBy(w)
  BY DEF Advance, NotNeeded, DoneBy
<1>5. pc \in Synchronised \cup {"reload", "unmerge", "release", "update", "send"}
  BY <1>2, <1>3 DEF Synchronised, ColocatedNext, SeparateNext
<1> QED
  BY <1>2, <1>4, <1>5 DEF Updated

(* Going on with the next phase keeps the invariant.                       *)
LEMMA AdvanceKeeps == IInv /\ Advance => IInv'
<1> SUFFICES ASSUME IInv, Advance PROVE IInv'
  OBVIOUS
<1>0. /\ setting' = setting /\ failing' = failing /\ failedAt' = failedAt /\ chunk' = chunk
      /\ version' = version /\ merged' = merged /\ onGpu' = onGpu /\ awake' = awake
      /\ policy' = policy /\ cache' = cache /\ sampled' = sampled
      /\ inbox' = inbox /\ threads' = threads /\ raised' = raised
  BY DEF Advance, workerVars, replicaVars, rayVars
<1>1. /\ TypeOK /\ Outstanding /\ Slept /\ Engines /\ Models /\ Merges /\ GivenUp /\ Rounds
      /\ Loaded /\ Samples
  BY DEF IInv
<1>2. /\ Phases' = Phases /\ Methods' = Methods /\ Colocated' = Colocated /\ Lora' = Lora
      /\ MergeAndSync' = MergeAndSync /\ Offload' = Offload /\ OffPolicy' = OffPolicy
      /\ SleepMode' = SleepMode /\ Sleeps' = Sleeps
  BY <1>0, SettingSame
<1>3. /\ pc \in Phases /\ pc \notin {"train", "finalize", "top", "done"} /\ ~Over
      /\ \/ failing /\ pc \in {"unmerge", "genReload"} /\ pc' = "finalize"
         \/ /\ ~(failing /\ pc \in {"unmerge", "genReload"})
            /\ \/ Colocated /\ ColocatedNext(pc, pc')
               \/ ~Colocated /\ SeparateNext(pc, pc')
      /\ issued' = FALSE
  BY DEF Advance, Unwinds
<1>4. \/ ~issued /\ NotNeeded(pc) /\ sleeping' = sleeping
      \/ /\ issued /\ Method(pc) \notin raised
         /\ \A w \in Workers : DoneBy(w)
         /\ \A r \in Replicas : DoneIn(r)
         /\ sleeping' = IF pc \in {"sleep", "genSleep"} THEN Memory
                        ELSE IF pc = "wakeWeights" THEN sleeping \ {"weights"}
                        ELSE IF pc = "wakeKv" THEN sleeping \ {"kv_cache"} ELSE sleeping
  BY DEF Advance, DoneBy, DoneIn
<1>5. baseSyncDone' = (baseSyncDone \/ (~failing /\ pc = IF Colocated THEN "unmerge" ELSE "release"))
  BY DEF Advance
<1>6. pc' \in Phases
  BY <1>3, PhasesAre DEF ColocatedNext, SeparateNext, ColocatedRound, SeparateRound
<1>7. TypeOK'
  <2>1. sleeping' \subseteq Memory
    BY <1>1, <1>4 DEF TypeOK
  <2>2. baseSyncDone' \in BOOLEAN
    BY <1>1, <1>5 DEF TypeOK
  <2>3. issued' \in BOOLEAN
    BY <1>3
  <2> QED
    BY <1>0, <1>1, <1>2, <1>6, <2>1, <2>2, <2>3 DEF TypeOK
<1>8. \A w \in Workers : Calls(inbox[w]) \subseteq LeftBehind
  BY <1>1, <1>3, <1>4 DEF Outstanding, Expected, DoneBy
<1>9. \A r \in Replicas : threads[r] \subseteq LeftBehind
  BY <1>1, <1>3, <1>4 DEF Outstanding, Expected, DoneIn
<1>10. ~Over' => LeftBehind' = LeftBehind
  BY <1>0, <1>1, <1>3 DEF LeftBehind, Outstanding, ColocatedNext, SeparateNext, Over
<1>11. Outstanding'
  <2>1. failing' => Over' \/ pc' \in {"reload", "unmerge", "finalizeGen", "genSleep", "genReload"}
    BY <1>0, <1>1, <1>3 DEF Outstanding, ColocatedNext, SeparateNext, Over
  <2>2. ~Over' => /\ \A w \in Workers : Calls(inbox'[w]) \subseteq Expected'
                  /\ \A r \in Replicas : threads'[r] \subseteq Expected'
    <3>1. ~Over' => Expected' = LeftBehind
      BY <1>3, <1>10 DEF Expected
    <3> QED
      BY <1>0, <1>8, <1>9, <3>1
  <2>3. (~Over' /\ ~failing') => \A w \in Workers : Len(inbox'[w]) <= 1
    BY <1>0, <1>1, <1>3 DEF Outstanding
  <2>4. /\ \A w \in Workers : inbox'[w] \in Seq(Methods')
        /\ \A r \in Replicas : threads'[r] \subseteq Methods' /\ "train" \notin threads'[r]
    BY <1>0, <1>1, <1>2 DEF Outstanding
  <2>5. failing' /\ pc' \in {"finalizeGen", "genSleep", "genReload"} => "generate" \in failedAt'
    BY <1>0, <1>1, <1>3 DEF Outstanding, ColocatedNext, SeparateNext, Over
  <2> QED
    BY <1>3, <2>1, <2>2, <2>3, <2>4, <2>5 DEF Outstanding
<1>12. Slept'
  <2>1. CASE Colocated
    BY <1>0, <1>1, <1>2, <1>3, <1>4, <1>5, <2>1
       DEF Slept, ColocatedNext, NotNeeded, Memory, Over
  <2>2. CASE ~Colocated
    BY <1>0, <1>1, <1>2, <1>3, <1>4, <1>5, <2>2
       DEF Slept, SeparateNext, NotNeeded, Over
  <2> QED
    BY <2>1, <2>2
<1>13. Engines'
  <2>1. CASE Sleeps
    <3>0. Colocated
      BY <2>1 DEF Sleeps
    <3> SUFFICES ASSUME ~Over', NEW r \in Replicas PROVE Engine(r)'
      BY <1>2, <2>1 DEF Engines
    <3>1. Engine(r)
      BY <1>1, <1>3, <2>1 DEF Engines
    <3>2. issued /\ Method(pc) \notin raised => DoneIn(r)
      BY <1>3, <1>4
    <3>3. ~DoneIn(r)'
      BY <1>3 DEF DoneIn
    <3>4. ColocatedNext(pc, pc') /\ awake'[r] = awake[r] /\ issued' = FALSE
      BY <1>0, <1>3, <3>0 DEF Over
    <3>5. pc \in {"sleep", "genSleep", "wakeWeights", "wakeKv"} => (DoneIn(r) \/ NotNeeded(pc))
      BY <1>4
    <3> QED
      BY <1>1, <1>2, <3>0, <3>1, <3>3, <3>4, <3>5 DEF Engine, ColocatedNext, NotNeeded, Slept, Memory
  <2>2. CASE ~Sleeps
    BY <1>0, <1>1, <1>2, <1>3, <2>2 DEF Engines
  <2> QED
    BY <2>1, <2>2
<1>14. Models'
  <2> SUFFICES ASSUME ~Over', NEW w \in Workers PROVE Model(w)'
    BY DEF Models
  <2>1. Model(w)
    BY <1>1, <1>3 DEF Models
  <2>2. ~DoneBy(w)' /\ onGpu'[w] = onGpu[w]
    BY <1>0, <1>3 DEF DoneBy
  <2>3. DoneBy(w) \/ NotNeeded(pc)
    BY <1>4
  <2>4. pc \in {"genOffload", "genReload"} /\ NotNeeded(pc) => ~(Colocated \/ Offload)
    BY DEF NotNeeded
  <2>5. CASE Colocated
    BY <1>2, <1>3, <2>1, <2>2, <2>3, <2>4, <2>5 DEF Model, ColocatedNext, Over
  <2>6. CASE ~Colocated
    BY <1>2, <1>3, <2>1, <2>2, <2>3, <2>4, <2>6 DEF Model, SeparateNext, Over
  <2> QED
    BY <2>5, <2>6
<1>15. Merges'
  <2> SUFFICES ASSUME ~Over', NEW w \in Workers PROVE Merging(w)'
    BY DEF Merges
  <2>1. Merging(w)
    BY <1>1, <1>3 DEF Merges
  <2>2. ~DoneBy(w)' /\ merged'[w] = merged[w]
    BY <1>0, <1>3 DEF DoneBy
  <2>3. DoneBy(w) \/ NotNeeded(pc)
    BY <1>4
  <2>4. pc \in {"merge", "unmerge"} /\ NotNeeded(pc) => ~MergeAndSync
    BY DEF NotNeeded
  <2>5. CASE Colocated
    BY <1>2, <1>3, <2>1, <2>2, <2>3, <2>4, <2>5 DEF Merging, ColocatedNext, Over
  <2>6. CASE ~Colocated
    BY <1>2, <1>3, <2>1, <2>2, <2>3, <2>4, <2>6 DEF Merging, SeparateNext, Over
  <2> QED
    BY <2>5, <2>6
<1>16. GivenUp'
  <2> SUFFICES ASSUME Over' PROVE GivenUp'
    BY DEF GivenUp
  <2>1. failing /\ pc \in {"unmerge", "genReload"} /\ pc' = "finalize" /\ baseSyncDone' = baseSyncDone
    <3>1. ~Colocated /\ SeparateNext(pc, pc') => FALSE
      BY DEF SeparateNext, Over
    <3>2. ~(Colocated /\ ColocatedNext(pc, pc'))
      BY DEF ColocatedNext, Over
    <3> QED
      BY <1>1, <1>3, <1>5, <3>1, <3>2 DEF TypeOK
  <2>2. /\ \A w \in Workers : Calls(inbox[w]) \subseteq {"update", "generate"}
        /\ \A r \in Replicas : threads[r] \subseteq {"update", "generate"}
    BY <1>8, <1>9 DEF LeftBehind
  <2>3. Sleeps => KvAsleep'
    <3> SUFFICES ASSUME Sleeps, NEW r \in Replicas
                 PROVE  "kv_cache" \notin awake'[r] /\ "wakeKv" \notin threads'[r]
      BY DEF KvAsleep
    <3>1. Engine(r) /\ Colocated
      BY <1>1, <1>3 DEF Engines, Sleeps
    <3>2. "kv_cache" \notin awake[r]
      BY <2>1, <3>1 DEF Engine
    <3> QED
      BY <1>0, <2>2, <3>2
  <2>4. \A w \in Workers : ~merged'[w] /\ "merge" \notin Calls(inbox'[w])
    <3> SUFFICES ASSUME NEW w \in Workers PROVE ~merged'[w] /\ "merge" \notin Calls(inbox'[w])
      OBVIOUS
    <3>1. Merging(w)
      BY <1>1, <1>3 DEF Merges
    <3>2. DoneBy(w) \/ NotNeeded(pc)
      BY <1>4
    <3>3. ~merged[w]
      BY <2>1, <3>1, <3>2 DEF Merging, NotNeeded
    <3> QED
      BY <1>0, <2>2, <3>3
  <2>5. \E w \in Workers : "train" \notin Calls(inbox'[w])
    BY <1>0, <2>2, RayAssumption
  <2>6. NothingStreams' \/ WeightsStay'
    <3>1. CASE pc = "unmerge"
      <4> SUFFICES ASSUME NEW r \in Replicas PROVE "weights" \in awake'[r] /\ "sleep" \notin threads'[r]
        BY DEF WeightsStay
      <4>1. Engine(r) \/ awake[r] = Memory
        BY <1>1, <1>3 DEF Engines
      <4>2. "weights" \in awake[r]
        BY <3>1, <4>1 DEF Engine, Memory
      <4> QED
        BY <1>0, <2>2, <4>2
    <3>2. CASE pc # "unmerge"
      <4>1. LeftBehind = {"generate"}
        BY <2>1, <3>2 DEF LeftBehind
      <4>2. \A w \in Workers : "update" \notin Calls(inbox'[w])
        BY <1>0, <1>8, <4>1
      <4> QED
        BY <4>2 DEF NothingStreams, Calls
    <3> QED
      BY <3>1, <3>2
  <2>7. "generate" \notin failedAt' => \A r \in Replicas : "generate" \notin threads'[r]
    <3>1. CASE pc = "unmerge"
      <4>1. LeftBehind \subseteq {"update"}
        BY <2>1, <3>1 DEF LeftBehind
      <4> QED
        BY <1>0, <1>9, <4>1
    <3>2. CASE pc # "unmerge"
      BY <1>0, <1>1, <2>1, <3>2 DEF Outstanding
    <3> QED
      BY <3>1, <3>2
  <2> QED
    BY <1>2, <2>3, <2>4, <2>5, <2>6, <2>7 DEF GivenUp
<1>17. Rounds'
  <2>1. ~(pc' = "train" /\ issued') /\ ~Trained'
    BY <1>3 DEF Trained
  <2>2. ~Over' => pc # "top" /\ pc # "train" /\ version < TrainIters /\ chunk < Spg /\ chunk = 0
    BY <1>1, <1>3 DEF Rounds
  <2> QED
    BY <1>0, <2>1, <2>2 DEF Rounds
<1>18. Loaded'
  <2>1. Updated' => Updated
    BY <1>1, <1>3, AdvanceUpdated
  <2>2. pc' \in Synchronised => baseSyncDone'
    BY <1>1, <1>3, <1>5
       DEF Loaded, Synchronised, ColocatedNext, SeparateNext, Outstanding, Over
  <2> QED
    BY <1>0, <1>1, <1>2, <2>1, <2>2 DEF Loaded
<1>19. Samples'
  <2> SUFFICES ASSUME MergeAndSync, ~Over', ~failing PROVE Samples'
    BY <1>0, <1>2 DEF Samples
  <2>1. chunk = 0 /\ ~Trained' /\ pc' # "top" /\ \A v \in sampled : v = version
    BY <1>1, <1>3, <1>6, PhasesAre DEF Samples, Rounds, Trained
  <2>2. version \in Int
    BY <1>1, RayAssumption DEF TypeOK, Versions
  <2> QED
    BY <1>0, <2>1, <2>2 DEF Samples
<1> QED
  BY <1>7, <1>11, <1>12, <1>13, <1>14, <1>15, <1>16, <1>17, <1>18, <1>19 DEF IInv

(* The first synchronisation sends whatever there is to send.              *)
LEMMA AdvanceAdapters ==
  ASSUME IInv, Adapters, Advance PROVE Adapters'
<1>1. /\ setting' = setting /\ version' = version /\ policy' = policy
      /\ (baseSyncDone => baseSyncDone') /\ pc # "train"
  BY DEF Advance, workerVars, replicaVars
<1>2. MergeAndSync' = MergeAndSync
  BY <1>1, SettingSame
<1>3. Updated' => Updated
  BY AdvanceUpdated
<1>4. pc' = "train" => baseSyncDone
  <2>1. pc' = "train" => pc = "logps"
    BY DEF Advance, Unwinds, ColocatedNext, SeparateNext
  <2> QED
    BY <2>1 DEF IInv, Loaded, Synchronised
<1> QED
  BY <1>1, <1>2, <1>3, <1>4 DEF Adapters

(* In the first state nothing has been called.                             *)
LEMMA InitInv == Init => IInv
<1> SUFFICES ASSUME Init PROVE IInv
  OBVIOUS
<1>1. /\ setting \in Settings /\ pc = "top" /\ issued = FALSE /\ failing = FALSE /\ failedAt = {}
      /\ sleeping = {} /\ baseSyncDone = FALSE /\ sampled = {} /\ chunk = 0 /\ raised = {}
      /\ version = FirstVersion
      /\ merged = [w \in Workers |-> FALSE] /\ onGpu = [w \in Workers |-> TRUE]
      /\ awake = [r \in Replicas |-> Memory]
      /\ policy = [r \in Replicas |-> [base |-> 0, lora |-> 0]]
      /\ cache = [r \in Replicas |-> {}]
      /\ inbox = [w \in Workers |-> << >>] /\ threads = [r \in Replicas |-> {}]
  BY DEF Init
<1>2. FirstVersion \in Versions
  BY RayAssumption DEF Versions
<1>3. TypeOK
  <2>1. chunk \in 0 .. Spg
    BY <1>1, RayAssumption
  <2>2. policy \in [Replicas -> [base : Versions \cup {0}, lora : Versions \cup {0}]]
    BY <1>1
  <2>3. inbox \in [Workers -> Seq(Methods)]
    BY <1>1
  <2> QED
    BY <1>1, <1>2, <2>1, <2>2, <2>3 DEF TypeOK, Outside
<1>4. Outstanding
  <2>1. \A w \in Workers : /\ inbox[w] \in Seq(Methods) /\ Calls(inbox[w]) = {} /\ Len(inbox[w]) <= 1
    BY <1>1 DEF Calls
  <2>2. \A r \in Replicas : threads[r] = {}
    BY <1>1
  <2> QED
    BY <1>1, <2>1, <2>2 DEF Outstanding
<1>5. Slept
  BY <1>1 DEF Slept
<1>6. Engines
  <2>1. \A r \in Replicas : awake[r] = Memory
    BY <1>1
  <2>2. sleeping # Memory
    BY <1>1 DEF Memory
  <2> QED
    BY <1>1, <2>1, <2>2 DEF Engines, Engine, DoneIn
<1>7. Models
  BY <1>1 DEF Models, Model
<1>8. Merges
  BY <1>1 DEF Merges, Merging
<1>9. GivenUp
  BY <1>1 DEF GivenUp, Over
<1>10. Rounds
  BY <1>1 DEF Rounds
<1>11. Loaded
  <2>1. \A r \in Replicas : policy[r].base = 0 /\ policy[r].lora = 0
    BY <1>1
  <2>2. ~Updated /\ pc \notin Synchronised
    BY <1>1 DEF Updated, Synchronised
  <2>3. \A w \in Workers : ~merged[w] /\ "merge" \notin Calls(inbox[w])
    BY <1>1 DEF Calls
  <2> QED
    BY <2>1, <2>2, <2>3 DEF Loaded
<1>12. Samples
  BY <1>1 DEF Samples
<1> QED
  BY <1>3, <1>4, <1>5, <1>6, <1>7, <1>8, <1>9, <1>10, <1>11, <1>12 DEF IInv

(* Beginning a round, or ending the training, keeps the invariant.         *)
LEMMA LoopKeeps == IInv /\ Loop /\ setting' = setting => IInv'
<1> SUFFICES ASSUME IInv, Loop, setting' = setting PROVE IInv'
  OBVIOUS
<1>1. /\ TypeOK /\ Outstanding /\ Slept /\ Engines /\ Models /\ Merges /\ GivenUp /\ Rounds
      /\ Loaded /\ Samples
  BY DEF IInv
<1>2. /\ Phases' = Phases /\ Methods' = Methods /\ Colocated' = Colocated /\ Lora' = Lora
      /\ MergeAndSync' = MergeAndSync /\ Offload' = Offload /\ OffPolicy' = OffPolicy
      /\ SleepMode' = SleepMode /\ Sleeps' = Sleeps
  BY SettingSame
<1>3. /\ pc = "top" /\ chunk' = 0 /\ issued' = issued /\ failing' = failing /\ failedAt' = failedAt
      /\ sleeping' = sleeping /\ baseSyncDone' = baseSyncDone
      /\ version' = version /\ merged' = merged /\ onGpu' = onGpu
      /\ awake' = awake /\ policy' = policy /\ cache' = cache
      /\ inbox' = inbox /\ threads' = threads /\ raised' = raised
  BY DEF Loop, workerVars, rayVars
<1>4. ~issued /\ ~failing /\ ~Over
  <2>1. ~issued
    BY <1>1, <1>3, PhasesAre DEF Outstanding
  <2> QED
    BY <1>1, <1>3, <2>1 DEF Outstanding, Over
<1>5. \/ version < TrainIters /\ pc' \in {"sleep", "prepareTrain", "train"} /\ sampled' = {}
         /\ (pc' = "sleep" => Colocated) /\ (pc' = "prepareTrain" => ~Colocated)
      \/ pc' = "finalize" /\ sampled' = sampled
  BY <1>3, ColocatedCycle, SeparateCycle DEF Loop
<1>6. pc' \in Phases /\ (Over' => pc' = "finalize") /\ (~Over' => version < TrainIters /\ sampled' = {})
  <2>1. pc' = "sleep" => pc' \in Phases
    BY <1>5, PhasesAre DEF ColocatedRound
  <2>2. pc' = "prepareTrain" => pc' \in Phases
    BY <1>5, PhasesAre DEF SeparateRound
  <2> QED
    BY <1>5, <2>1, <2>2, PhasesAre DEF Over
<1>7. TypeOK'
  <2>1. chunk' \in 0 .. Spg
    BY <1>3, RayAssumption
  <2>2. sampled' \subseteq Versions \cup {0}
    BY <1>1, <1>5 DEF TypeOK
  <2> QED
    BY <1>1, <1>2, <1>3, <1>6, <2>1, <2>2 DEF TypeOK
<1>8. \A w \in Workers : Calls(inbox[w]) = {} /\ inbox[w] = << >>
  <2> SUFFICES ASSUME NEW w \in Workers PROVE Calls(inbox[w]) = {} /\ inbox[w] = << >>
    OBVIOUS
  <2>1. Calls(inbox[w]) = {} /\ inbox[w] \in Seq(Methods)
    BY <1>1, <1>4 DEF Outstanding, Expected, LeftBehind
  <2> QED
    BY <2>1, CallsAre
<1>9. \A r \in Replicas : threads[r] = {}
  BY <1>1, <1>4 DEF Outstanding, Expected, LeftBehind
<1>10. ~issued' /\ ~failing' /\ pc' # "top"
  BY <1>3, <1>4, <1>5
<1>11. Outstanding'
  <2>1. \A w \in Workers : inbox'[w] \in Seq(Methods') /\ Calls(inbox'[w]) = {} /\ Len(inbox'[w]) <= 1
    BY <1>1, <1>2, <1>3, <1>8 DEF Outstanding
  <2>2. \A r \in Replicas : threads'[r] = {}
    BY <1>3, <1>9
  <2> QED
    BY <1>10, <2>1, <2>2 DEF Outstanding
<1>12. Slept'
  BY <1>1, <1>2, <1>3, <1>5, <1>10 DEF Slept
<1>13. Engines'
  <2> SUFFICES ASSUME ~Over', NEW r \in Replicas
               PROVE  IF Sleeps THEN Engine(r)' ELSE awake'[r] = Memory
    BY <1>2 DEF Engines
  <2>1. CASE Sleeps
    BY <1>1, <1>2, <1>3, <1>4, <1>5, <1>6, <1>10, <2>1 DEF Engines, Engine, Over, DoneIn, Sleeps
  <2>2. CASE ~Sleeps
    BY <1>1, <1>3, <1>4, <2>2 DEF Engines
  <2> QED
    BY <2>1, <2>2
<1>14. Models'
  <2> SUFFICES ASSUME ~Over', NEW w \in Workers PROVE Model(w)'
    BY DEF Models
  <2>1. onGpu[w] /\ ~DoneBy(w)'
    BY <1>1, <1>3, <1>4, <1>10 DEF Models, Model, DoneBy
  <2> QED
    BY <1>3, <1>5, <2>1 DEF Model, Over
<1>15. Merges'
  <2> SUFFICES ASSUME ~Over', NEW w \in Workers PROVE Merging(w)'
    BY DEF Merges
  <2>1. ~merged[w] /\ ~DoneBy(w)'
    BY <1>1, <1>3, <1>4, <1>10 DEF Merges, Merging, DoneBy
  <2> QED
    BY <1>3, <1>5, <2>1 DEF Merging, Over
<1>16. GivenUp'
  <2> SUFFICES ASSUME Over' PROVE GivenUp'
    BY DEF GivenUp
  <2>1. /\ \A w \in Workers : Calls(inbox'[w]) = {} /\ ~merged'[w]
        /\ \A r \in Replicas : threads'[r] = {}
    BY <1>1, <1>3, <1>4, <1>8, <1>9 DEF Merges, Merging
  <2>2. Sleeps /\ baseSyncDone => KvAsleep'
    BY <1>1, <1>3, <1>4, <2>1 DEF Engines, Engine, Slept, KvAsleep, Sleeps
  <2>3. NothingStreams'
    BY <2>1 DEF NothingStreams, Calls
  <2> QED
    BY <1>2, <1>3, <2>1, <2>2, <2>3, RayAssumption DEF GivenUp
<1>17. Rounds'
  BY <1>3, <1>6, <1>10, RayAssumption DEF Rounds
<1>18. Loaded'
  <2>1. ~Updated' /\ pc' \notin Synchronised
    BY <1>5, <1>10 DEF Updated, Synchronised
  <2> QED
    BY <1>1, <1>2, <1>3, <2>1 DEF Loaded
<1>19. Samples'
  BY <1>6 DEF Samples
<1> QED
  BY <1>7, <1>11, <1>12, <1>13, <1>14, <1>15, <1>16, <1>17, <1>18, <1>19 DEF IInv

(* No training step comes before the first synchronisation.                *)
LEMMA LoopAdapters ==
  ASSUME FreshAdapters, IInv, Adapters, Loop, setting' = setting PROVE Adapters'
<1>1. MergeAndSync' = MergeAndSync
  BY SettingSame
<1>2. /\ pc = "top" /\ version' = version /\ policy' = policy /\ baseSyncDone' = baseSyncDone
      /\ (pc' = "train" => OffPolicy) /\ ~Updated'
  BY ColocatedCycle, SeparateCycle DEF Loop, workerVars, Updated, Synchronised
<1>3. ~MergeAndSync => ~OffPolicy
  BY DEF FreshAdapters, IInv, TypeOK, MergeAndSync, OffPolicy
<1> QED
  BY <1>1, <1>2, <1>3 DEF Adapters

(* What is called is not done.                                             *)
LEMMA IssuedIs ==
  ASSUME TypeOK, Issue
  PROVE  /\ pc \in OnReplicas => \A r \in Replicas : ~DoneIn(r)'
         /\ pc \notin OnReplicas => pc \in OnWorkers /\ threads' = threads
         /\ pc \in OnWorkers =>
              \A w \in Workers : ~DoneBy(w)' /\ inbox'[w] = Append(inbox[w], Method(pc))
         /\ pc \notin OnWorkers => inbox' = inbox
         /\ \A w \in Workers : /\ inbox'[w] \in Seq(Methods)
                               /\ Calls(inbox'[w]) \subseteq Calls(inbox[w]) \cup {Method(pc)}
                               /\ Len(inbox'[w]) <= Len(inbox[w]) + 1
         /\ \A r \in Replicas : threads'[r] \subseteq threads[r] \cup {Method(pc)}
         /\ Method(pc) \in Methods
<1>1. /\ pc \in Phases /\ pc' = pc /\ Method(pc) \in Methods /\ Method(pc)' = Method(pc)
  BY DEF Issue, Methods, Method
<1>2. /\ inbox' = IF pc \in OnWorkers THEN [w \in Workers |-> Append(inbox[w], Method(pc))] ELSE inbox
      /\ threads' = IF pc \in OnReplicas THEN [r \in Replicas |-> threads[r] \cup {Method(pc)}] ELSE threads
  BY DEF Issue
<1>3. pc \notin OnReplicas => pc \in OnWorkers
  BY <1>1 DEF OnWorkers
<1>4. \A w \in Workers : inbox[w] \in Seq(Methods)
  BY DEF TypeOK
<1>5. \A w \in Workers : /\ Calls(Append(inbox[w], Method(pc))) = Calls(inbox[w]) \cup {Method(pc)}
                         /\ Append(inbox[w], Method(pc)) \in Seq(Methods)
                         /\ Len(Append(inbox[w], Method(pc))) = Len(inbox[w]) + 1
                         /\ Len(inbox[w]) \in Nat
  BY <1>1, <1>4, CallsAre
<1>6. pc \in OnWorkers => \A w \in Workers : inbox'[w] = Append(inbox[w], Method(pc))
  BY <1>2
<1>7. pc \notin OnWorkers => inbox' = inbox
  BY <1>2
<1>8. pc \in OnWorkers => \A w \in Workers : ~DoneBy(w)'
  <2> SUFFICES ASSUME pc \in OnWorkers, NEW w \in Workers PROVE Method(pc)' \in Calls(inbox[w])'
    BY DEF DoneBy
  <2>1. Calls(inbox[w])' = Calls(inbox'[w])
    BY DEF Calls
  <2> QED
    BY <1>1, <1>5, <1>6, <2>1
<1>9. \A w \in Workers : /\ inbox'[w] \in Seq(Methods)
                         /\ Calls(inbox'[w]) \subseteq Calls(inbox[w]) \cup {Method(pc)}
                         /\ Len(inbox'[w]) <= Len(inbox[w]) + 1
  <2> SUFFICES ASSUME NEW w \in Workers
               PROVE  /\ inbox'[w] \in Seq(Methods)
                      /\ Calls(inbox'[w]) \subseteq Calls(inbox[w]) \cup {Method(pc)}
                      /\ Len(inbox'[w]) <= Len(inbox[w]) + 1
    OBVIOUS
  <2>1. CASE inbox'[w] = Append(inbox[w], Method(pc))
    <3>1. Len(inbox'[w]) = Len(inbox[w]) + 1 /\ Len(inbox[w]) \in Nat
      BY <1>5, <2>1
    <3>2. Calls(inbox'[w]) = Calls(inbox[w]) \cup {Method(pc)} /\ inbox'[w] \in Seq(Methods)
      BY <1>5, <2>1
    <3> QED
      BY <3>1, <3>2
  <2>2. CASE inbox'[w] = inbox[w]
    <3>1. Len(inbox[w]) \in Nat
      BY <1>5
    <3>2. Len(inbox[w]) <= Len(inbox[w]) + 1
      BY <3>1
    <3> QED
      BY <1>4, <2>2, <3>2
  <2> QED
    BY <1>6, <1>7, <2>1, <2>2
<1>10. pc \in OnReplicas => \A r \in Replicas : ~DoneIn(r)'
  BY <1>1, <1>2 DEF DoneIn
<1>11. \A r \in Replicas : threads'[r] \subseteq threads[r] \cup {Method(pc)}
  BY <1>2
<1>12. pc \notin OnReplicas => threads' = threads
  BY <1>2
<1> QED
  BY <1>1, <1>3, <1>6, <1>7, <1>8, <1>9, <1>10, <1>11, <1>12

(* Calling a method of all actors keeps the invariant.                     *)
LEMMA IssueKeeps == IInv /\ Issue /\ setting' = setting => IInv'
<1> SUFFICES ASSUME IInv, Issue, setting' = setting PROVE IInv'
  OBVIOUS
<1>1. /\ TypeOK /\ Outstanding /\ Slept /\ Engines /\ Models /\ Merges /\ GivenUp /\ Rounds
      /\ Loaded /\ Samples
  BY DEF IInv
<1>2. /\ Phases' = Phases /\ Methods' = Methods /\ Colocated' = Colocated /\ Lora' = Lora
      /\ MergeAndSync' = MergeAndSync /\ Offload' = Offload /\ OffPolicy' = OffPolicy
      /\ SleepMode' = SleepMode /\ Sleeps' = Sleeps
  BY SettingSame
<1>3. /\ pc' = pc /\ chunk' = chunk /\ failing' = failing /\ failedAt' = failedAt
      /\ sleeping' = sleeping /\ baseSyncDone' = baseSyncDone /\ sampled' = sampled
      /\ version' = version /\ merged' = merged /\ onGpu' = onGpu
      /\ awake' = awake /\ policy' = policy /\ cache' = cache
  BY DEF Issue, workerVars, replicaVars
<1>4. /\ pc \in Phases /\ ~issued /\ issued' = TRUE /\ ~NotNeeded(pc)
      /\ raised' = raised \ {Method(pc)} /\ pc # "top"
  BY PhasesAre DEF Issue
<1>5. /\ pc \in OnReplicas => \A r \in Replicas : ~DoneIn(r)'
      /\ pc \notin OnReplicas => pc \in OnWorkers /\ threads' = threads
      /\ pc \in OnWorkers =>
           \A w \in Workers : ~DoneBy(w)' /\ inbox'[w] = Append(inbox[w], Method(pc))
      /\ pc \notin OnWorkers => inbox' = inbox
      /\ Method(pc) \in Methods
  BY <1>1, IssuedIs
<1>6. /\ \A w \in Workers : /\ inbox'[w] \in Seq(Methods)
                            /\ Calls(inbox'[w]) \subseteq Calls(inbox[w]) \cup {Method(pc)}
                            /\ Len(inbox'[w]) <= Len(inbox[w]) + 1
      /\ \A r \in Replicas : threads'[r] \subseteq threads[r] \cup {Method(pc)}
  BY <1>1, IssuedIs
<1>7. TypeOK'
  <2>1. inbox' \in [Workers -> Seq(Methods)]
    <3>1. DOMAIN inbox' = Workers /\ inbox' = [w \in DOMAIN inbox' |-> inbox'[w]]
      BY <1>1 DEF Issue, TypeOK
    <3> QED
      BY <1>6, <3>1
  <2>2. threads' \in [Replicas -> SUBSET Methods]
    BY <1>1, <1>5 DEF Issue, TypeOK
  <2>3. raised' \subseteq Methods
    BY <1>1, <1>4 DEF TypeOK
  <2> QED
    BY <1>1, <1>2, <1>3, <1>4, <2>1, <2>2, <2>3 DEF TypeOK
<1>8. \A w \in Workers : Len(inbox[w]) \in Nat
  BY <1>1, CallsAre DEF Outstanding
<1>9. ~failing /\ ~Over => \A w \in Workers : inbox[w] = << >> /\ Len(inbox[w]) = 0
  <2> SUFFICES ASSUME ~failing, ~Over, NEW w \in Workers PROVE inbox[w] = << >> /\ Len(inbox[w]) = 0
    OBVIOUS
  <2>1. Calls(inbox[w]) = {} /\ inbox[w] \in Seq(Methods)
    BY <1>1, <1>4 DEF Outstanding, Expected, LeftBehind
  <2>2. inbox[w] = << >>
    BY <2>1, CallsAre
  <2> QED
    BY <2>2
<1>10. Over' <=> Over
  BY <1>3 DEF Over
<1>11. Outstanding'
  <2>1. Method(pc') = Method(pc)
    BY <1>3
  <2>2. ~Over' => /\ \A w \in Workers : Calls(inbox'[w]) \subseteq Expected'
                  /\ \A r \in Replicas : threads'[r] \subseteq Expected'
    <3> SUFFICES ASSUME ~Over PROVE /\ \A w \in Workers : Calls(inbox'[w]) \subseteq Expected'
                                    /\ \A r \in Replicas : threads'[r] \subseteq Expected'
      BY <1>10
    <3>1. Expected' = Expected \cup {Method(pc)}
      BY <1>3, <1>4, <2>1 DEF Expected, LeftBehind
    <3>2. /\ \A w \in Workers : Calls(inbox[w]) \subseteq Expected
          /\ \A r \in Replicas : threads[r] \subseteq Expected
      BY <1>1 DEF Outstanding
    <3> QED
      BY <1>6, <3>1, <3>2
  <2>3. (~Over' /\ ~failing') => \A w \in Workers : Len(inbox'[w]) <= 1
    <3> SUFFICES ASSUME ~Over, ~failing, NEW w \in Workers PROVE Len(inbox'[w]) <= 1
      BY <1>3, <1>10
    <3>1. Len(inbox'[w]) <= Len(inbox[w]) + 1 /\ Len(inbox[w]) = 0
      BY <1>6, <1>9
    <3>2. Len(inbox'[w]) <= 0 + 1
      BY <3>1
    <3> QED
      BY <3>2
  <2>4. \A w \in Workers : inbox'[w] \in Seq(Methods')
    BY <1>2, <1>6
  <2>5. \A r \in Replicas : threads'[r] \subseteq Methods' /\ "train" \notin threads'[r]
    <3>1. pc \in OnReplicas => Method(pc) # "train"
      BY MethodIs DEF OnReplicas
    <3> QED
      BY <1>1, <1>2, <1>5, <1>6, <3>1 DEF Outstanding
  <2>6. issued' => pc' \in Phases' /\ (pc' \in {"genOffload", "genReload"} => Colocated' \/ Offload')
                                   /\ (pc' \in {"merge", "unmerge"} => MergeAndSync')
    BY <1>2, <1>3, <1>4 DEF NotNeeded
  <2>7. failing' => Over' \/ pc' \in {"reload", "unmerge", "finalizeGen", "genSleep", "genReload"}
    BY <1>1, <1>3, <1>10 DEF Outstanding
  <2>8. failing' /\ pc' \in {"finalizeGen", "genSleep", "genReload"} => "generate" \in failedAt'
    BY <1>1, <1>3 DEF Outstanding
  <2> QED
    BY <2>2, <2>3, <2>4, <2>5, <2>6, <2>7, <2>8 DEF Outstanding
<1>12. Slept'
  <2>1. pc = "sleep" => sleeping = {}
    BY <1>4 DEF NotNeeded
  <2> QED
    BY <1>1, <1>2, <1>3, <2>1 DEF Slept
<1>13. Engines'
  <2> SUFFICES ASSUME ~Over, NEW r \in Replicas
               PROVE  IF Sleeps THEN Engine(r)' ELSE awake'[r] = Memory
    BY <1>2, <1>10 DEF Engines
  <2>1. CASE Sleeps
    <3>1. Engine(r) /\ Colocated
      BY <1>1, <2>1 DEF Engines, Sleeps
    <3>2. pc \in {"wakeWeights", "wakeKv", "sleep", "genSleep"} => ~DoneIn(r)'
      BY <1>5 DEF OnReplicas
    <3> QED
      BY <1>2, <1>3, <1>4, <2>1, <3>1, <3>2 DEF Engine
  <2>2. CASE ~Sleeps
    BY <1>1, <1>3, <2>2 DEF Engines
  <2> QED
    BY <2>1, <2>2
<1>14. \A w \in Workers :
         pc \in {"genReload", "genOffload", "merge", "unmerge", "update", "send", "train"} => ~DoneBy(w)'
  <2>1. pc \in {"genReload", "genOffload", "merge", "unmerge", "update", "send", "train"} => pc \in OnWorkers
    BY <1>5 DEF OnReplicas, OnWorkers
  <2> QED
    BY <1>5, <2>1
<1>15. Models'
  <2> SUFFICES ASSUME ~Over, NEW w \in Workers PROVE Model(w)'
    BY <1>10 DEF Models
  <2>1. Model(w)
    BY <1>1 DEF Models
  <2> QED
    BY <1>2, <1>3, <1>14, <2>1 DEF Model
<1>16. Merges'
  <2> SUFFICES ASSUME ~Over, NEW w \in Workers PROVE Merging(w)'
    BY <1>10 DEF Merges
  <2>1. Merging(w)
    BY <1>1 DEF Merges
  <2> QED
    BY <1>2, <1>3, <1>14, <2>1 DEF Merging
<1>17. GivenUp'
  <2> SUFFICES ASSUME Over PROVE GivenUp'
    BY <1>10 DEF GivenUp
  <2>1. pc = "finalize" /\ Method(pc) = "finalize"
    BY <1>4, PhasesAre, MethodIs DEF Over
  <2>2. threads' = threads
    BY <1>5, <2>1 DEF OnReplicas
  <2>3. \A w \in Workers : Calls(inbox'[w]) \subseteq Calls(inbox[w]) \cup {"finalize"}
    BY <1>6, <2>1
  <2>4. \A w \in Workers : /\ "reload" \notin Calls(inbox[w]) => "reload" \notin Calls(inbox'[w])
                           /\ "merge" \notin Calls(inbox[w]) => "merge" \notin Calls(inbox'[w])
                           /\ "train" \notin Calls(inbox[w]) => "train" \notin Calls(inbox'[w])
                           /\ "update" \notin Calls(inbox[w]) => "update" \notin Calls(inbox'[w])
    BY <2>3
  <2>5. KvAsleep => KvAsleep'
    BY <1>3, <2>2 DEF KvAsleep
  <2>6. GpuFree => GpuFree'
    BY <1>3, <2>4 DEF GpuFree
  <2>7. NothingStreams => NothingStreams'
    BY <2>4 DEF NothingStreams, Calls
  <2>8. WeightsStay => WeightsStay'
    BY <1>3, <2>2 DEF WeightsStay
  <2> QED
    BY <1>1, <1>2, <1>3, <2>2, <2>4, <2>5, <2>6, <2>7, <2>8 DEF GivenUp
<1>18. pc = "train" => ~Trained /\ ~Trained' /\ "train" \notin raised'
                       /\ \A w \in Workers : inbox'[w] = <<"train">>
  <2> SUFFICES ASSUME pc = "train" PROVE ~Trained /\ ~Trained' /\ "train" \notin raised'
                                         /\ \A w \in Workers : inbox'[w] = <<"train">>
    OBVIOUS
  <2>1. ~Over /\ ~failing /\ Method(pc) = "train"
    BY <1>1, MethodIs DEF Outstanding, Over
  <2>2. \A w \in Workers : inbox[w] = << >>
    BY <1>9, <2>1
  <2>3. pc \in OnWorkers
    BY <1>5 DEF OnReplicas
  <2>4. \A w \in Workers : inbox'[w] = <<"train">>
    BY <1>5, <2>1, <2>2, <2>3
  <2>5. <<"train">> # << >>
    OBVIOUS
  <2> QED
    BY <1>4, <2>1, <2>4, <2>5, RayAssumption DEF Trained
<1>19. Rounds'
  BY <1>1, <1>3, <1>4, <1>10, <1>18 DEF Rounds
<1>20. Loaded'
  <2>1. Updated' => Updated
    BY <1>3, <1>14, RayAssumption DEF Updated
  <2>2. ~MergeAndSync => Method(pc) # "merge"
    BY <1>4 DEF NotNeeded, Method
  <2>3. ~MergeAndSync => \A w \in Workers : "merge" \notin Calls(inbox'[w])
    BY <1>1, <1>6, <2>2 DEF Loaded
  <2> QED
    BY <1>1, <1>2, <1>3, <2>1, <2>3 DEF Loaded
<1>21. Samples'
  BY <1>1, <1>2, <1>3, <1>10, <1>18 DEF Samples
<1> QED
  BY <1>7, <1>11, <1>12, <1>13, <1>15, <1>16, <1>17, <1>19, <1>20, <1>21 DEF IInv

(* Calling a method changes no adapter.                                    *)
LEMMA IssueAdapters ==
  ASSUME IInv, Adapters, Issue, setting' = setting PROVE Adapters'
<1>1. MergeAndSync' = MergeAndSync
  BY SettingSame
<1>2. /\ pc' = pc /\ version' = version /\ policy' = policy /\ baseSyncDone' = baseSyncDone
      /\ failing' = failing
  BY DEF Issue, workerVars, replicaVars
<1>3. pc \in {"update", "send"} => ~\A w \in Workers : DoneBy(w)'
  <2>1. pc \in {"update", "send"} => pc \in OnWorkers
    BY DEF OnWorkers, OnReplicas, Issue
  <2> QED
    BY <2>1, IssuedIs, RayAssumption DEF IInv
<1>4. Updated' => Updated
  BY <1>2, <1>3 DEF Updated
<1> QED
  BY <1>1, <1>2, <1>4 DEF Adapters

(* Returning from a training step keeps the invariant.                     *)
LEMMA ReturnTrainKeeps ==
  ASSUME IInv, ReturnTrain, setting' = setting
  PROVE  IInv' /\ (Adapters => Adapters')
<1>1. /\ TypeOK /\ Outstanding /\ Slept /\ Engines /\ Models /\ Merges /\ GivenUp /\ Rounds
      /\ Loaded /\ Samples
  BY DEF IInv
<1>2. /\ Phases' = Phases /\ Methods' = Methods /\ Colocated' = Colocated /\ Lora' = Lora
      /\ MergeAndSync' = MergeAndSync /\ Offload' = Offload /\ OffPolicy' = OffPolicy
      /\ SleepMode' = SleepMode /\ Sleeps' = Sleeps
  BY SettingSame
<1>3. /\ pc = "train" /\ failing' = failing /\ failedAt' = failedAt /\ issued' = FALSE
      /\ sleeping' = sleeping /\ baseSyncDone' = baseSyncDone /\ sampled' = sampled
      /\ version' = version /\ merged' = merged /\ onGpu' = onGpu
      /\ awake' = awake /\ policy' = policy /\ cache' = cache
      /\ inbox' = inbox /\ threads' = threads /\ raised' = raised
      /\ chunk' = chunk + 1
      /\ \/ pc' = "train" /\ chunk' < Spg /\ version < TrainIters
         \/ pc' = "top"
  BY DEF ReturnTrain, workerVars, replicaVars, rayVars, MoreOfRound
<1>4. /\ issued /\ "train" \notin raised /\ ~failing /\ ~Over
      /\ \A w \in Workers : "train" \notin Calls(inbox[w])
      /\ \A r \in Replicas : "train" \notin threads[r]
  BY <1>1, <1>3, MethodIs DEF ReturnTrain, Answered, Outstanding, Over
<1>5. Expected = {"train"} /\ ~Over' /\ pc' \in {"top", "train"}
  BY <1>3, <1>4, MethodIs DEF Expected, LeftBehind, Over
<1>6. \A w \in Workers : Calls(inbox[w]) = {} /\ inbox[w] = << >>
  <2> SUFFICES ASSUME NEW w \in Workers PROVE Calls(inbox[w]) = {} /\ inbox[w] = << >>
    OBVIOUS
  <2>1. Calls(inbox[w]) = {} /\ inbox[w] \in Seq(Methods)
    BY <1>1, <1>4, <1>5 DEF Outstanding
  <2> QED
    BY <2>1, CallsAre
<1>7. \A r \in Replicas : threads[r] = {}
  BY <1>1, <1>4, <1>5 DEF Outstanding
<1>8. Trained /\ ~Trained'
  BY <1>3, <1>4, <1>6 DEF Trained
<1>9. chunk < Spg /\ chunk' \in 0 .. Spg /\ chunk \in Int /\ version \in Int
  <2>1. chunk < Spg
    BY <1>1, <1>3, <1>4 DEF Rounds
  <2>2. chunk \in 0 .. Spg /\ version \in Int
    BY <1>1, RayAssumption DEF TypeOK, Versions
  <2> QED
    BY <1>3, <2>1, <2>2, RayAssumption
<1>10. TypeOK'
  BY <1>1, <1>2, <1>3, <1>9, PhasesAre DEF TypeOK, Outside
<1>11. Outstanding'
  <2>1. \A w \in Workers : inbox'[w] \in Seq(Methods') /\ Calls(inbox'[w]) = {} /\ Len(inbox'[w]) <= 1
    BY <1>1, <1>2, <1>3, <1>6 DEF Outstanding
  <2>2. \A r \in Replicas : threads'[r] = {}
    BY <1>3, <1>7
  <2> QED
    BY <1>3, <1>4, <2>1, <2>2 DEF Outstanding
<1>12. Slept'
  BY <1>1, <1>2, <1>3, <1>5 DEF Slept
<1>13. Engines'
  <2> SUFFICES ASSUME NEW r \in Replicas
               PROVE  IF Sleeps THEN Engine(r)' ELSE awake'[r] = Memory
    BY <1>2 DEF Engines
  <2>1. CASE Sleeps
    <3>1. sleeping = Memory => "kv_cache" \notin awake[r]
      BY <1>1, <1>3, <1>4, <2>1 DEF Engines, Engine, Sleeps
    <3> QED
      BY <1>2, <1>3, <1>5, <2>1, <3>1 DEF Engine
  <2>2. CASE ~Sleeps
    BY <1>1, <1>3, <1>4, <2>2 DEF Engines
  <2> QED
    BY <2>1, <2>2
<1>14. Models'
  BY <1>1, <1>2, <1>3, <1>4, <1>5 DEF Models, Model
<1>15. Merges'
  BY <1>1, <1>2, <1>3, <1>4, <1>5 DEF Merges, Merging
<1>16. GivenUp'
  BY <1>5 DEF GivenUp
<1>17. Rounds'
  BY <1>3, <1>5, <1>8 DEF Rounds
<1>18. ~Updated' /\ pc' \notin Synchronised
  BY <1>3 DEF Updated, Synchronised
<1>19. Loaded'
  BY <1>1, <1>2, <1>3, <1>18 DEF Loaded
<1>20. Samples'
  <2> SUFFICES ASSUME MergeAndSync, pc' = "train" PROVE \A v \in sampled : v = version - (chunk + 1) - 0
    BY <1>2, <1>3, <1>5, <1>8 DEF Samples
  <2>1. \A v \in sampled : v = version - chunk - 1
    BY <1>1, <1>3, <1>4, <1>8 DEF Samples
  <2> QED
    BY <1>9, <2>1
<1>21. Adapters => Adapters'
  BY <1>2, <1>3, <1>18 DEF Adapters
<1> QED
  BY <1>10, <1>11, <1>12, <1>13, <1>14, <1>15, <1>16, <1>17, <1>19, <1>20, <1>21 DEF IInv

(* Returning from the end of training keeps the invariant.                 *)
LEMMA ReturnFinalizeKeeps ==
  ASSUME IInv, ReturnFinalize, setting' = setting
  PROVE  IInv' /\ (Adapters => Adapters')
<1>1. /\ TypeOK /\ Outstanding /\ Slept /\ Engines /\ Models /\ Merges /\ GivenUp /\ Rounds
      /\ Loaded /\ Samples
  BY DEF IInv
<1>2. /\ Phases' = Phases /\ Methods' = Methods /\ Colocated' = Colocated /\ Lora' = Lora
      /\ MergeAndSync' = MergeAndSync /\ Offload' = Offload /\ OffPolicy' = OffPolicy
      /\ SleepMode' = SleepMode /\ Sleeps' = Sleeps
  BY SettingSame
<1>3. /\ pc = "finalize" /\ pc' = "done" /\ failing' = failing /\ failedAt' = failedAt
      /\ issued' = FALSE /\ chunk' = chunk
      /\ sleeping' = sleeping /\ baseSyncDone' = baseSyncDone /\ sampled' = sampled
      /\ version' = version /\ merged' = merged /\ onGpu' = onGpu
      /\ awake' = awake /\ policy' = policy /\ cache' = cache
      /\ inbox' = inbox /\ threads' = threads /\ raised' = raised
  BY DEF ReturnFinalize, workerVars, replicaVars, rayVars
<1>4. Over /\ Over'
  BY <1>3 DEF Over
<1>5. TypeOK'
  BY <1>1, <1>2, <1>3 DEF TypeOK, Outside
<1>6. Outstanding'
  BY <1>1, <1>2, <1>3, <1>4 DEF Outstanding
<1>7. Slept'
  BY <1>1, <1>2, <1>3 DEF Slept
<1>8. Engines' /\ Models' /\ Merges'
  BY <1>4 DEF Engines, Models, Merges
<1>9. GivenUp'
  BY <1>1, <1>2, <1>3, <1>4 DEF GivenUp, KvAsleep, GpuFree, NothingStreams, WeightsStay, Calls
<1>10. Rounds' /\ Samples'
  BY <1>3, <1>4 DEF Rounds, Samples
<1>11. ~Updated' /\ pc' \notin Synchronised
  BY <1>3 DEF Updated, Synchronised
<1>12. Loaded'
  BY <1>1, <1>2, <1>3, <1>11 DEF Loaded
<1>13. Adapters => Adapters'
  BY <1>2, <1>3, <1>11 DEF Adapters
<1> QED
  BY <1>5, <1>6, <1>7, <1>8, <1>9, <1>10, <1>12, <1>13 DEF IInv

(* Where ray.get raises: a finally goes on, or the driver gives up.        *)
LEMMA RaiseIs ==
  ASSUME IInv, Raise, setting' = setting
  PROVE  /\ failing' = TRUE /\ issued' = FALSE /\ ~Updated'
         /\ \/ pc = "finalize" /\ pc' = "done" /\ Over
            \/ pc = "update" /\ pc' = "reload" /\ Colocated /\ ~failing /\ ~Over
            \/ pc = "generate" /\ pc' = "finalizeGen" /\ ~failing /\ ~Over
            \/ pc \notin {"update", "generate"} /\ pc' = "finalize" /\ ~Over
         /\ issued /\ pc \in Phases /\ pc # "top" /\ Method(pc) \in raised
<1>1. TypeOK /\ Outstanding
  BY DEF IInv
<1>2. /\ issued /\ Method(pc) \in raised /\ failing' = TRUE /\ issued' = FALSE
      /\ pc' = IF pc = "finalize" THEN "done" ELSE Handler(pc)
  BY DEF Raise
<1>3. pc \in Phases /\ pc # "top" /\ (Over <=> pc = "finalize")
  BY <1>1, <1>2, PhasesAre DEF Outstanding, Over
<1>4. pc = "update" => Colocated
  BY <1>3, PhasesAre DEF SeparateRound
<1>5. pc \in {"update", "generate"} => ~failing
  BY <1>1, <1>3 DEF Outstanding
<1> QED
  BY <1>2, <1>3, <1>4, <1>5 DEF Handler, Updated

(* An exception out of ray.get keeps the invariant.                        *)
LEMMA RaiseKeeps ==
  ASSUME IInv, Raise, setting' = setting
  PROVE  IInv' /\ (Adapters => Adapters')
<1>1. /\ TypeOK /\ Outstanding /\ Slept /\ Engines /\ Models /\ Merges /\ GivenUp /\ Rounds
      /\ Loaded /\ Samples
  BY DEF IInv
<1>2. /\ Phases' = Phases /\ Methods' = Methods /\ Colocated' = Colocated /\ Lora' = Lora
      /\ MergeAndSync' = MergeAndSync /\ Offload' = Offload /\ OffPolicy' = OffPolicy
      /\ SleepMode' = SleepMode /\ Sleeps' = Sleeps
  BY SettingSame
<1>3. /\ failedAt' = failedAt \cup {pc} /\ chunk' = chunk
      /\ sleeping' = sleeping /\ baseSyncDone' = baseSyncDone /\ sampled' = sampled
      /\ version' = version /\ merged' = merged /\ onGpu' = onGpu
      /\ awake' = awake /\ policy' = policy /\ cache' = cache
      /\ inbox' = inbox /\ threads' = threads /\ raised' = raised
  BY DEF Raise, workerVars, replicaVars, rayVars
<1>4. /\ failing' = TRUE /\ issued' = FALSE /\ ~Updated'
      /\ issued /\ pc \in Phases /\ pc # "top" /\ Method(pc) \in raised
  BY RaiseIs
<1>5. \/ pc = "finalize" /\ pc' = "done" /\ Over
      \/ pc = "update" /\ pc' = "reload" /\ Colocated /\ ~failing /\ ~Over
      \/ pc = "generate" /\ pc' = "finalizeGen" /\ ~failing /\ ~Over
      \/ pc \notin {"update", "generate"} /\ pc' = "finalize" /\ ~Over
  BY RaiseIs
<1>6. TypeOK'
  <2>1. pc' \in Phases \cup Outside
    <3>1. Colocated => "reload" \in Phases /\ "finalizeGen" \in Phases
      BY PhasesAre DEF ColocatedRound
    <3>2. ~Colocated => "finalizeGen" \in Phases
      BY PhasesAre DEF SeparateRound
    <3> QED
      BY <1>5, <3>1, <3>2 DEF Outside
  <2>2. failedAt' \subseteq Phases
    BY <1>1, <1>3, <1>4 DEF TypeOK
  <2> QED
    BY <1>1, <1>2, <1>3, <1>4, <2>1, <2>2 DEF TypeOK
<1>7. ~Over => /\ \A w \in Workers : Calls(inbox[w]) \subseteq LeftBehind \cup {Method(pc)}
               /\ \A r \in Replicas : threads[r] \subseteq LeftBehind \cup {Method(pc)}
  BY <1>1, <1>4 DEF Outstanding, Expected
<1>8. ~Over /\ ~Over' => LeftBehind' = {pc} /\ LeftBehind = {} /\ Method(pc) = pc
  BY <1>4, <1>5, MethodIs DEF LeftBehind, Over
<1>9. Outstanding'
  <2>1. ~Over' => Expected' = {pc} /\ ~Over
    BY <1>4, <1>5, <1>8 DEF Expected, Over
  <2>2. ~Over' => /\ \A w \in Workers : Calls(inbox'[w]) \subseteq Expected'
                  /\ \A r \in Replicas : threads'[r] \subseteq Expected'
    BY <1>3, <1>7, <1>8, <2>1
  <2>3. /\ \A w \in Workers : inbox'[w] \in Seq(Methods')
        /\ \A r \in Replicas : threads'[r] \subseteq Methods' /\ "train" \notin threads'[r]
    BY <1>1, <1>2, <1>3 DEF Outstanding
  <2>4. Over' \/ pc' = "reload" \/ (pc' = "finalizeGen" /\ "generate" \in failedAt')
    BY <1>3, <1>5 DEF Over
  <2>5. ~(Over' /\ pc' \in {"finalizeGen", "genSleep", "genReload"})
    BY DEF Over
  <2> QED
    BY <1>4, <2>2, <2>3, <2>4, <2>5 DEF Outstanding
<1>10. Slept'
  <2>1. CASE Colocated
    BY <1>1, <1>2, <1>3, <1>4, <1>5, <2>1 DEF Slept
  <2>2. CASE ~Colocated
    BY <1>1, <1>2, <1>3, <1>5, <2>2 DEF Slept
  <2> QED
    BY <2>1, <2>2
<1>11. Engines'
  <2> SUFFICES ASSUME ~Over', NEW r \in Replicas
               PROVE  IF Sleeps THEN Engine(r)' ELSE awake'[r] = Memory
    BY <1>2 DEF Engines
  <2>1. ~Over
    BY <1>5 DEF Over
  <2>2. CASE Sleeps
    <3>1. Engine(r)
      BY <1>1, <2>1, <2>2 DEF Engines
    <3> QED
      BY <1>2, <1>3, <1>5, <2>2, <3>1 DEF Engine, Over
  <2>3. CASE ~Sleeps
    BY <1>1, <1>3, <2>1, <2>3 DEF Engines
  <2> QED
    BY <2>2, <2>3
<1>12. Models'
  <2> SUFFICES ASSUME ~Over', NEW w \in Workers PROVE Model(w)'
    BY DEF Models
  <2>1. Model(w)
    BY <1>1, <1>5 DEF Models, Over
  <2> QED
    BY <1>2, <1>3, <1>5, <2>1 DEF Model, Over
<1>13. Merges'
  <2> SUFFICES ASSUME ~Over', NEW w \in Workers PROVE Merging(w)'
    BY DEF Merges
  <2>1. Merging(w)
    BY <1>1, <1>5 DEF Merges, Over
  <2> QED
    BY <1>2, <1>3, <1>5, <2>1 DEF Merging, Over
<1>14. GivenUp'
  <2>1. CASE Over
    <3>1. failedAt \subseteq failedAt'
      BY <1>3
    <3> QED
      BY <1>1, <1>2, <1>3, <2>1, <3>1 DEF GivenUp, KvAsleep, GpuFree, NothingStreams, WeightsStay, Calls
  <2>2. CASE ~Over
    <3> SUFFICES ASSUME pc \notin {"update", "generate"}, pc' = "finalize" PROVE GivenUp'
      BY <1>5, <2>2 DEF GivenUp, Over
    <3>0. LeftBehind \subseteq {"update", "generate"} /\ Method(pc) \notin {"update", "generate"}
      BY DEF LeftBehind, Method
    <3>1. ASSUME failedAt' \cap LeavesMerged = {}
          PROVE  \A w \in Workers : ~merged'[w] /\ "merge" \notin Calls(inbox'[w])
      <4>1. pc \notin {"merge", "offload", "update", "reload", "send", "unmerge"}
        BY <1>3, <3>1 DEF LeavesMerged
      <4>2. \A w \in Workers : ~merged[w]
        BY <1>1, <2>2, <4>1 DEF Merges, Merging
      <4>3. Method(pc) # "merge"
        BY <4>1 DEF Method
      <4> QED
        BY <1>3, <1>7, <2>2, <3>0, <4>2, <4>3
    <3>4. NothingStreams' \/ WeightsStay'
      <4>1. CASE "update" \in LeftBehind
        <5> SUFFICES ASSUME NEW r \in Replicas
                     PROVE  "weights" \in awake'[r] /\ "sleep" \notin threads'[r]
          BY DEF WeightsStay
        <5>1. pc \in {"reload", "unmerge"}
          BY <4>1 DEF LeftBehind
        <5>2. Engine(r) \/ awake[r] = Memory
          BY <1>1, <2>2 DEF Engines
        <5>3. "weights" \in awake[r]
          BY <5>1, <5>2 DEF Engine, Memory
        <5>4. Method(pc) # "sleep"
          BY <5>1 DEF Method
        <5> QED
          BY <1>3, <1>7, <2>2, <3>0, <5>3, <5>4
      <4>2. CASE "update" \notin LeftBehind
        <5>1. \A w \in Workers : "update" \notin Calls(inbox'[w])
          BY <1>3, <1>7, <2>2, <3>0, <4>2
        <5> QED
          BY <5>1 DEF NothingStreams, Calls
      <4> QED
        BY <4>1, <4>2
    <3>5. "generate" \notin failedAt' => \A r \in Replicas : "generate" \notin threads'[r]
      <4>1. "generate" \in LeftBehind => "generate" \in failedAt
        <5>1. "generate" \in LeftBehind => failing /\ pc \notin {"reload", "unmerge"}
          BY DEF LeftBehind
        <5> QED
          BY <1>1, <2>2, <5>1 DEF Outstanding
      <4> QED
        BY <1>3, <1>7, <2>2, <3>0, <4>1
    <3>2. \E w \in Workers : "train" \notin Calls(inbox'[w])
      <4>1. CASE pc = "train"
        <5>1. PICK w \in Workers : inbox[w] = << >>
          BY <1>1, <1>4, <4>1, MethodIs, RayAssumption DEF Rounds, Trained
        <5>2. Calls(inbox[w]) = {}
          BY <5>1 DEF Calls
        <5> QED
          BY <1>3, <5>2
      <4>2. CASE pc # "train"
        <5>1. "train" \notin LeftBehind \cup {Method(pc)}
          BY <4>2 DEF LeftBehind, Method
        <5> QED
          BY <1>3, <1>7, <2>2, <5>1, RayAssumption
      <4> QED
        BY <4>1, <4>2
    <3>3. ASSUME Sleeps, baseSyncDone PROVE KvAsleep' \/ GpuFree'
      <4>0. Colocated
        BY <3>3 DEF Sleeps
      <4>1. pc \in ColocatedRound
        BY <1>4, <2>2, <4>0, PhasesAre DEF Over
      <4>2. pc # "sleep"
        BY <1>1, <1>4, <3>3, <4>0 DEF Slept, Memory
      <4>3. LeftBehind \subseteq {"update", "generate"}
        BY <3>0
      <4>4. CASE pc \in {"wakeKv", "finalizeGen", "genSleep"}
        <5> SUFFICES ASSUME NEW w \in Workers PROVE ~onGpu'[w] /\ "reload" \notin Calls(inbox'[w])
          BY DEF GpuFree
        <5>1. ~onGpu[w]
          BY <1>1, <2>2, <4>0, <4>4 DEF Models, Model
        <5>2. Method(pc) # "reload"
          BY <4>4 DEF Method
        <5> QED
          BY <1>3, <1>7, <2>2, <4>3, <5>1, <5>2
      <4>5. CASE pc \notin {"wakeKv", "finalizeGen", "genSleep"}
        <5> SUFFICES ASSUME NEW r \in Replicas
                     PROVE  "kv_cache" \notin awake'[r] /\ "wakeKv" \notin threads'[r]
          BY DEF KvAsleep
        <5>1. Engine(r)
          BY <1>1, <2>2, <3>3 DEF Engines
        <5>2. pc = "train" => sleeping = Memory
          BY <1>1, <3>3, <4>0 DEF Slept
        <5>3. "kv_cache" \notin awake[r]
          BY <4>0, <4>1, <4>2, <4>5, <5>1, <5>2 DEF Engine, ColocatedRound
        <5>4. Method(pc) # "wakeKv"
          BY <4>5 DEF Method
        <5> QED
          BY <1>3, <1>7, <2>2, <4>3, <5>3, <5>4
      <4> QED
        BY <4>4, <4>5
    <3> QED
      BY <1>2, <1>3, <3>1, <3>2, <3>3, <3>4, <3>5 DEF GivenUp, Calls
  <2> QED
    BY <2>1, <2>2
<1>15. Rounds'
  <2>1. pc' # "train" /\ ~Trained'
    BY <1>4, <1>5 DEF Trained
  <2>2. ~Over' => pc \notin {"top", "train"} /\ ~Over
    BY <1>5 DEF Over
  <2> QED
    BY <1>1, <1>3, <2>1, <2>2 DEF Rounds
<1>16. Loaded'
  <2>1. pc' \in Synchronised => baseSyncDone'
    BY <1>1, <1>3, <1>5 DEF Loaded, Synchronised
  <2> QED
    BY <1>1, <1>2, <1>3, <1>4, <2>1 DEF Loaded
<1>17. Samples'
  BY <1>4 DEF Samples
<1>18. Adapters => Adapters'
  <2>1. pc' # "train"
    BY <1>5
  <2> QED
    BY <1>2, <1>3, <1>4, <2>1 DEF Adapters
<1> QED
  BY <1>6, <1>9, <1>10, <1>11, <1>12, <1>13, <1>14, <1>15, <1>16, <1>17, <1>18 DEF IInv

(* Every step of the driver keeps the invariant.                           *)
LEMMA DriverKeeps ==
  ASSUME IInv, Driver
  PROVE  IInv' /\ (FreshAdapters /\ Adapters => Adapters')
<1>1. /\ setting' = setting
      /\ Loop \/ Skip \/ Issue \/ Return \/ ReturnTrain \/ ReturnFinalize \/ Raise
  BY DEF Driver
<1>2. CASE Loop
  BY <1>1, <1>2, LoopKeeps, LoopAdapters
<1>3. CASE Skip \/ Return
  BY <1>1, <1>3, AdvanceIs, AdvanceKeeps, AdvanceAdapters DEF IInv
<1>4. CASE Issue
  BY <1>1, <1>4, IssueKeeps, IssueAdapters
<1>5. CASE ReturnTrain
  BY <1>1, <1>5, ReturnTrainKeeps
<1>6. CASE ReturnFinalize
  BY <1>1, <1>6, ReturnFinalizeKeeps
<1>7. CASE Raise
  BY <1>1, <1>7, RaiseKeeps
<1> QED
  BY <1>1, <1>2, <1>3, <1>4, <1>5, <1>6, <1>7
-----------------------------------------------------------------------------
(* The steps of the actors: some of them take the same call, and it has    *)
(* its effect or raises.                                                   *)

Takes(w, m) == inbox[w] # << >> /\ Head(inbox[w]) = m /\ inbox'[w] = Tail(inbox[w])
Runs(r, m)  == m \in threads[r] /\ threads'[r] = threads[r] \ {m}

WorkerDoes(w, m) ==
  /\ merged'[w] = IF m = "merge" THEN Lora ELSE IF m = "unmerge" THEN FALSE ELSE merged[w]
  /\ onGpu'[w] = IF m = "offload" THEN FALSE ELSE IF m = "reload" THEN TRUE ELSE onGpu[w]
ReplicaDoes(r, m) ==
  awake'[r] = IF ~SleepMode THEN awake[r] ELSE IF m = "sleep" THEN {}
              ELSE IF m = "wakeWeights" THEN awake[r] \cup {"weights"}
              ELSE IF m = "wakeKv" THEN awake[r] \cup {"kv_cache"} ELSE awake[r]

WorkerStep(w, m) ==
  \/ inbox'[w] = inbox[w] /\ merged'[w] = merged[w] /\ onGpu'[w] = onGpu[w]
  \/ Takes(w, m) /\ WorkerDoes(w, m)
  \/ Takes(w, m) /\ m \in raised' /\ merged'[w] = merged[w] /\ onGpu'[w] = onGpu[w]
ReplicaStep(r, m) ==
  \/ threads'[r] = threads[r] /\ awake'[r] = awake[r]
  \/ Runs(r, m) /\ ReplicaDoes(r, m)
  \/ Runs(r, m) /\ m \in raised' /\ awake'[r] = awake[r]

Taken(m) == (\E w \in Workers : Takes(w, m)) \/ (\E r \in Replicas : Runs(r, m))

Streamed(m) ==
  \/ /\ policy' = policy
     /\ m \in {"update", "send"} /\ (\E w \in Workers : Takes(w, m)) => m \in raised'
  \/ /\ m \in {"update", "send"} /\ (\A w \in Workers : Takes(w, m))
     /\ policy' = [r \in Replicas |-> Exported(policy[r])]
Stepped(m) ==
  \/ /\ version' = version
     /\ m = "train" /\ (\E w \in Workers : Takes(w, m)) => m \in raised'
  \/ /\ m = "train" /\ (\A w \in Workers : Takes(w, m)) /\ raised' = raised
     /\ version' = version + 1
Generated(m) ==
  \/ sampled' = sampled
  \/ m = "generate" /\ \E r \in Replicas : Runs(r, m) /\ sampled' = sampled \cup {policy[r].base}

Shaped ==
  /\ DOMAIN inbox' = Workers /\ inbox' = [w \in DOMAIN inbox' |-> inbox'[w]]
  /\ DOMAIN merged' = Workers /\ merged' = [w \in DOMAIN merged' |-> merged'[w]]
  /\ DOMAIN onGpu' = Workers /\ onGpu' = [w \in DOMAIN onGpu' |-> onGpu'[w]]
  /\ DOMAIN threads' = Replicas /\ threads' = [r \in DOMAIN threads' |-> threads'[r]]
  /\ DOMAIN awake' = Replicas /\ awake' = [r \in DOMAIN awake' |-> awake'[r]]
  /\ DOMAIN cache' = Replicas /\ cache' = [r \in DOMAIN cache' |-> cache'[r]]

ActorStep(m) ==
  /\ UNCHANGED <<setting, driverVars>>
  /\ \A w \in Workers : WorkerStep(w, m)
  /\ \A r \in Replicas : ReplicaStep(r, m)
  /\ raised' = raised \/ (raised' = raised \cup {m} /\ Taken(m))
  /\ Streamed(m) /\ Stepped(m) /\ Generated(m)
  /\ \A r \in Replicas : cache'[r] \subseteq cache[r] \cup {policy[r].base}
  /\ Shaped

(* What workers that take a call do to their inboxes.                      *)
LEMMA OnWorkerIs ==
  ASSUME TypeOK, NEW W, W \subseteq Workers, NEW m, TakenBy(W, m)
  PROVE  /\ \A w \in W : Takes(w, m)
         /\ \A w \in Workers \ W : inbox'[w] = inbox[w]
         /\ DOMAIN inbox' = Workers /\ inbox' = [w \in DOMAIN inbox' |-> inbox'[w]]
BY DEF TakenBy, Takes

(* What replicas that run a call do to their threads.                      *)
LEMMA OnReplicaIs ==
  ASSUME TypeOK, NEW R, R \subseteq Replicas, NEW m, TakenIn(R, m)
  PROVE  /\ \A r \in R : Runs(r, m)
         /\ \A r \in Replicas \ R : threads'[r] = threads[r]
         /\ DOMAIN threads' = Replicas /\ threads' = [r \in DOMAIN threads' |-> threads'[r]]
BY DEF TakenIn, Runs

(* Inboxes, models and engines are functions of their actors.              *)
LEMMA ShapesNow ==
  ASSUME TypeOK
  PROVE  /\ DOMAIN inbox = Workers /\ inbox = [w \in DOMAIN inbox |-> inbox[w]]
         /\ DOMAIN merged = Workers /\ merged = [w \in DOMAIN merged |-> merged[w]]
         /\ DOMAIN onGpu = Workers /\ onGpu = [w \in DOMAIN onGpu |-> onGpu[w]]
         /\ DOMAIN threads = Replicas /\ threads = [r \in DOMAIN threads |-> threads[r]]
         /\ DOMAIN awake = Replicas /\ awake = [r \in DOMAIN awake |-> awake[r]]
         /\ DOMAIN cache = Replicas /\ cache = [r \in DOMAIN cache |-> cache[r]]
BY DEF TypeOK

(* A worker takes a call, or several workers take one together.            *)
LEMMA WorkersStep ==
  ASSUME TypeOK, NEW W, W \subseteq Workers, NEW m, TakenBy(W, m), m \notin {"train", "update", "send"},
         \A w \in W : WorkerDoes(w, m),
         \A w \in Workers \ W : merged'[w] = merged[w] /\ onGpu'[w] = onGpu[w],
         setting' = setting, UNCHANGED driverVars, threads' = threads, raised' = raised,
         version' = version, policy' = policy, awake' = awake, sampled' = sampled,
         \A r \in Replicas : cache'[r] \subseteq cache[r] \cup {policy[r].base},
         DOMAIN cache' = Replicas, cache' = [r \in DOMAIN cache' |-> cache'[r]],
         DOMAIN merged' = Workers, merged' = [w \in DOMAIN merged' |-> merged'[w]],
         DOMAIN onGpu' = Workers, onGpu' = [w \in DOMAIN onGpu' |-> onGpu'[w]]
  PROVE  ActorStep(m)
<1>1. /\ \A w \in W : Takes(w, m)
      /\ \A w \in Workers \ W : inbox'[w] = inbox[w]
      /\ DOMAIN inbox' = Workers /\ inbox' = [w \in DOMAIN inbox' |-> inbox'[w]]
  BY OnWorkerIs
<1>2. \A w \in Workers : WorkerStep(w, m)
  BY <1>1 DEF WorkerStep
<1>3. \A r \in Replicas : ReplicaStep(r, m)
  BY DEF ReplicaStep
<1>4. Streamed(m) /\ Stepped(m) /\ Generated(m)
  BY DEF Streamed, Stepped, Generated
<1>5. Shaped
  BY <1>1, ShapesNow DEF Shaped
<1> QED
  BY <1>2, <1>3, <1>4, <1>5 DEF ActorStep

(* Replicas run a call.                                                    *)
LEMMA ReplicaStepIs ==
  ASSUME TypeOK, NEW R, R \subseteq Replicas, NEW m, TakenIn(R, m),
         \A r \in R : ReplicaDoes(r, m),
         \A r \in Replicas \ R : awake'[r] = awake[r],
         setting' = setting, UNCHANGED <<driverVars, workerVars, inbox, raised>>,
         policy' = policy, Generated(m),
         \A r \in Replicas : cache'[r] \subseteq cache[r] \cup {policy[r].base},
         DOMAIN cache' = Replicas, cache' = [r \in DOMAIN cache' |-> cache'[r]],
         DOMAIN awake' = Replicas, awake' = [r \in DOMAIN awake' |-> awake'[r]],
         m \notin {"train", "update", "send"}
  PROVE  ActorStep(m)
<1>0. inbox' = inbox /\ raised' = raised /\ version' = version /\ merged' = merged /\ onGpu' = onGpu
  BY DEF workerVars
<1>1. /\ \A r \in R : Runs(r, m)
      /\ \A r \in Replicas \ R : threads'[r] = threads[r]
      /\ DOMAIN threads' = Replicas /\ threads' = [r \in DOMAIN threads' |-> threads'[r]]
  BY OnReplicaIs
<1>2. \A w \in Workers : WorkerStep(w, m)
  BY <1>0 DEF WorkerStep
<1>3. \A r \in Replicas : ReplicaStep(r, m)
  BY <1>1 DEF ReplicaStep
<1>4. Streamed(m) /\ Stepped(m)
  BY <1>0 DEF Streamed, Stepped
<1>5. Shaped
  BY <1>0, <1>1, ShapesNow DEF Shaped
<1> QED
  BY <1>0, <1>2, <1>3, <1>4, <1>5 DEF ActorStep

(* A collective of all workers with an effect on what they share.          *)
LEMMA CollectiveStep ==
  ASSUME TypeOK, NEW m, TakenBy(Workers, m), m \in {"train", "update", "send", "logps", "join"},
         setting' = setting, UNCHANGED driverVars, raised' = raised,
         \A w \in Workers : merged'[w] = merged[w] /\ onGpu'[w] = onGpu[w],
         \A r \in Replicas : ReplicaStep(r, m), awake' = awake, sampled' = sampled,
         DOMAIN threads' = Replicas, threads' = [r \in DOMAIN threads' |-> threads'[r]],
         Streamed(m), Stepped(m),
         \A r \in Replicas : cache'[r] \subseteq cache[r] \cup {policy[r].base},
         DOMAIN cache' = Replicas, cache' = [r \in DOMAIN cache' |-> cache'[r]],
         merged' = merged, onGpu' = onGpu
  PROVE  ActorStep(m)
<1>1. /\ \A w \in Workers : Takes(w, m)
      /\ DOMAIN inbox' = Workers /\ inbox' = [w \in DOMAIN inbox' |-> inbox'[w]]
  BY OnWorkerIs
<1>2. \A w \in Workers : WorkerStep(w, m)
  BY <1>1 DEF WorkerStep, WorkerDoes
<1>3. Generated(m)
  BY DEF Generated
<1>4. Shaped
  BY <1>1, ShapesNow DEF Shaped
<1> QED
  BY <1>2, <1>3, <1>4 DEF ActorStep

(* Every action of the actors is such a step.                              *)
LEMMA ActorsAre ==
  ASSUME TypeOK, Actors PROVE \E m : ActorStep(m)
<1>0. setting' = setting
  BY DEF Actors
<1>1. CASE UpdateWeights
  <2>1. /\ TakenBy(Workers, "update") /\ policy' = [r \in Replicas |-> Exported(policy[r])]
        /\ cache' = [r \in Replicas |-> {}] /\ UNCHANGED driverVars
        /\ version' = version /\ merged' = merged /\ onGpu' = onGpu /\ awake' = awake
        /\ sampled' = sampled /\ threads' = threads /\ raised' = raised
    BY <1>1 DEF UpdateWeights, workerVars
  <2>2. \A w \in Workers : Takes(w, "update")
    BY <2>1, OnWorkerIs
  <2>3. Streamed("update") /\ Stepped("update") /\ \A r \in Replicas : ReplicaStep(r, "update")
    BY <2>1, <2>2 DEF Streamed, Stepped, ReplicaStep
  <2> QED
    BY <1>0, <2>1, <2>3, ShapesNow, CollectiveStep
<1>2. CASE SendWeights
  <2>1. /\ TakenBy(Workers, "send") /\ TakenIn(Replicas, "send")
        /\ policy' = [r \in Replicas |-> Exported(policy[r])]
        /\ cache' = cache /\ UNCHANGED driverVars
        /\ version' = version /\ merged' = merged /\ onGpu' = onGpu /\ awake' = awake
        /\ sampled' = sampled /\ raised' = raised
    BY <1>2 DEF SendWeights, workerVars
  <2>2. \A w \in Workers : Takes(w, "send")
    BY <2>1, OnWorkerIs
  <2>3. /\ \A r \in Replicas : Runs(r, "send")
        /\ DOMAIN threads' = Replicas /\ threads' = [r \in DOMAIN threads' |-> threads'[r]]
    BY <2>1, OnReplicaIs
  <2>4. Streamed("send") /\ Stepped("send") /\ \A r \in Replicas : ReplicaStep(r, "send")
    BY <2>1, <2>2, <2>3 DEF Streamed, Stepped, ReplicaStep, ReplicaDoes
  <2> QED
    BY <1>0, <2>1, <2>3, <2>4, ShapesNow, CollectiveStep
<1>3. CASE Join
  <2>1. /\ TakenBy(Workers, "join") /\ TakenIn(Replicas, "join") /\ policy' = policy
        /\ cache' = cache /\ UNCHANGED driverVars
        /\ version' = version /\ merged' = merged /\ onGpu' = onGpu /\ awake' = awake
        /\ sampled' = sampled /\ raised' = raised
    BY <1>3 DEF Join, workerVars, replicaVars
  <2>2. /\ \A r \in Replicas : Runs(r, "join")
        /\ DOMAIN threads' = Replicas /\ threads' = [r \in DOMAIN threads' |-> threads'[r]]
    BY <2>1, OnReplicaIs
  <2>3. Streamed("join") /\ Stepped("join") /\ \A r \in Replicas : ReplicaStep(r, "join")
    BY <2>1, <2>2 DEF Streamed, Stepped, ReplicaStep, ReplicaDoes
  <2> QED
    BY <1>0, <2>1, <2>2, <2>3, ShapesNow, CollectiveStep
<1>4. CASE Admin
  <2>0. UNCHANGED <<workerVars, replicaVars>>
    BY <1>4 DEF Admin
  <2>1. ASSUME NEW w \in Workers, NEW m \in {"prepareTrain", "release", "finalize"} \cup Rejoin,
               OnWorker(w, m)
        PROVE  ActorStep(m)
    <3>1. m \in {"prepareTrain", "release", "finalize", "join"}
      BY DEF Rejoin
    <3>2. TakenBy({w}, m) /\ UNCHANGED <<driverVars, threads, raised>>
      BY <2>1 DEF OnWorker
    <3>3. WorkerDoes(w, m)
      BY <2>0, <3>1 DEF WorkerDoes, workerVars
    <3> QED
      BY <1>0, <2>0, <3>1, <3>2, <3>3, ShapesNow, WorkersStep DEF workerVars, replicaVars
  <2>2. ASSUME NEW r \in Replicas, NEW m \in {"prepareRollout", "release"} \cup Rejoin,
               OnReplica(r, m)
        PROVE  ActorStep(m)
    <3>1. m \in {"prepareRollout", "release", "join"}
      BY DEF Rejoin
    <3>2. TakenIn({r}, m) /\ UNCHANGED <<driverVars, workerVars, inbox, raised>>
      BY <2>2 DEF OnReplica
    <3>3. ReplicaDoes(r, m)
      BY <2>0, <3>1 DEF ReplicaDoes, replicaVars
    <3>4. Generated(m)
      BY <2>0 DEF Generated, replicaVars
    <3> QED
      BY <1>0, <2>0, <3>1, <3>2, <3>3, <3>4, ShapesNow, ReplicaStepIs DEF replicaVars
  <2> QED
    BY <1>4, <2>1, <2>2 DEF Admin
<1>5. CASE ComputeLogps
  <2>1. /\ TakenBy(Workers, "logps") /\ policy' = policy
        /\ cache' = cache /\ UNCHANGED driverVars
        /\ version' = version /\ merged' = merged /\ onGpu' = onGpu /\ awake' = awake
        /\ sampled' = sampled /\ threads' = threads /\ raised' = raised
    BY <1>5 DEF ComputeLogps, workerVars, replicaVars
  <2>2. Streamed("logps") /\ Stepped("logps") /\ \A r \in Replicas : ReplicaStep(r, "logps")
    BY <2>1 DEF Streamed, Stepped, ReplicaStep
  <2> QED
    BY <1>0, <2>1, <2>2, ShapesNow, CollectiveStep
<1>6. CASE TrainStep
  <2>1. /\ TakenBy(Workers, "train") /\ policy' = policy
        /\ cache' = cache /\ UNCHANGED driverVars
        /\ version' = version + 1 /\ merged' = merged /\ onGpu' = onGpu /\ awake' = awake
        /\ sampled' = sampled /\ threads' = threads /\ raised' = raised
    BY <1>6 DEF TrainStep, replicaVars
  <2>2. \A w \in Workers : Takes(w, "train")
    BY <2>1, OnWorkerIs
  <2>3. Streamed("train") /\ Stepped("train") /\ \A r \in Replicas : ReplicaStep(r, "train")
    BY <2>1, <2>2 DEF Streamed, Stepped, ReplicaStep
  <2> QED
    BY <1>0, <2>1, <2>3, ShapesNow, CollectiveStep
<1>7. ASSUME NEW w \in Workers, Merge(w) \/ Unmerge(w) \/ Move(w) \/ FinalizeGeneration(w)
      PROVE  \E m : ActorStep(m)
  <2>1. ASSUME NEW m \in {"merge", "unmerge", "offload", "reload", "finalizeGen"},
               OnWorker(w, m), WorkerDoes(w, m),
               \A x \in Workers \ {w} : merged'[x] = merged[x] /\ onGpu'[x] = onGpu[x],
               DOMAIN merged' = Workers, merged' = [x \in DOMAIN merged' |-> merged'[x]],
               DOMAIN onGpu' = Workers, onGpu' = [x \in DOMAIN onGpu' |-> onGpu'[x]],
               version' = version, policy' = policy, awake' = awake, sampled' = sampled,
               \A r \in Replicas : cache'[r] \subseteq cache[r] \cup {policy[r].base},
               DOMAIN cache' = Replicas, cache' = [r \in DOMAIN cache' |-> cache'[r]]
        PROVE  ActorStep(m)
    <3>1. TakenBy({w}, m) /\ UNCHANGED driverVars /\ threads' = threads /\ raised' = raised
      BY <2>1 DEF OnWorker
    <3>2. m \notin {"train", "update", "send"}
      BY <2>1
    <3> QED
      BY <1>0, <2>1, <3>1, <3>2, WorkersStep
  <2>2. CASE Merge(w)
    BY <2>1, <2>2, ShapesNow DEF Merge, WorkerDoes, replicaVars
  <2>3. CASE Unmerge(w)
    BY <2>1, <2>3, ShapesNow DEF Unmerge, WorkerDoes, replicaVars
  <2>4. CASE Move(w)
    <3>1. PICK m \in {"offload", "reload"} :
            /\ OnWorker(w, m) /\ onGpu' = [onGpu EXCEPT ![w] = (m = "reload")]
            /\ UNCHANGED <<version, merged, replicaVars>>
      BY <2>4 DEF Move
    <3>2. WorkerDoes(w, m)
      BY <3>1, ShapesNow DEF WorkerDoes
    <3> QED
      BY <2>1, <3>1, <3>2, ShapesNow DEF replicaVars
  <2>5. CASE FinalizeGeneration(w)
    BY <2>1, <2>5, ShapesNow DEF FinalizeGeneration, WorkerDoes, workerVars
  <2> QED
    BY <1>7, <2>2, <2>3, <2>4, <2>5
<1>8. ASSUME NEW r \in Replicas, Sleep(r) \/ WakeUp(r) \/ Generate(r)
      PROVE  \E m : ActorStep(m)
  <2>1. ASSUME NEW m \in {"sleep", "wakeWeights", "wakeKv", "generate"},
               OnReplica(r, m), ReplicaDoes(r, m), Generated(m),
               \A x \in Replicas \ {r} : awake'[x] = awake[x],
               DOMAIN awake' = Replicas, awake' = [x \in DOMAIN awake' |-> awake'[x]],
               policy' = policy,
               \A x \in Replicas : cache'[x] \subseteq cache[x] \cup {policy[x].base},
               DOMAIN cache' = Replicas, cache' = [x \in DOMAIN cache' |-> cache'[x]]
        PROVE  ActorStep(m)
    <3>1. TakenIn({r}, m) /\ UNCHANGED <<driverVars, workerVars, inbox, raised>>
      BY <2>1 DEF OnReplica
    <3>2. m \notin {"train", "update", "send"}
      BY <2>1
    <3> QED
      BY <1>0, <2>1, <3>1, <3>2, ReplicaStepIs
  <2>2. CASE Sleep(r)
    <3>1. ReplicaDoes(r, "sleep") /\ Generated("sleep")
      BY <2>2, ShapesNow DEF Sleep, ReplicaDoes, Generated
    <3> QED
      BY <2>1, <2>2, <3>1, ShapesNow DEF Sleep
  <2>3. CASE WakeUp(r)
    <3>1. PICK m \in {"wakeWeights", "wakeKv"} :
            /\ OnReplica(r, m)
            /\ awake' = [awake EXCEPT ![r] = awake[r] \cup Woken(m)]
            /\ policy' = policy /\ cache' = cache /\ sampled' = sampled
      BY <2>3 DEF WakeUp
    <3>2. /\ awake'[r] = awake[r] \cup Woken(m)
          /\ \A x \in Replicas \ {r} : awake'[x] = awake[x]
          /\ DOMAIN awake' = Replicas /\ awake' = [x \in DOMAIN awake' |-> awake'[x]]
      BY <3>1, ShapesNow
    <3>3. ReplicaDoes(r, m)
      <4>1. ~SleepMode => awake'[r] = awake[r]
        BY <3>2 DEF Woken
      <4>2. SleepMode /\ m = "wakeWeights" => awake'[r] = awake[r] \cup {"weights"}
        BY <3>2 DEF Woken, Tag
      <4>3. SleepMode /\ m = "wakeKv" => awake'[r] = awake[r] \cup {"kv_cache"}
        BY <3>2 DEF Woken, Tag
      <4> QED
        BY <4>1, <4>2, <4>3 DEF ReplicaDoes
    <3>4. Generated(m)
      BY <3>1 DEF Generated
    <3>5. ReplicaDoes(r, m) /\ Generated(m)
      BY <3>3, <3>4
    <3> QED
      BY <2>1, <3>1, <3>2, <3>5, ShapesNow
  <2>4. CASE Generate(r)
    <3>1. /\ OnReplica(r, "generate") /\ awake' = awake /\ policy' = policy
          /\ sampled' = sampled \cup {policy[r].base}
          /\ cache' = [cache EXCEPT ![r] = cache[r] \cup {policy[r].base}]
      BY <2>4 DEF Generate, Answers
    <3>2. Runs(r, "generate")
      BY <3>1, OnReplicaIs DEF OnReplica
    <3>3. ReplicaDoes(r, "generate") /\ Generated("generate")
      BY <3>1, <3>2 DEF ReplicaDoes, Generated
    <3> QED
      BY <2>1, <3>1, <3>3, ShapesNow
  <2> QED
    BY <1>8, <2>2, <2>3, <2>4
<1> QED
  BY <1>1, <1>2, <1>3, <1>4, <1>5, <1>6, <1>7, <1>8 DEF Actors

(* A call that raises is such a step.                                      *)
LEMMA CallRaisesIs ==
  ASSUME TypeOK, CallRaises PROVE \E m : ActorStep(m)
<1>1. /\ setting' = setting /\ UNCHANGED driverVars
      /\ version' = version /\ merged' = merged /\ onGpu' = onGpu /\ awake' = awake
      /\ policy' = policy /\ cache' = cache /\ sampled' = sampled
  BY DEF CallRaises, workerVars, replicaVars
<1>2. ASSUME NEW w \in Workers, TakenBy({w}, Head(inbox[w])),
             raised' = raised \cup {Head(inbox[w])}, threads' = threads
      PROVE  ActorStep(Head(inbox[w]))
  <2> DEFINE m == Head(inbox[w])
  <2>1. Takes(w, m) /\ \A x \in Workers \ {w} : inbox'[x] = inbox[x]
    BY <1>2, OnWorkerIs
  <2>2. DOMAIN inbox' = Workers /\ inbox' = [x \in DOMAIN inbox' |-> inbox'[x]]
    BY <1>2, OnWorkerIs
  <2>3. raised' = raised \cup {m} /\ threads' = threads
    BY <1>2
  <2> HIDE DEF m
  <2>4. \A x \in Workers : WorkerStep(x, m)
    BY <1>1, <2>1, <2>3 DEF WorkerStep
  <2>5. \A r \in Replicas : ReplicaStep(r, m)
    BY <1>1, <2>3 DEF ReplicaStep
  <2>6. Streamed(m) /\ Stepped(m) /\ Generated(m) /\ Taken(m)
    BY <1>1, <2>1, <2>3 DEF Streamed, Stepped, Generated, Taken
  <2>7. Shaped
    BY <1>1, <2>2, <2>3, ShapesNow DEF Shaped
  <2>8. ActorStep(m)
    BY <1>1, <2>3, <2>4, <2>5, <2>6, <2>7 DEF ActorStep
  <2> QED
    BY <2>8 DEF m
<1>3. ASSUME NEW r \in Replicas, NEW m \in threads[r], TakenIn({r}, m),
             raised' = raised \cup {m}, inbox' = inbox
      PROVE  ActorStep(m)
  <2>1. Runs(r, m) /\ \A x \in Replicas \ {r} : threads'[x] = threads[x]
    BY <1>3, OnReplicaIs
  <2>2. DOMAIN threads' = Replicas /\ threads' = [x \in DOMAIN threads' |-> threads'[x]]
    BY <1>3, OnReplicaIs
  <2>4. \A x \in Workers : WorkerStep(x, m)
    BY <1>1, <1>3 DEF WorkerStep
  <2>5. \A x \in Replicas : ReplicaStep(x, m)
    BY <1>1, <1>3, <2>1 DEF ReplicaStep
  <2>6. Streamed(m) /\ Stepped(m) /\ Generated(m) /\ Taken(m)
    BY <1>1, <1>3, <2>1 DEF Streamed, Stepped, Generated, Taken
  <2>7. Shaped
    BY <1>1, <1>3, <2>2, ShapesNow DEF Shaped
  <2> QED
    BY <1>1, <1>3, <2>4, <2>5, <2>6, <2>7 DEF ActorStep
<1> QED
  BY <1>2, <1>3 DEF CallRaises

(* What an actor takes was called, and it is taken once.                   *)
LEMMA TakesIs ==
  ASSUME Outstanding, NEW w \in Workers, NEW m, WorkerStep(w, m)
  PROVE  /\ inbox'[w] \in Seq(Methods) /\ Calls(inbox'[w]) \subseteq Calls(inbox[w])
         /\ Len(inbox'[w]) <= Len(inbox[w])
         /\ Takes(w, m) => /\ Calls(inbox[w]) = {m} \cup Calls(inbox'[w]) /\ m \in Methods
                           /\ inbox[w] # << >>
                           /\ ~Over /\ ~failing => inbox'[w] = << >> /\ Calls(inbox'[w]) = {}
<1>1. inbox[w] \in Seq(Methods) /\ (~Over /\ ~failing => Len(inbox[w]) <= 1)
  BY DEF Outstanding
<1>2. Len(inbox[w]) \in Nat
  BY <1>1, CallsAre
<1>3. CASE inbox'[w] = inbox[w] /\ ~Takes(w, m)
  BY <1>1, <1>2, <1>3
<1>4. CASE Takes(w, m)
  <2>1. /\ inbox[w] # << >> /\ Head(inbox[w]) = m /\ inbox'[w] = Tail(inbox[w])
    BY <1>4 DEF Takes
  <2>2. /\ Calls(inbox[w]) = {Head(inbox[w])} \cup Calls(Tail(inbox[w])) /\ Head(inbox[w]) \in Methods
        /\ Tail(inbox[w]) \in Seq(Methods) /\ Len(Tail(inbox[w])) = Len(inbox[w]) - 1
    BY <1>1, <2>1, CallsAre
  <2>3. /\ Calls(inbox[w]) = {m} \cup Calls(inbox'[w]) /\ m \in Methods
        /\ inbox'[w] \in Seq(Methods)
    BY <2>1, <2>2
  <2>4. Len(inbox'[w]) = Len(inbox[w]) - 1
    BY <2>1, <2>2
  <2>5. Len(inbox'[w]) <= Len(inbox[w])
    BY <1>2, <2>4
  <2>6. ASSUME ~Over, ~failing PROVE inbox'[w] = << >> /\ Calls(inbox'[w]) = {}
    <3>1. Len(inbox'[w]) \in Nat
      BY <2>3, CallsAre
    <3>2. Len(inbox'[w]) = 0
      <4>1. Len(inbox[w]) <= 1
        BY <1>1, <2>6
      <4>2. \A a, b \in Nat : b = a - 1 /\ a <= 1 => b = 0
        OBVIOUS
      <4> QED
        BY <1>2, <2>4, <3>1, <4>1, <4>2, Zenon
    <3>3. inbox'[w] = << >>
      BY <2>3, <3>2, EmptySeq
    <3>4. Calls(<< >>) = {}
      BY DEF Calls
    <3> QED
      BY <3>3, <3>4
  <2> QED
    BY <2>1, <2>3, <2>5, <2>6
<1> QED
  BY <1>3, <1>4 DEF WorkerStep

(* What is called while the driver has not given up.                       *)
LEMMA TakenIs ==
  ASSUME Outstanding, NEW m, \A w \in Workers : WorkerStep(w, m), Taken(m), ~Over
  PROVE  \/ issued /\ m = Method(pc) /\ pc \in Phases
         \/ failing /\ m = "update" /\ pc \in {"reload", "unmerge"}
         \/ failing /\ m = "generate" /\ pc \in {"finalizeGen", "genSleep", "genReload"}
<1>1. ASSUME NEW w \in Workers, Takes(w, m) PROVE m \in Expected
  <2>1. WorkerStep(w, m)
    OBVIOUS
  <2>2. Calls(inbox[w]) = {m} \cup Calls(inbox'[w])
    BY <1>1, <2>1, TakesIs
  <2>3. Calls(inbox[w]) \subseteq Expected
    BY DEF Outstanding
  <2> QED
    BY <2>2, <2>3
<1>2. ASSUME NEW r \in Replicas, Runs(r, m) PROVE m \in Expected
  BY <1>2 DEF Outstanding, Runs
<1>3. m \in Expected
  BY <1>1, <1>2 DEF Taken
<1> QED
  BY <1>3, ExpectedIs

(* A call that is done by now was done before, or has just had its effect. *)
LEMMA DoneNow ==
  ASSUME Outstanding, NEW m, ActorStep(m)
  PROVE  /\ \A w \in Workers :
              /\ DoneBy(w)' => \/ DoneBy(w)
                               \/ /\ issued /\ m = Method(pc) /\ m \notin raised'
                                  /\ Takes(w, m) /\ WorkerDoes(w, m)
              /\ DoneBy(w) /\ Takes(w, m) => m # Method(pc)
         /\ \A r \in Replicas :
              /\ DoneIn(r)' => \/ DoneIn(r)
                               \/ /\ issued /\ m = Method(pc) /\ m \notin raised'
                                  /\ Runs(r, m) /\ ReplicaDoes(r, m)
              /\ DoneIn(r) /\ Runs(r, m) => m # Method(pc)
<1>1. /\ pc' = pc /\ issued' = issued /\ raised \subseteq raised'
      /\ \A w \in Workers : WorkerStep(w, m)
      /\ \A r \in Replicas : ReplicaStep(r, m)
  BY DEF ActorStep, driverVars
<1>2. Method(pc)' = Method(pc)
  BY <1>1 DEF Method
<1>3. ASSUME NEW w \in Workers
      PROVE  /\ DoneBy(w)' => \/ DoneBy(w)
                              \/ /\ issued /\ m = Method(pc) /\ m \notin raised'
                                 /\ Takes(w, m) /\ WorkerDoes(w, m)
             /\ DoneBy(w) /\ Takes(w, m) => m # Method(pc)
  <2>1. Calls(inbox[w])' = Calls(inbox'[w])
    BY DEF Calls
  <2>2. DoneBy(w)' => issued /\ Method(pc) \notin raised' /\ Method(pc) \notin Calls(inbox'[w])
    BY <1>1, <1>2, <2>1 DEF DoneBy
  <2>3. Takes(w, m) => Calls(inbox[w]) = {m} \cup Calls(inbox'[w])
    BY <1>1, TakesIs
  <2>4. ~Takes(w, m) => inbox'[w] = inbox[w]
    BY <1>1 DEF WorkerStep
  <2>5. Takes(w, m) => WorkerDoes(w, m) \/ m \in raised' \/ inbox'[w] = inbox[w]
    BY <1>1 DEF WorkerStep
  <2> QED
    BY <1>1, <2>2, <2>3, <2>4, <2>5 DEF DoneBy
<1>4. ASSUME NEW r \in Replicas
      PROVE  /\ DoneIn(r)' => \/ DoneIn(r)
                              \/ /\ issued /\ m = Method(pc) /\ m \notin raised'
                                 /\ Runs(r, m) /\ ReplicaDoes(r, m)
             /\ DoneIn(r) /\ Runs(r, m) => m # Method(pc)
  <2>1. DoneIn(r)' => issued /\ Method(pc) \notin raised' /\ Method(pc) \notin threads'[r]
    BY <1>1, <1>2 DEF DoneIn
  <2>2. Runs(r, m) => m \in threads[r] /\ threads'[r] = threads[r] \ {m}
    BY DEF Runs
  <2>3. ~Runs(r, m) => threads'[r] = threads[r]
    BY <1>1 DEF ReplicaStep
  <2>4. Runs(r, m) => ReplicaDoes(r, m) \/ m \in raised'
    BY <1>1, <2>2 DEF ReplicaStep
  <2> QED
    BY <1>1, <2>1, <2>2, <2>3, <2>4 DEF DoneIn
<1> QED
  BY <1>3, <1>4

(* A training step is taken by all workers together, as the driver asked.  *)
LEMMA TrainsWhen ==
  ASSUME IInv, NEW m, ActorStep(m), version' # version
  PROVE  /\ ~Over /\ pc = "train" /\ issued /\ ~failing /\ version < TrainIters
         /\ "train" \notin raised /\ ~Trained /\ Trained' /\ version' = version + 1
         /\ m = "train" /\ policy' = policy /\ sampled' = sampled
<1>1. TypeOK /\ Outstanding /\ GivenUp /\ Rounds
  BY DEF IInv
<1>2. /\ issued' = issued
      /\ \A w \in Workers : WorkerStep(w, m)
      /\ Streamed(m) /\ Stepped(m) /\ Generated(m)
  BY DEF ActorStep, driverVars
<1>3. /\ m = "train" /\ (\A w \in Workers : Takes(w, m)) /\ raised' = raised
      /\ version' = version + 1
  BY <1>2 DEF Stepped
<1>4. policy' = policy /\ sampled' = sampled
  BY <1>2, <1>3 DEF Streamed, Generated
<1>5. \A w \in Workers : /\ Calls(inbox[w]) = {m} \cup Calls(inbox'[w])
                         /\ inbox[w] # << >>
                         /\ ~Over /\ ~failing => inbox'[w] = << >>
  BY <1>1, <1>2, <1>3, TakesIs
<1>6. \A w \in Workers : "train" \in Calls(inbox[w])
  BY <1>3, <1>5
<1>7. ~Over
  BY <1>1, <1>6 DEF GivenUp
<1>8. Taken(m)
  BY <1>3, RayAssumption DEF Taken
<1>9. issued /\ pc = "train"
  BY <1>1, <1>2, <1>3, <1>7, <1>8, TakenIs DEF Method
<1>10. ~failing
  BY <1>1, <1>7, <1>9 DEF Outstanding
<1>11. ~Trained /\ "train" \notin raised
  BY <1>1, <1>5, <1>9, RayAssumption DEF Rounds, Trained
<1>12. version < TrainIters
  BY <1>1, <1>7, <1>9, <1>11 DEF Rounds
<1>13. Trained'
  BY <1>2, <1>3, <1>5, <1>7, <1>9, <1>10, <1>11 DEF Trained
<1> QED
  BY <1>3, <1>4, <1>7, <1>9, <1>10, <1>11, <1>12, <1>13

(* Every step of the actors keeps the invariant.                           *)
LEMMA ActorKeeps ==
  ASSUME IInv, NEW m, ActorStep(m)
  PROVE  IInv' /\ (Adapters => Adapters')
<1>1. /\ TypeOK /\ Outstanding /\ Slept /\ Engines /\ Models /\ Merges /\ GivenUp /\ Rounds
      /\ Loaded /\ Samples
  BY DEF IInv
<1>2. /\ setting' = setting /\ pc' = pc /\ issued' = issued /\ failing' = failing
      /\ failedAt' = failedAt /\ sleeping' = sleeping /\ baseSyncDone' = baseSyncDone
      /\ chunk' = chunk
      /\ \A w \in Workers : WorkerStep(w, m)
      /\ \A r \in Replicas : ReplicaStep(r, m)
      /\ raised' = raised \/ (raised' = raised \cup {m} /\ Taken(m))
      /\ Streamed(m) /\ Stepped(m) /\ Generated(m) /\ Shaped
      /\ \A r \in Replicas : cache'[r] \subseteq cache[r] \cup {policy[r].base}
  BY DEF ActorStep, driverVars
<1>3. /\ Phases' = Phases /\ Methods' = Methods /\ Colocated' = Colocated /\ Lora' = Lora
      /\ MergeAndSync' = MergeAndSync /\ Offload' = Offload /\ OffPolicy' = OffPolicy
      /\ SleepMode' = SleepMode /\ Sleeps' = Sleeps
  BY <1>2, SettingSame
<1>4. (Over' <=> Over) /\ Method(pc)' = Method(pc) /\ LeftBehind' = LeftBehind /\ Expected' = Expected
  BY <1>2 DEF Over, Method, LeftBehind, Expected
<1>5. \A w \in Workers :
        /\ inbox'[w] \in Seq(Methods) /\ Calls(inbox'[w]) \subseteq Calls(inbox[w])
        /\ Len(inbox'[w]) <= Len(inbox[w])
        /\ Takes(w, m) => /\ Calls(inbox[w]) = {m} \cup Calls(inbox'[w]) /\ m \in Methods
                          /\ inbox[w] # << >>
                          /\ ~Over /\ ~failing => inbox'[w] = << >> /\ Calls(inbox'[w]) = {}
  BY <1>1, <1>2, TakesIs
<1>6. \A r \in Replicas : /\ threads'[r] \subseteq threads[r]
                          /\ Runs(r, m) => m \in threads[r] /\ m \in Methods /\ m # "train"
  BY <1>1, <1>2 DEF ReplicaStep, Runs, Outstanding
<1>7. ~Over /\ Taken(m) =>
        \/ issued /\ m = Method(pc) /\ pc \in Phases
        \/ failing /\ m = "update" /\ pc \in {"reload", "unmerge"}
        \/ failing /\ m = "generate" /\ pc \in {"finalizeGen", "genSleep", "genReload"}
  BY <1>1, <1>2, TakenIs
<1>8. \A w \in Workers :
        /\ DoneBy(w)' => \/ DoneBy(w)
                         \/ /\ issued /\ m = Method(pc) /\ m \notin raised'
                            /\ Takes(w, m) /\ WorkerDoes(w, m)
        /\ DoneBy(w) /\ Takes(w, m) => m # Method(pc)
  BY <1>1, DoneNow
<1>9. \A r \in Replicas :
        /\ DoneIn(r)' => \/ DoneIn(r)
                         \/ /\ issued /\ m = Method(pc) /\ m \notin raised'
                            /\ Runs(r, m) /\ ReplicaDoes(r, m)
        /\ DoneIn(r) /\ Runs(r, m) => m # Method(pc)
  BY <1>1, DoneNow
<1>10. Taken(m) => m \in Methods
  BY <1>5, <1>6 DEF Taken
<1>11. Outstanding'
  <2>1. \A w \in Workers : inbox'[w] \in Seq(Methods')
    BY <1>3, <1>5
  <2>2. ~Over' => /\ \A w \in Workers : Calls(inbox'[w]) \subseteq Expected'
                  /\ \A r \in Replicas : threads'[r] \subseteq Expected'
    <3>1. ~Over => /\ \A w \in Workers : Calls(inbox[w]) \subseteq Expected
                   /\ \A r \in Replicas : threads[r] \subseteq Expected
      BY <1>1 DEF Outstanding
    <3> QED
      BY <1>4, <1>5, <1>6, <3>1
  <2>3. (~Over' /\ ~failing') => \A w \in Workers : Len(inbox'[w]) <= 1
    <3> SUFFICES ASSUME ~Over, ~failing, NEW w \in Workers PROVE Len(inbox'[w]) <= 1
      BY <1>2, <1>4
    <3>1. Len(inbox[w]) <= 1 /\ Len(inbox'[w]) <= Len(inbox[w])
      BY <1>1, <1>5 DEF Outstanding
    <3>2. Len(inbox[w]) \in Nat /\ Len(inbox'[w]) \in Nat
      BY <1>1, <1>5, CallsAre DEF Outstanding
    <3>3. \A a, b \in Nat : a <= 1 /\ b <= a => b <= 1
      OBVIOUS
    <3> QED
      BY <3>1, <3>2, <3>3, Zenon
  <2>4. \A r \in Replicas : threads'[r] \subseteq Methods' /\ "train" \notin threads'[r]
    BY <1>1, <1>3, <1>6 DEF Outstanding
  <2>5. /\ issued' => pc' \in Phases' /\ (pc' \in {"genOffload", "genReload"} => Colocated' \/ Offload')
                                      /\ (pc' \in {"merge", "unmerge"} => MergeAndSync')
        /\ failing' /\ pc' \in {"finalizeGen", "genSleep", "genReload"} => "generate" \in failedAt'
        /\ failing' => Over' \/ pc' \in {"reload", "unmerge", "finalizeGen", "genSleep", "genReload"}
    BY <1>1, <1>2, <1>3, <1>4 DEF Outstanding
  <2> QED
    BY <2>1, <2>2, <2>3, <2>4, <2>5 DEF Outstanding
<1>12. Slept'
  BY <1>1, <1>2, <1>3 DEF Slept
<1>13. Engines'
  <2> SUFFICES ASSUME ~Over, NEW r \in Replicas
               PROVE  IF Sleeps THEN Engine(r)' ELSE awake'[r] = Memory
    BY <1>3, <1>4 DEF Engines
  <2>1. \/ awake'[r] = awake[r]
        \/ Runs(r, m) /\ ReplicaDoes(r, m)
    BY <1>2 DEF ReplicaStep
  <2>2. CASE Sleeps
    <3>0. Colocated /\ SleepMode
      BY <2>2 DEF Sleeps
    <3>1. Engine(r)
      BY <1>1, <2>2 DEF Engines
    <3>2. Runs(r, m) =>
            \/ issued /\ m = Method(pc) /\ pc \in Phases
            \/ m \in {"update", "generate"}
      BY <1>7 DEF Taken
    <3>3. CASE Runs(r, m) /\ ReplicaDoes(r, m) /\ m \in {"sleep", "wakeWeights", "wakeKv"}
      <4>1. /\ m = "sleep" => pc \in {"sleep", "genSleep"} /\ awake'[r] = {}
            /\ m = "wakeWeights" => pc = "wakeWeights" /\ awake'[r] = awake[r] \cup {"weights"}
            /\ m = "wakeKv" => pc = "wakeKv" /\ issued /\ awake'[r] = awake[r] \cup {"kv_cache"}
        BY <3>0, <3>2, <3>3 DEF ReplicaDoes, Method
      <4> QED
        BY <1>2, <1>3, <2>2, <3>0, <3>1, <3>3, <4>1 DEF Engine
    <3>4. CASE awake'[r] = awake[r] /\ (DoneIn(r)' => DoneIn(r))
      BY <1>2, <1>3, <2>2, <3>0, <3>1, <3>4 DEF Engine
    <3>5. CASE awake'[r] = awake[r] /\ pc \notin {"sleep", "genSleep", "wakeWeights", "wakeKv"}
      BY <1>2, <1>3, <2>2, <3>0, <3>1, <3>5 DEF Engine
    <3>6. Runs(r, m) /\ ReplicaDoes(r, m) /\ m \notin {"sleep", "wakeWeights", "wakeKv"} =>
            awake'[r] = awake[r]
      BY DEF ReplicaDoes
    <3>7. DoneIn(r)' /\ ~DoneIn(r) => Runs(r, m) /\ ReplicaDoes(r, m) /\ m = Method(pc)
      BY <1>9
    <3>8. m = Method(pc) /\ m \notin {"sleep", "wakeWeights", "wakeKv"} =>
            pc \notin {"sleep", "genSleep", "wakeWeights", "wakeKv"}
      BY DEF Method
    <3> QED
      BY <2>1, <3>3, <3>4, <3>5, <3>6, <3>7, <3>8
  <2>3. CASE ~Sleeps
    <3>1. awake[r] = Memory
      BY <1>1, <2>3 DEF Engines
    <3>2. Runs(r, m) => m # "sleep" \/ ~SleepMode
      <4>1. Runs(r, m) /\ m = "sleep" => pc \in {"sleep", "genSleep"} /\ pc \in Phases
        BY <1>7 DEF Taken, Method
      <4> QED
        BY <2>3, <4>1, PhasesAre DEF SeparateRound, Sleeps
    <3> QED
      BY <2>1, <2>3, <3>1, <3>2 DEF ReplicaDoes, Memory
  <2> QED
    BY <2>2, <2>3
<1>14. Models'
  <2> SUFFICES ASSUME ~Over, NEW w \in Workers PROVE Model(w)'
    BY <1>4 DEF Models
  <2>1. Model(w)
    BY <1>1 DEF Models
  <2>2. Takes(w, m) =>
          \/ issued /\ m = Method(pc) /\ pc \in Phases
          \/ m \in {"update", "generate"}
    BY <1>7 DEF Taken
  <2>3. CASE Takes(w, m) /\ WorkerDoes(w, m) /\ m \in {"offload", "reload"}
    <3>1. /\ m = "offload" => pc \in {"offload", "genOffload"} /\ ~onGpu'[w]
          /\ m = "reload" => pc \in {"reload", "genReload"} /\ onGpu'[w]
      BY <2>2, <2>3 DEF WorkerDoes, Method
    <3>2. m = "offload" => Colocated \/ Offload
      <4>1. m = "offload" => pc \in Phases /\ issued
        BY <2>2, <2>3
      <4>2. pc = "offload" /\ pc \in Phases => Colocated
        BY PhasesAre DEF SeparateRound
      <4>3. pc = "genOffload" /\ issued => Colocated \/ Offload
        BY <1>1 DEF Outstanding
      <4> QED
        BY <3>1, <4>1, <4>2, <4>3
    <3> QED
      BY <1>2, <1>3, <2>1, <2>3, <3>1, <3>2 DEF Model
  <2>4. CASE onGpu'[w] = onGpu[w] /\ (DoneBy(w)' => DoneBy(w))
    BY <1>2, <1>3, <2>1, <2>4 DEF Model
  <2>5. CASE onGpu'[w] = onGpu[w] /\ pc \notin {"genOffload", "genReload"}
    BY <1>2, <1>3, <2>1, <2>5 DEF Model
  <2>6. Takes(w, m) /\ WorkerDoes(w, m) /\ m \notin {"offload", "reload"} => onGpu'[w] = onGpu[w]
    BY DEF WorkerDoes
  <2>7. DoneBy(w)' /\ ~DoneBy(w) => Takes(w, m) /\ WorkerDoes(w, m) /\ m = Method(pc)
    BY <1>8
  <2>8. m = Method(pc) /\ m \notin {"offload", "reload"} => pc \notin {"genOffload", "genReload"}
    BY DEF Method
  <2>9. onGpu'[w] = onGpu[w] \/ (Takes(w, m) /\ WorkerDoes(w, m))
    BY <1>2 DEF WorkerStep
  <2> QED
    BY <2>3, <2>4, <2>5, <2>6, <2>7, <2>8, <2>9
<1>15. Merges'
  <2> SUFFICES ASSUME ~Over, NEW w \in Workers PROVE Merging(w)'
    BY <1>4 DEF Merges
  <2>1. Merging(w)
    BY <1>1 DEF Merges
  <2>2. Takes(w, m) =>
          \/ issued /\ m = Method(pc) /\ pc \in Phases
          \/ m \in {"update", "generate"}
    BY <1>7 DEF Taken
  <2>3. CASE Takes(w, m) /\ WorkerDoes(w, m) /\ m \in {"merge", "unmerge"}
    <3>1. /\ m = "merge" => pc = "merge" /\ merged'[w] = Lora
          /\ m = "unmerge" => pc = "unmerge" /\ merged'[w] = FALSE
      BY <2>2, <2>3 DEF WorkerDoes, Method
    <3>2. MergeAndSync
      BY <1>1, <2>2, <2>3, <3>1 DEF Outstanding
    <3> QED
      BY <1>2, <1>3, <2>3, <3>1, <3>2 DEF Merging
  <2>4. CASE merged'[w] = merged[w] /\ (DoneBy(w)' => DoneBy(w))
    BY <1>2, <1>3, <2>1, <2>4 DEF Merging
  <2>5. CASE merged'[w] = merged[w] /\ pc \notin {"merge", "unmerge"}
    BY <1>2, <1>3, <2>1, <2>5 DEF Merging
  <2>6. Takes(w, m) /\ WorkerDoes(w, m) /\ m \notin {"merge", "unmerge"} => merged'[w] = merged[w]
    BY DEF WorkerDoes
  <2>7. DoneBy(w)' /\ ~DoneBy(w) => Takes(w, m) /\ WorkerDoes(w, m) /\ m = Method(pc)
    BY <1>8
  <2>8. m = Method(pc) /\ m \notin {"merge", "unmerge"} => pc \notin {"merge", "unmerge"}
    BY DEF Method
  <2>9. merged'[w] = merged[w] \/ (Takes(w, m) /\ WorkerDoes(w, m))
    BY <1>2 DEF WorkerStep
  <2> QED
    BY <2>3, <2>4, <2>5, <2>6, <2>7, <2>8, <2>9
<1>16. \A w \in Workers : Takes(w, m) => m \in Calls(inbox[w])
  BY <1>5
<1>17. GivenUp'
  <2> SUFFICES ASSUME Over PROVE GivenUp'
    BY <1>4 DEF GivenUp
  <2>1. KvAsleep => KvAsleep'
    <3> SUFFICES ASSUME KvAsleep, NEW r \in Replicas
                 PROVE  "kv_cache" \notin awake'[r] /\ "wakeKv" \notin threads'[r]
      BY DEF KvAsleep
    <3>1. "kv_cache" \notin awake[r] /\ "wakeKv" \notin threads[r]
      BY DEF KvAsleep
    <3>2. Runs(r, m) => m # "wakeKv"
      BY <1>6, <3>1
    <3>3. awake'[r] = awake[r] \/ (Runs(r, m) /\ ReplicaDoes(r, m))
      BY <1>2 DEF ReplicaStep
    <3> QED
      BY <1>6, <3>1, <3>2, <3>3 DEF ReplicaDoes
  <2>2. GpuFree => GpuFree'
    <3> SUFFICES ASSUME GpuFree, NEW w \in Workers PROVE ~onGpu'[w] /\ "reload" \notin Calls(inbox'[w])
      BY DEF GpuFree
    <3>1. ~onGpu[w] /\ "reload" \notin Calls(inbox[w])
      BY DEF GpuFree
    <3>2. Takes(w, m) => m # "reload"
      BY <1>16, <3>1
    <3>3. onGpu'[w] = onGpu[w] \/ (Takes(w, m) /\ WorkerDoes(w, m))
      BY <1>2 DEF WorkerStep
    <3> QED
      BY <1>5, <3>1, <3>2, <3>3 DEF WorkerDoes
  <2>3. \A w \in Workers : ~merged[w] /\ "merge" \notin Calls(inbox[w]) =>
                           ~merged'[w] /\ "merge" \notin Calls(inbox'[w])
    BY <1>2, <1>5, <1>16 DEF WorkerStep, WorkerDoes
  <2>4. \A w \in Workers : "train" \notin Calls(inbox[w]) => "train" \notin Calls(inbox'[w])
    BY <1>5
  <2>5. NothingStreams => NothingStreams'
    <3>1. NothingStreams => \A w \in Workers : "update" \notin Calls(inbox'[w])
      BY <1>5 DEF NothingStreams
    <3> QED
      BY <3>1 DEF NothingStreams, Calls
  <2>6. WeightsStay => WeightsStay'
    <3> SUFFICES ASSUME WeightsStay, NEW r \in Replicas
                 PROVE  "weights" \in awake'[r] /\ "sleep" \notin threads'[r]
      BY DEF WeightsStay
    <3>1. "weights" \in awake[r] /\ "sleep" \notin threads[r]
      BY DEF WeightsStay
    <3>2. Runs(r, m) => m # "sleep"
      BY <1>6, <3>1
    <3>3. awake'[r] = awake[r] \/ (Runs(r, m) /\ ReplicaDoes(r, m))
      BY <1>2 DEF ReplicaStep
    <3> QED
      BY <1>6, <3>1, <3>2, <3>3 DEF ReplicaDoes
  <2> QED
    BY <1>1, <1>2, <1>3, <1>6, <2>1, <2>2, <2>3, <2>4, <2>5, <2>6 DEF GivenUp
<1>18. version' # version =>
         /\ ~Over /\ pc = "train" /\ issued /\ ~failing /\ version < TrainIters
         /\ "train" \notin raised /\ ~Trained /\ Trained' /\ version' = version + 1
         /\ m = "train" /\ policy' = policy /\ sampled' = sampled
  BY <1>1, TrainsWhen
<1>19. pc = "train" /\ issued =>
         /\ ~Over /\ ~failing
         /\ \/ "train" \notin raised' /\ \A w \in Workers : inbox'[w] = <<"train">>
            \/ Trained'
            \/ "train" \in raised' /\ \E w \in Workers : inbox'[w] = << >>
         /\ version' = version => (Trained' <=> Trained)
  <2> SUFFICES ASSUME pc = "train", issued
               PROVE  /\ ~Over /\ ~failing
                      /\ \/ "train" \notin raised' /\ \A w \in Workers : inbox'[w] = <<"train">>
                         \/ Trained'
                         \/ "train" \in raised' /\ \E w \in Workers : inbox'[w] = << >>
                      /\ version' = version => (Trained' <=> Trained)
    OBVIOUS
  <2>1. ~Over /\ ~failing
    BY <1>1 DEF Outstanding, Over
  <2>2. Taken(m) => m = "train" /\ \E w \in Workers : Takes(w, m)
    BY <1>6, <1>7, <2>1 DEF Taken, Method
  <2>3. CASE ~Taken(m)
    <3>1. \A w \in Workers : inbox'[w] = inbox[w]
      BY <1>2, <2>3 DEF WorkerStep, Taken
    <3>2. raised' = raised
      BY <1>2, <2>3
    <3>3. Trained' <=> Trained
      BY <1>2, <3>1, <3>2 DEF Trained
    <3> QED
      BY <1>1, <2>1, <3>1, <3>2, <3>3 DEF Rounds
  <2>4. CASE Taken(m)
    <3>1. PICK x \in Workers : Takes(x, m)
      BY <2>2, <2>4
    <3>2. m = "train" /\ inbox[x] # << >> /\ inbox'[x] = << >>
      BY <1>5, <2>1, <2>2, <2>4, <3>1
    <3>3. ~Trained
      BY <3>2 DEF Trained
    <3>4. CASE version' = version
      <4>1. version \in Int
        BY <1>1, RayAssumption DEF TypeOK, Versions
      <4>2. version # version + 1
        BY <4>1
      <4>3. "train" \in raised'
        BY <1>2, <3>1, <3>2, <3>4, <4>2 DEF Stepped
      <4> QED
        BY <2>1, <3>2, <3>3, <4>3 DEF Trained
    <3>5. CASE version' # version
      BY <1>18, <2>1, <3>5
    <3> QED
      BY <3>4, <3>5
  <2> QED
    BY <2>3, <2>4
<1>20. Rounds'
  <2>1. ~Over' /\ pc' # "top" /\ ~(pc' = "train" /\ Trained') => version' < TrainIters
    <3>1. CASE version' = version
      <4>1. pc = "train" /\ Trained => Trained'
        BY <1>19, <3>1 DEF Trained
      <4> QED
        BY <1>1, <1>2, <1>4, <3>1, <4>1 DEF Rounds
    <3>2. CASE version' # version
      BY <1>2, <1>18, <3>2
    <3> QED
      BY <3>1, <3>2
  <2> QED
    BY <1>1, <1>2, <1>4, <1>19, <2>1 DEF Rounds
<1>21. policy' = policy \/ \A r \in Replicas : policy'[r] = Exported(policy[r])
  BY <1>2 DEF Streamed
<1>22. ASSUME Updated'
       PROVE  /\ version' = version
              /\ \/ policy' = policy /\ Updated
                 \/ /\ \A r \in Replicas : policy'[r] = Exported(policy[r])
                    /\ ~Over /\ pc \in {"update", "send"}
  <2>1. ~failing /\ ~Over /\ pc # "train"
    BY <1>2, <1>22 DEF Updated, Synchronised, Over
  <2>2. version' = version
    BY <1>18, <2>1
  <2>3. CASE /\ policy' = policy
             /\ m \in {"update", "send"} /\ (\E w \in Workers : Takes(w, m)) => m \in raised'
    <3> SUFFICES ASSUME pc \in {"update", "send"}, NEW w \in Workers, ~DoneBy(w) PROVE FALSE
      BY <1>2, <1>22, <2>2, <2>3 DEF Updated, Synchronised
    <3>1. DoneBy(w)'
      BY <1>2, <1>22 DEF Updated, Synchronised
    <3>2. m = Method(pc) /\ m \notin raised' /\ Takes(w, m)
      BY <1>8, <3>1
    <3>3. m \in {"update", "send"}
      BY <3>2 DEF Method
    <3> QED
      BY <2>3, <3>2, <3>3
  <2>4. CASE /\ m \in {"update", "send"} /\ (\A w \in Workers : Takes(w, m))
             /\ policy' = [r \in Replicas |-> Exported(policy[r])]
    <3>2. issued /\ m = Method(pc)
      BY <1>7, <2>1, <2>4, RayAssumption DEF Taken
    <3>3. pc \in {"update", "send"}
      BY <2>4, <3>2 DEF Method
    <3> QED
      BY <2>1, <2>2, <2>4, <3>3
  <2> QED
    BY <1>2, <2>3, <2>4 DEF Streamed
<1>23. \A p : MergeAndSync =>
                Exported(p) = [p EXCEPT !.base = IF Lora /\ \E w \in Workers : ~merged[w] THEN 0 ELSE version]
  BY DEF Exported, AdapterOnly
<1>24. \A p : ~MergeAndSync =>
                Exported(p) = IF baseSyncDone THEN [p EXCEPT !.lora = version] ELSE [p EXCEPT !.base = 0]
  <2> SUFFICES ASSUME ~MergeAndSync, NEW p
               PROVE  Exported(p) = IF baseSyncDone THEN [p EXCEPT !.lora = version]
                                    ELSE [p EXCEPT !.base = 0]
    OBVIOUS
  <2>1. Lora
    BY <1>1, SettingKinds DEF TypeOK
  <2>2. \A w \in Workers : ~merged[w]
    BY <1>1 DEF Loaded
  <2>3. \E w \in Workers : TRUE
    BY RayAssumption
  <2> QED
    BY <2>1, <2>2, <2>3 DEF Exported, AdapterOnly
<1>25. \A r \in Replicas : policy[r] \in [base : Versions \cup {0}, lora : Versions \cup {0}]
  BY <1>1 DEF TypeOK
<1>26. Loaded'
  <2>1. ASSUME MergeAndSync, NEW r \in Replicas
        PROVE  policy'[r].lora = 0 /\ (Updated' => policy'[r].base = version')
    <3>1. policy[r].lora = 0
      BY <1>1, <2>1 DEF Loaded
    <3>2. policy'[r] = Exported(policy[r]) => policy'[r].lora = 0
      BY <1>23, <1>25, <2>1, <3>1
    <3>3. Updated /\ policy' = policy => policy'[r].base = version
      BY <1>1, <2>1 DEF Loaded
    <3>4. ~Over /\ pc \in {"update", "send"} /\ policy'[r] = Exported(policy[r]) =>
            policy'[r].base = version
      <4>1. ~Over /\ pc \in {"update", "send"} => ~(Lora /\ \E w \in Workers : ~merged[w])
        BY <1>1, <2>1 DEF Merges, Merging
      <4> QED
        BY <1>23, <1>25, <2>1, <4>1
    <3> QED
      BY <1>21, <1>22, <3>1, <3>2, <3>3, <3>4
  <2>2. ASSUME ~MergeAndSync, NEW r \in Replicas PROVE policy'[r].base = 0
    <3>1. policy[r].base = 0
      BY <1>1, <2>2 DEF Loaded
    <3>2. policy'[r] = Exported(policy[r]) => policy'[r].base = 0
      BY <1>24, <1>25, <2>2, <3>1
    <3> QED
      BY <1>21, <3>1, <3>2
  <2>3. ASSUME ~MergeAndSync, NEW w \in Workers
        PROVE  ~merged'[w] /\ "merge" \notin Calls(inbox'[w])
    <3>1. ~merged[w] /\ "merge" \notin Calls(inbox[w])
      BY <1>1, <2>3 DEF Loaded
    <3>2. merged'[w] = merged[w] \/ (Takes(w, m) /\ WorkerDoes(w, m))
      BY <1>2 DEF WorkerStep
    <3> QED
      BY <1>5, <1>16, <3>1, <3>2 DEF WorkerDoes
  <2>4. pc' \in Synchronised => baseSyncDone'
    BY <1>1, <1>2 DEF Loaded
  <2> QED
    BY <1>3, <2>1, <2>2, <2>3, <2>4 DEF Loaded
<1>27. Samples'
  <2> SUFFICES ASSUME MergeAndSync, ~Over, ~failing PROVE Samples'
    BY <1>2, <1>3, <1>4 DEF Samples
  <2>0. version \in Int /\ chunk \in Int
    BY <1>1, RayAssumption DEF TypeOK, Versions
  <2>1. CASE version' # version
    <3>1. /\ pc = "train" /\ ~Trained /\ Trained' /\ version' = version + 1 /\ sampled' = sampled
      BY <1>18, <2>1
    <3>2. \A v \in sampled : v = version - chunk - 0
      BY <1>1, <3>1 DEF Samples
    <3>3. \A v \in sampled : v = (version + 1) - chunk - 1
      BY <2>0, <3>2
    <3> QED
      BY <1>2, <3>1, <3>3 DEF Samples
  <2>2. CASE version' = version /\ sampled' = sampled
    <3>1. pc = "train" => (Trained' <=> Trained)
      <4>1. CASE issued
        BY <1>19, <2>2, <4>1
      <4>2. CASE ~issued
        BY <1>2, <4>2 DEF Trained
      <4> QED
        BY <4>1, <4>2
    <3> QED
      BY <1>1, <1>2, <1>3, <1>4, <2>2, <3>1 DEF Samples
  <2>3. CASE version' = version /\ sampled' # sampled
    <3>1. PICK r \in Replicas : /\ m = "generate" /\ Runs(r, m)
                                /\ sampled' = sampled \cup {policy[r].base}
      BY <1>2, <2>3 DEF Generated
    <3>2. pc = "generate"
      BY <1>7, <3>1 DEF Taken, Method
    <3>3. policy[r].base = version
      BY <1>1, <3>2 DEF Loaded, Updated, Synchronised
    <3>4. \A v \in sampled : v = version
      BY <1>1, <3>2 DEF Samples
    <3> QED
      BY <1>2, <2>3, <3>1, <3>2, <3>3, <3>4 DEF Samples
  <2> QED
    BY <2>1, <2>2, <2>3
<1>28. TypeOK'
  <2>1. version' \in Versions
    <3>1. version \in Versions /\ (version' = version \/ (version < TrainIters /\ version' = version + 1))
      BY <1>1, <1>18 DEF TypeOK
    <3> QED
      BY <3>1, RayAssumption DEF Versions
  <2>2. sampled' \subseteq Versions \cup {0}
    BY <1>1, <1>2, <1>25 DEF TypeOK, Generated
  <2>3. merged' \in [Workers -> BOOLEAN] /\ onGpu' \in [Workers -> BOOLEAN]
    <3>1. Lora \in BOOLEAN
      BY <1>1, SettingKinds DEF TypeOK
    <3>2. \A w \in Workers : merged'[w] \in BOOLEAN /\ onGpu'[w] \in BOOLEAN
      BY <1>1, <1>2, <3>1 DEF TypeOK, WorkerStep, WorkerDoes
    <3> QED
      BY <1>2, <3>2 DEF Shaped
  <2>4. awake' \in [Replicas -> SUBSET Memory]
    <3>1. \A r \in Replicas : awake'[r] \in SUBSET Memory
      <4> SUFFICES ASSUME NEW r \in Replicas PROVE awake'[r] \subseteq Memory
        OBVIOUS
      <4>1. awake[r] \subseteq Memory
        BY <1>1 DEF TypeOK
      <4>2. awake'[r] = awake[r] \/ ReplicaDoes(r, m)
        BY <1>2 DEF ReplicaStep
      <4> QED
        BY <4>1, <4>2 DEF ReplicaDoes, Memory
    <3> QED
      BY <1>2, <3>1 DEF Shaped
  <2>5. policy' \in [Replicas -> [base : Versions \cup {0}, lora : Versions \cup {0}]]
    <3>1. version \in Versions
      BY <1>1 DEF TypeOK
    <3>2. \A r \in Replicas : Exported(policy[r]) \in [base : Versions \cup {0}, lora : Versions \cup {0}]
      BY <1>25, <3>1 DEF Exported
    <3>3. policy' = policy \/ policy' = [r \in Replicas |-> Exported(policy[r])]
      BY <1>2 DEF Streamed
    <3> QED
      BY <1>1, <3>2, <3>3 DEF TypeOK
  <2>6. cache' \in [Replicas -> SUBSET (Versions \cup {0})]
    <3>1. \A r \in Replicas : cache'[r] \in SUBSET (Versions \cup {0})
      BY <1>1, <1>2, <1>25 DEF TypeOK
    <3> QED
      BY <1>2, <3>1 DEF Shaped
  <2>7. inbox' \in [Workers -> Seq(Methods)]
    BY <1>2, <1>5 DEF Shaped
  <2>8. threads' \in [Replicas -> SUBSET Methods]
    <3>1. \A r \in Replicas : threads'[r] \in SUBSET Methods
      BY <1>1, <1>6 DEF Outstanding
    <3> QED
      BY <1>2, <3>1 DEF Shaped
  <2>9. raised' \subseteq Methods
    BY <1>1, <1>2, <1>10 DEF TypeOK
  <2> QED
    BY <1>1, <1>2, <1>3, <2>1, <2>2, <2>3, <2>4, <2>5, <2>6, <2>7, <2>8, <2>9 DEF TypeOK
<1>29. Adapters => Adapters'
  <2> SUFFICES ASSUME Adapters, ~MergeAndSync PROVE Adapters'
    BY <1>3 DEF Adapters
  <2>1. ~baseSyncDone => version' = 0 /\ \A r \in Replicas : policy'[r].lora = 0
    <3> SUFFICES ASSUME ~baseSyncDone PROVE version' = 0 /\ \A r \in Replicas : policy'[r].lora = 0
      OBVIOUS
    <3>1. version = 0 /\ (\A r \in Replicas : policy[r].lora = 0) /\ pc # "train"
      BY DEF Adapters
    <3>2. version' = version
      BY <1>18, <3>1
    <3>3. \A r \in Replicas : policy'[r] = Exported(policy[r]) => policy'[r].lora = policy[r].lora
      BY <1>24, <1>25
    <3> QED
      BY <1>21, <3>1, <3>2, <3>3
  <2>2. Updated' => \A r \in Replicas : policy'[r].lora = version'
    <3> SUFFICES ASSUME Updated', NEW r \in Replicas PROVE policy'[r].lora = version'
      OBVIOUS
    <3>1. version' = version
      BY <1>22
    <3>2. CASE policy' = policy /\ Updated
      BY <3>1, <3>2 DEF Adapters
    <3>3. CASE policy'[r] = Exported(policy[r])
      <4>1. CASE baseSyncDone
        BY <1>24, <1>25, <3>1, <3>3, <4>1
      <4>2. CASE ~baseSyncDone
        BY <2>1, <3>1, <4>2
      <4> QED
        BY <4>1, <4>2
    <3> QED
      BY <1>22, <3>2, <3>3
  <2>3. pc' = "train" => baseSyncDone'
    BY <1>2 DEF Adapters
  <2> QED
    BY <1>2, <1>3, <2>1, <2>2, <2>3 DEF Adapters
<1> QED
  BY <1>11, <1>12, <1>13, <1>14, <1>15, <1>17, <1>20, <1>26, <1>27, <1>28, <1>29 DEF IInv
-----------------------------------------------------------------------------
(* The invariant and what it shows                                         *)

(* A step is one of the driver, of the actors, or nothing.                 *)
LEMMA StepsAre ==
  ASSUME IInv, [Next]_vars
  PROVE  Driver \/ (\E m : ActorStep(m)) \/ vars' = vars
BY ActorsAre, CallRaisesIs DEF Next, IInv

(* The invariant is inductive, and so is what is known of adapters.        *)
LEMMA Inductive ==
  ASSUME IInv, [Next]_vars PROVE IInv' /\ (FreshAdapters /\ Adapters => Adapters')
<1>1. CASE Driver
  BY <1>1, DriverKeeps
<1>2. CASE \E m : ActorStep(m)
  BY <1>2, ActorKeeps
<1>3. CASE vars' = vars
  <2>1. ActorStep("none")
    <3>1. /\ UNCHANGED <<setting, driverVars>> /\ version' = version /\ merged' = merged
          /\ onGpu' = onGpu /\ awake' = awake /\ policy' = policy /\ cache' = cache
          /\ sampled' = sampled /\ inbox' = inbox /\ threads' = threads /\ raised' = raised
      BY <1>3 DEF vars, driverVars, workerVars, replicaVars, rayVars
    <3>2. Shaped
      BY <3>1, ShapesNow DEF Shaped, IInv
    <3> QED
      BY <3>1, <3>2 DEF ActorStep, WorkerStep, ReplicaStep, Streamed, Stepped, Generated
  <2> QED
    BY <2>1, ActorKeeps
<1> QED
  BY <1>1, <1>2, <1>3, StepsAre

(* Every reachable state satisfies the invariant.                          *)
LEMMA Invariance == Spec => []IInv
<1>1. IInv /\ [Next]_vars => IInv'
  BY Inductive
<1> QED
  BY <1>1, InitInv, PTL DEF Spec

(* Every variable has its type: of the code, that the driver never gets    *)
(* past the chunks of a round nor training past its last iteration.        *)
THEOREM TypeCorrect == Spec => []TypeOK
<1>1. IInv => TypeOK
  BY DEF IInv
<1> QED
  BY <1>1, Invariance, PTL

(* Weights are streamed only into engines whose weights are awake, also    *)
(* after calls have raised, and replicas generate awake until a generation *)
(* of the round raises: _sync_weights_naive and _generation_context.       *)
THEOREM UsedAwake == Spec => []AwakeWhenUsed
<1>1. IInv => AwakeWhenUsed
  <2> SUFFICES ASSUME IInv PROVE AwakeWhenUsed
    OBVIOUS
  <2>1. TypeOK /\ Outstanding /\ Engines /\ GivenUp
    BY DEF IInv
  <2>2. ASSUME NEW w \in Workers, "update" \in Calls(inbox[w]), NEW r \in Replicas
        PROVE  "weights" \in awake[r]
    <3>1. CASE Over
      BY <2>1, <2>2, <3>1 DEF GivenUp, NothingStreams, WeightsStay
    <3>2. CASE ~Over
      <4>1. "update" \in Expected
        BY <2>1, <2>2, <3>2 DEF Outstanding
      <4>2. pc \in {"update", "reload", "unmerge"}
        BY <2>1, <3>2, <4>1, ExpectedIs DEF Method
      <4>3. Engine(r) \/ awake[r] = Memory
        BY <2>1, <3>2 DEF Engines
      <4> QED
        BY <4>2, <4>3 DEF Engine, Memory
    <3> QED
      BY <3>1, <3>2
  <2>3. ASSUME "generate" \notin failedAt, NEW r \in Replicas, "generate" \in threads[r]
        PROVE  awake[r] = Memory
    <3>1. ~Over
      BY <2>1, <2>3 DEF GivenUp
    <3>2. "generate" \in Expected
      BY <2>1, <2>3, <3>1 DEF Outstanding
    <3>3. pc = "generate"
      BY <2>1, <2>3, <3>1, <3>2, ExpectedIs DEF Method, Outstanding
    <3>4. Engine(r) \/ awake[r] = Memory
      BY <2>1, <3>1 DEF Engines
    <3>5. awake[r] \subseteq Memory
      BY <2>1 DEF TypeOK
    <3> QED
      BY <3>3, <3>4, <3>5 DEF Engine, Memory
  <2> QED
    BY <2>2, <2>3 DEF AwakeWhenUsed
<1> QED
  BY <1>1, Invariance, PTL

(* Colocated training and inference with sleep mode take turns on the GPUs *)
(* from the first synchronisation on, whichever calls raise.               *)
THEOREM InTurns == Spec => []TakeTurns
<1>1. IInv => TakeTurns
  <2> SUFFICES ASSUME IInv, Colocated, SleepMode, baseSyncDone, NEW r \in Replicas, NEW w \in Workers
               PROVE  ~("kv_cache" \in awake[r] /\ onGpu[w])
    BY DEF TakeTurns
  <2>1. TypeOK /\ Slept /\ Engines /\ Models /\ GivenUp /\ Sleeps
    BY DEF IInv, Sleeps
  <2>2. CASE Over
    <3>1. KvAsleep \/ GpuFree
      BY <2>1, <2>2 DEF GivenUp
    <3> QED
      BY <3>1 DEF KvAsleep, GpuFree
  <2>3. CASE ~Over
    <3>1. Engine(r) /\ Model(w)
      BY <2>1, <2>3 DEF Engines, Models
    <3>2. pc \in ColocatedRound \cup {"top"}
      BY <2>1, <2>3, PhasesAre DEF TypeOK, Outside, Over
    <3>3. pc \in {"top", "sleep", "train"} => sleeping = Memory
      BY <2>1 DEF Slept
    <3> QED
      BY <3>1, <3>2, <3>3 DEF Engine, Model, ColocatedRound
  <2> QED
    BY <2>2, <2>3
<1> QED
  BY <1>1, Invariance, PTL

(* However a round fails, in either mode, no adapter is left merged unless *)
(* one of the calls that run on the merged model outside of a try, or in   *)
(* its finally, has raised itself.                                         *)
THEOREM Unmerged == Spec => []EndsUnmerged
<1>1. IInv => EndsUnmerged
  BY DEF IInv, GivenUp, EndsUnmerged, Over
<1> QED
  BY <1>1, Invariance, PTL

(* Where the adapter is sent apart, training starts afresh and on samples: *)
(* then every replica generates with the policy that is being trained.     *)
THEOREM LatestHeld == ASSUME FreshAdapters PROVE Spec => []HoldsLatest
<1>1. Init => IInv /\ Adapters
  <2>1. Init => Adapters
    <3> SUFFICES ASSUME Init, ~MergeAndSync PROVE Adapters
      BY DEF Adapters
    <3>1. version = 0
      BY DEF Init, FreshAdapters, MergeAndSync
    <3>2. pc = "top" /\ \A r \in Replicas : policy[r].lora = 0
      BY DEF Init
    <3>3. ~Updated
      BY <3>2 DEF Updated, Synchronised
    <3> QED
      BY <3>1, <3>2, <3>3 DEF Adapters
  <2> QED
    BY <2>1, InitInv
<1>2. (IInv /\ Adapters) /\ [Next]_vars => (IInv /\ Adapters)'
  BY Inductive
<1>3. IInv /\ Adapters => HoldsLatest
  <2> SUFFICES ASSUME IInv, Adapters, Waiting("generate"), NEW r \in Replicas
               PROVE  policy[r] \in {[base |-> version, lora |-> 0], [base |-> 0, lora |-> version]}
    BY DEF HoldsLatest
  <2>1. policy[r] \in [base : Versions \cup {0}, lora : Versions \cup {0}]
    BY DEF IInv, TypeOK
  <2>2. Updated
    <3>1. ~failing
      BY DEF Waiting, IInv, Outstanding, Over
    <3> QED
      BY <3>1 DEF Updated, Synchronised, Waiting
  <2>3. MergeAndSync => policy[r].lora = 0 /\ policy[r].base = version
    BY <2>2 DEF IInv, Loaded
  <2>4. ~MergeAndSync => policy[r].base = 0 /\ policy[r].lora = version
    BY <2>2 DEF IInv, Loaded, Adapters
  <2> QED
    BY <2>1, <2>3, <2>4
<1> QED
  BY <1>1, <1>2, <1>3, PTL DEF Spec

(* A training step runs on the unmerged model on the GPU of every worker,  *)
(* within the chunks of the round, and trains on samples as old as the     *)
(* chunk is far into the batch.                                            *)
THEOREM ProperTraining == Spec => TrainsProperly
<1>1. IInv /\ [Next]_vars =>
        [version' # version =>
           /\ \A w \in Workers : ~merged[w] /\ onGpu[w]
           /\ MergeAndSync => \A v \in sampled : v = version - chunk
           /\ chunk < Spg]_vars
  <2> SUFFICES ASSUME IInv, [Next]_vars, version' # version
               PROVE  /\ \A w \in Workers : ~merged[w] /\ onGpu[w]
                      /\ MergeAndSync => \A v \in sampled : v = version - chunk
                      /\ chunk < Spg
    OBVIOUS
  <2>1. PICK m : ActorStep(m)
    BY StepsAre DEF Driver, Loop, Skip, Issue, Return, ReturnTrain, ReturnFinalize, Raise,
                    workerVars, vars
  <2>2. ~Over /\ pc = "train" /\ ~failing /\ ~Trained
    BY <2>1, TrainsWhen
  <2>3. \A w \in Workers : ~merged[w] /\ onGpu[w]
    BY <2>2 DEF IInv, Merges, Merging, Models, Model
  <2>4. chunk < Spg
    BY <2>2 DEF IInv, Rounds
  <2>5. MergeAndSync => \A v \in sampled : v = version - chunk
    <3>1. MergeAndSync => \A v \in sampled : v = version - chunk - 0
      BY <2>2 DEF IInv, Samples
    <3>2. version \in Int /\ chunk \in Int
      BY RayAssumption DEF IInv, TypeOK, Versions
    <3> QED
      BY <3>1, <3>2
  <2> QED
    BY <2>3, <2>4, <2>5
<1> QED
  BY <1>1, Invariance, PTL DEF Spec, TrainsProperly
=============================================================================
