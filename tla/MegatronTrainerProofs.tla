----------------------- MODULE MegatronTrainerProofs -----------------------
(***************************************************************************)
(* Proofs about the checkpoints of the Megatron trainers (MegatronTrainer) *)
(* for every size of the job, every frequency of saves and evaluations,    *)
(* every limit and any number of crashes, synchronous and asynchronous.    *)
(***************************************************************************)
EXTENDS MegatronTrainer, DataLemmas, TLAPS

(* A save is under way, or about to be.                                    *)
SavePhases == {"score", "mkdir", "weights", "tracker", "safetensors", "link"}
Saving == phase \in SavePhases

(* What the process has reached is never behind what the disk says, and    *)
(* ahead of it while a save is under way.                                  *)
Ahead ==
  /\ phase = "down" => iteration = 0 /\ pending = << >>
  /\ phase # "down" => link <= iteration
  /\ Saving => link < iteration

(* Asynchronous saves in flight: of later iterations than the link's, in   *)
(* the order they were begun, complete but for the weights.                *)
InFlight ==
  /\ ~ mode.async => pending = << >>
  /\ \A j, k \in DOMAIN pending : j < k => pending[j] < pending[k]
  /\ \A k \in DOMAIN pending :
       /\ link < pending[k]
       /\ phase \in {"score", "mkdir", "weights", "tracker"} => pending[k] < iteration
       /\ "tracker" \in parts[pending[k]]
       /\ \/ "safetensors" \in parts[pending[k]]
          \/ phase = "safetensors" /\ pending[k] = iteration

(* The directory of the save under way.                                    *)
Written ==
  /\ phase \in {"weights", "tracker", "safetensors", "link"} => iteration \in Dirs
  /\ phase \in {"tracker", "safetensors", "link"} /\ ~ mode.async => "weights" \in parts[iteration]
  /\ phase \in {"safetensors", "link"} => "tracker" \in parts[iteration]
  /\ phase = "link" => "safetensors" \in parts[iteration]

(* With a limit, where updates of the link do not fail: a directory beyond *)
(* the link is of the save that comes next after it, which a crash         *)
(* interrupted, and is the newest of all.                                  *)
Newest(d) == \A e \in Dirs \ {d} : mtime[e] < mtime[d]
NextSave(d) == ShouldSave(d) /\ \A j \in link + 1 .. d - 1 : ~ ShouldSave(j)
Rotation ==
  mode.limit > 0 /\ ~ mode.linkFails =>
    /\ Saving => NextSave(iteration)
    /\ phase = "step" => \A j \in link + 1 .. iteration : ~ ShouldSave(j)
    /\ phase = "rotate" => link = iteration /\ link \in Dirs /\ Newest(link)
    /\ \A d \in Dirs : d > link => NextSave(d) /\ Newest(d)

(* The best checkpoint of this process is on disk, but between its score   *)
(* and its save, and is known by the time directories are removed.         *)
Best ==
  best.step # NoIteration =>
    /\ best.step <= iteration
    /\ phase = "score" => best.step < iteration
    /\ best.step \in Dirs \/ (phase = "mkdir" /\ best.step = iteration)
    /\ phase \in {"link", "rotate", "step"} => bestDir = best.step
    /\ ~ mode.async /\ (best.step < iteration \/ phase \in {"rotate", "step"})
         => parts[best.step] = Parts

IInv ==
  /\ TypeOK
  /\ Ahead /\ InFlight /\ Written /\ Rotation /\ Best
  /\ LinkedIsComplete
-----------------------------------------------------------------------------
(* The samplers: what a rank draws in a step.                              *)

LEMMA SamplerConstants ==
  /\ GlobalMicro \in Nat \ {0} /\ ActiveTotal \in Nat \ {0}
  /\ BucketSize \in Nat /\ GlobalBatch \in Nat
  /\ DPRanks \subseteq Nat
<1>1. GlobalMicro \in Nat \ {0} /\ Total >= GlobalMicro /\ Total \in Nat
  BY SamplerAssumption, Products DEF GlobalMicro
<1>2. Total % GlobalMicro \in 0 .. GlobalMicro - 1
  BY <1>1, Quotients
<1>3. ActiveTotal \in Nat \ {0}
  BY <1>1, <1>2 DEF ActiveTotal
<1>4. Total \div GlobalMicro \in Nat
  BY <1>1, Quotients
<1>5. BucketSize \in Nat /\ GlobalBatch \in Nat
  BY <1>1, <1>4, SamplerAssumption, TrainerAssumption, Products DEF BucketSize, GlobalBatch
<1>6. DPRanks \subseteq Nat
  BY SamplerAssumption DEF DPRanks
<1> QED
  BY <1>1, <1>3, <1>5, <1>6

(* Batches of all ranks in an epoch.                                       *)
EpochBatches == Total \div GlobalMicro

(* The sizes, in batches.                                                  *)
LEMMA EpochConstants ==
  /\ EpochBatches \in Nat \ {0}
  /\ ActiveTotal = EpochBatches * GlobalMicro
  /\ BucketSize = EpochBatches * MicroBatch
  /\ BucketSize \in Nat \ {0}
  /\ GlobalMicro = MicroBatch * DataParallel
  /\ GlobalMicro \in Nat \ {0} /\ MicroBatch \in Nat \ {0} /\ DataParallel \in Nat \ {0}
<1>1. /\ GlobalMicro \in Nat \ {0} /\ MicroBatch \in Nat \ {0} /\ DataParallel \in Nat \ {0}
      /\ Total \in Nat /\ GlobalMicro = MicroBatch * DataParallel /\ Total >= GlobalMicro
  BY SamplerConstants, SamplerAssumption DEF GlobalMicro
<1>2. /\ EpochBatches \in Nat /\ Total % GlobalMicro \in 0 .. GlobalMicro - 1
      /\ Total = EpochBatches * GlobalMicro + (Total % GlobalMicro)
  BY <1>1, Quotients, Division DEF EpochBatches
<1>3. EpochBatches # 0
  <2> SUFFICES ASSUME EpochBatches = 0 PROVE FALSE
    OBVIOUS
  <2>1. EpochBatches * GlobalMicro = 0
    BY <1>1
  <2> QED
    BY <1>1, <1>2, <2>1
<1>4. ActiveTotal = EpochBatches * GlobalMicro
  <2> DEFINE x == EpochBatches * GlobalMicro
             y == Total % GlobalMicro
  <2>1. x \in Nat /\ y \in Nat /\ Total = x + y /\ ActiveTotal = Total - y
    BY <1>1, <1>2, Products DEF ActiveTotal
  <2> HIDE DEF x, y
  <2>2. ActiveTotal = x
    BY <2>1
  <2> QED
    BY <2>2 DEF x
<1>5. BucketSize = EpochBatches * MicroBatch
  BY DEF BucketSize, EpochBatches
<1>6. BucketSize \in Nat \ {0}
  BY <1>1, <1>2, <1>3, <1>5, Products
<1> QED
  BY <1>1, <1>2, <1>3, <1>4, <1>5, <1>6

(* Counts of samples are of whole batches of all ranks.                    *)
LEMMA CountsAre ==
  /\ 0 \in Counts
  /\ \A n \in Nat : n * GlobalMicro \in Counts
  /\ \A c \in Counts : c \in Nat /\ \E n \in Nat : c = n * GlobalMicro
<1>1. GlobalMicro \in Nat \ {0}
  BY SamplerConstants
<1>2. ASSUME NEW n \in Nat PROVE n * GlobalMicro \in Counts
  <2> DEFINE x == n * GlobalMicro
  <2>1. x \in Nat
    BY <1>1, Products
  <2>2. (x + 0) % GlobalMicro = 0
    <3>1. 0 \in 0 .. GlobalMicro - 1
      BY <1>1
    <3> QED
      BY <1>1, <3>1, QuotientIs
  <2> HIDE DEF x
  <2>3. x \in Counts
    BY <2>1, <2>2 DEF Counts
  <2> QED
    BY <2>3 DEF x
<1>0. 0 \in Counts
  <2>1. 0 * GlobalMicro = 0
    BY <1>1
  <2> QED
    BY <1>2, <2>1
<1>3. ASSUME NEW c \in Counts PROVE c \in Nat /\ \E n \in Nat : c = n * GlobalMicro
  <2>1. c \in Nat /\ c % GlobalMicro = 0
    BY DEF Counts
  <2>2. c = (c \div GlobalMicro) * GlobalMicro + (c % GlobalMicro) /\ c \div GlobalMicro \in Nat
    BY <1>1, <2>1, Division, Quotients
  <2>3. PICK n \in Nat : n = c \div GlobalMicro
    BY <2>2
  <2>4. n * GlobalMicro \in Nat
    BY <1>1, Products
  <2>5. c = n * GlobalMicro
    BY <2>1, <2>2, <2>3, <2>4
  <2> QED
    BY <2>1, <2>5
<1> QED
  BY <1>0, <1>2, <1>3

LEMMA CountsAdd ==
  ASSUME NEW c \in Counts
  PROVE  c + GlobalMicro \in Counts /\ c + GlobalBatch \in Counts
<1>1. PICK n \in Nat : c = n * GlobalMicro
  BY CountsAre
<1>2. GlobalMicro \in Nat /\ NumMicro \in Nat /\ GlobalBatch = GlobalMicro * NumMicro
  BY SamplerConstants, TrainerAssumption DEF GlobalBatch
<1>3. c + GlobalMicro = (n + 1) * GlobalMicro /\ c + GlobalBatch = (n + NumMicro) * GlobalMicro
  BY <1>1, <1>2
<1>4. n + 1 \in Nat /\ n + NumMicro \in Nat
  BY <1>2
<1> QED
  BY <1>3, <1>4, CountsAre

LEMMA NewPassType == \A c \in Counts : NewPass(c) \in Samplers
BY SamplerConstants, Quotients, CountsAre DEF NewPass, Samplers

LEMMA YieldedType ==
  ASSUME NEW s \in Samplers
  PROVE  Yielded(s) \in Samplers
<1>1. s.consumed + GlobalMicro \in Counts /\ s.yielded + 1 \in Nat
  BY CountsAdd DEF Samplers
<1> QED
  BY <1>1 DEF Yielded, Samplers

LEMMA TurnedType ==
  ASSUME NEW sharding, NEW r, NEW s \in Samplers
  PROVE  Turned(sharding, r, s) \in Samplers
BY NewPassType DEF Turned, Samplers

(* A sampler that has yielded n batches of its rank: k of the epoch before *)
(* the pass in progress began.                                             *)
At(s, n, k) ==
  /\ k \in 0 .. EpochBatches - 1
  /\ s.consumed = n * GlobalMicro
  /\ s.offset = k * GlobalMicro
  /\ k + s.yielded <= EpochBatches
  /\ n = s.epoch * EpochBatches + (k + s.yielded)

Follows(s, n) == \E k \in Nat : At(s, n, k)

(* A pass begun after n batches is at the right place of the right epoch.  *)
LEMMA NewPassFollows ==
  ASSUME NEW n \in Nat
  PROVE  At(NewPass(n * GlobalMicro), n, n % EpochBatches)
<1>1. /\ EpochBatches \in Nat \ {0} /\ GlobalMicro \in Nat \ {0}
      /\ ActiveTotal = EpochBatches * GlobalMicro /\ ActiveTotal \in Nat \ {0}
  BY EpochConstants, SamplerConstants
<1> DEFINE e == n \div EpochBatches
           p == n % EpochBatches
<1>2. e \in Nat /\ p \in 0 .. EpochBatches - 1 /\ n = e * EpochBatches + p
  BY <1>1, Quotients, Division
<1> HIDE DEF e, p
<1> DEFINE x == p * GlobalMicro
<1>3. x \in Nat /\ x + GlobalMicro <= ActiveTotal
  BY <1>1, <1>2, ProductOrder
<1>4. n * GlobalMicro = e * ActiveTotal + x
  <2>1. n * GlobalMicro = (e * EpochBatches) * GlobalMicro + p * GlobalMicro
    BY <1>1, <1>2
  <2>2. (e * EpochBatches) * GlobalMicro = e * (EpochBatches * GlobalMicro)
    BY <1>1, <1>2
  <2> QED
    BY <1>1, <2>1, <2>2
<1> HIDE DEF x
<1>5. x \in 0 .. ActiveTotal - 1
  BY <1>1, <1>3
<1>6. (n * GlobalMicro) \div ActiveTotal = e /\ (n * GlobalMicro) % ActiveTotal = x
  BY <1>1, <1>2, <1>4, <1>5, QuotientIs, SMTT(60)
<1> DEFINE s == NewPass(n * GlobalMicro)
<1>7. s.consumed = n * GlobalMicro /\ s.epoch = e /\ s.offset = x /\ s.yielded = 0
  BY <1>6 DEF NewPass
<1> HIDE DEF s
<1>8. p + s.yielded <= EpochBatches /\ n = s.epoch * EpochBatches + (p + s.yielded)
  BY <1>1, <1>2, <1>7
<1>9. s.offset = p * GlobalMicro
  BY <1>7 DEF x
<1>10. At(s, n, p)
  BY <1>2, <1>7, <1>8, <1>9 DEF At
<1> QED
  BY <1>10 DEF s, p

(* An epoch uses no more than there are whole micro-batches.               *)
LEMMA ActiveIsFull == ActiveTotal <= FullBucketSize /\ FullBucketSize \in Nat
<1>1. /\ EpochBatches \in Nat /\ MicroBatch \in Nat \ {0} /\ DataParallel \in Nat \ {0}
      /\ ActiveTotal = EpochBatches * GlobalMicro /\ GlobalMicro = MicroBatch * DataParallel
      /\ Total \in Nat /\ ActiveTotal \in Nat
  BY EpochConstants, SamplerConstants, SamplerAssumption
<1>2. ActiveTotal <= Total
  <2>1. Total % GlobalMicro \in Nat
    BY <1>1, EpochConstants, Quotients
  <2> QED
    BY <1>1, <2>1 DEF ActiveTotal
<1> DEFINE b == EpochBatches * DataParallel
           q == Total \div MicroBatch
<1>3. b \in Nat /\ ActiveTotal = b * MicroBatch
  <2>1. EpochBatches * (MicroBatch * DataParallel) = (EpochBatches * DataParallel) * MicroBatch
    BY <1>1
  <2> QED
    BY <1>1, <2>1, Products
<1>4. q \in Nat
  BY <1>1, Quotients
<1>5. FullBucketSize = q * MicroBatch
  BY DEF FullBucketSize
<1> HIDE DEF b
<1>6. b <= q
  BY <1>1, <1>2, <1>3, QuotientBound
<1> HIDE DEF q
<1> QED
  BY <1>1, <1>3, <1>4, <1>5, <1>6, ProductMonotone, Products

(* As long as the epoch has a batch left, and no longer if the incomplete  *)
(* last batch of the data set gives no rank a micro-batch.                 *)
LEMMA HasBatchIs ==
  ASSUME NEW sharding, NEW r \in DPRanks,
         NEW s \in Samplers, NEW n \in Nat, NEW k \in Nat, At(s, n, k)
  PROVE  /\ k + s.yielded < EpochBatches => HasBatch(sharding, r, s)
         /\ (sharding \/ RanksDropAlike) /\ HasBatch(sharding, r, s) => k + s.yielded < EpochBatches
<1> DEFINE y == s.yielded
           M == MicroBatch
           D == DataParallel
           G == GlobalMicro
           Q == EpochBatches
           A == ActiveTotal
           F == FullBucketSize
<1>1. /\ y \in Nat /\ Q \in Nat \ {0} /\ G \in Nat \ {0} /\ M \in Nat \ {0} /\ D \in Nat \ {0}
      /\ k \in 0 .. Q - 1 /\ k + y <= Q /\ r \in 0 .. D - 1 /\ s.offset = k * G
      /\ G = M * D /\ A = Q * G /\ A \in Nat /\ BucketSize = Q * M
      /\ F \in Nat /\ A <= F
  BY EpochConstants, SamplerConstants, ActiveIsFull DEF At, Samplers, DPRanks
<1>2. HasBatch(sharding, r, s) <=> (y + 1) * M <= IndicesLeft(sharding, r, k * G)
  BY <1>1 DEF HasBatch
<1>3. CASE sharding
  <2>1. (k * G) \div D = k * M
    <3>1. k * G = (k * M) * D + 0 /\ k * M \in Nat /\ 0 \in 0 .. D - 1
      BY <1>1
    <3> HIDE DEF M, D, G
    <3> QED
      BY <1>1, <3>1, QuotientIs
  <2>2. IndicesLeft(sharding, r, k * G) = Q * M - k * M
    BY <1>1, <1>3, <2>1 DEF IndicesLeft
  <2> HIDE DEF y, M, D, G, Q, A, F
  <2>3. (y + 1) * M + k * M = (k + y + 1) * M
    BY <1>1
  <2>4. (y + 1) * M \in Nat /\ k * M \in Nat /\ Q * M \in Nat /\ k + y + 1 \in Nat
    BY <1>1, Products
  <2>5. k + y + 1 <= Q <=> (k + y + 1) * M <= Q * M
    BY <1>1, <2>4, ProductMonotone
  <2>6. (y + 1) * M <= Q * M - k * M <=> (y + 1) * M + k * M <= Q * M
    <3> DEFINE a == (y + 1) * M
               b == k * M
               c == Q * M
    <3>1. a \in Nat /\ b \in Nat /\ c \in Nat
      BY <2>4
    <3> HIDE DEF a, b, c
    <3>2. a <= c - b <=> a + b <= c
      BY <3>1
    <3> QED
      BY <3>2 DEF a, b, c
  <2>7. HasBatch(sharding, r, s) <=> k + y + 1 <= Q
    BY <1>2, <2>2, <2>3, <2>5, <2>6
  <2>8. k + y < Q <=> k + y + 1 <= Q
    BY <1>1
  <2> QED
    BY <2>7, <2>8 DEF y, Q
<1>4. CASE ~ sharding
  <2> DEFINE left == F - k * G - r
             N == (y + 1) * M
  <2>0. RanksDropAlike => F + D <= A + G
    BY DEF RanksDropAlike
  <2>1. IndicesLeft(sharding, r, k * G) = IF left <= 0 THEN 0 ELSE (left + D - 1) \div D
    BY <1>4 DEF IndicesLeft
  <2> HIDE DEF y, M, D, G, Q, A, F
  <2> DEFINE a == k * G
             c == (y + 1) * G
  <2>2. a \in Nat /\ c \in Nat /\ c = N * D /\ N \in Nat \ {0} /\ (k + y + 1) * G = a + c
    <3>1. y + 1 \in Nat \ {0}
      BY <1>1
    <3>2. a \in Nat /\ c \in Nat /\ N \in Nat \ {0}
      BY <1>1, <3>1, Products
    <3>3. c = N * D
      BY <1>1
    <3>4. (k + y + 1) * G = a + c
      BY <1>1
    <3> QED
      BY <3>2, <3>3, <3>4
  <2>3. left = F - a - r
    OBVIOUS
  <2> HIDE DEF left, N
  <2>4. k + y < Q => a + c <= A
    <3> SUFFICES ASSUME k + y < Q PROVE (k + y + 1) * G <= Q * G
      BY <1>1, <2>2
    <3>1. k + y + 1 \in Nat /\ k + y + 1 <= Q
      BY <1>1
    <3> QED
      BY <1>1, <3>1, ProductMonotone
  <2>5. ~ (k + y < Q) => a + c = A + G
    <3> SUFFICES ASSUME ~ (k + y < Q) PROVE (k + y + 1) * G = Q * G + G
      BY <1>1, <2>2
    <3>1. k + y + 1 = Q + 1
      BY <1>1
    <3>2. (Q + 1) * G = Q * G + G
      BY <1>1
    <3> QED
      BY <3>1, <3>2
  <2>6. c >= G /\ G >= D
    <3>1. 1 <= y + 1 <=> 1 * G <= (y + 1) * G
      BY <1>1, ProductMonotone
    <3>2. 1 <= M <=> 1 * D <= M * D
      BY <1>1, ProductMonotone
    <3>3. 1 * G = G /\ 1 * D = D
      BY <1>1
    <3> QED
      BY <1>1, <3>1, <3>2, <3>3
  <2> HIDE DEF a, c
  <2>7. CASE k + y < Q
    <3>1. left \in Nat /\ ~ (left <= 0) /\ left + D - 1 \in Nat /\ c <= left + D - 1
      BY <1>1, <2>2, <2>3, <2>4, <2>6, <2>7
    <3>2. N <= (left + D - 1) \div D
      BY <1>1, <2>2, <3>1, QuotientBound
    <3> QED
      BY <1>2, <2>1, <2>7, <3>1, <3>2 DEF N, y, M, Q
  <2>8. CASE RanksDropAlike /\ ~ (k + y < Q)
    <3>1. left \in Int /\ ~ (c <= left + D - 1)
      BY <1>1, <2>0, <2>2, <2>3, <2>5, <2>8
    <3>2. CASE left <= 0
      BY <1>2, <2>1, <2>2, <2>8, <3>2 DEF N, y, M, Q
    <3>3. CASE ~ (left <= 0)
      <4>1. left + D - 1 \in Nat
        BY <1>1, <3>1, <3>3
      <4>2. ~ (N <= (left + D - 1) \div D)
        BY <1>1, <2>2, <3>1, <4>1, QuotientBound
      <4> QED
        BY <1>2, <2>1, <2>8, <3>3, <4>2 DEF N, y, M, Q
    <3> QED
      BY <3>2, <3>3
  <2> QED
    BY <1>4, <2>7, <2>8 DEF y, Q
<1> QED
  BY <1>3, <1>4

(* An index the rank has left is one of the data set.                      *)
LEMMA IndexInside ==
  ASSUME NEW sharding, NEW r \in DPRanks, NEW o \in Nat, NEW j \in Nat,
         j < IndicesLeft(sharding, r, o)
  PROVE  IndexAt(sharding, r, o, j) \in 0 .. Total - 1
<1> DEFINE D == DataParallel
           B == BucketSize
           F == FullBucketSize
<1>1. /\ D \in Nat \ {0} /\ r \in 0 .. D - 1 /\ r \in Nat /\ B \in Nat /\ F \in Nat
      /\ Total \in Nat /\ MicroBatch \in Nat \ {0}
  BY EpochConstants, ActiveIsFull, SamplerAssumption DEF DPRanks
<1>2. F <= Total /\ B * D <= Total
  <2>1. /\ Total \div MicroBatch \in Nat /\ Total % MicroBatch \in Nat
        /\ Total = (Total \div MicroBatch) * MicroBatch + (Total % MicroBatch)
    BY <1>1, Quotients, Division
  <2>2. F = (Total \div MicroBatch) * MicroBatch
    BY DEF FullBucketSize
  <2>3. F <= Total
    BY <1>1, <2>1, <2>2
  <2>4. B * D = ActiveTotal
    <3>1. /\ B = EpochBatches * MicroBatch /\ EpochBatches \in Nat
          /\ ActiveTotal = EpochBatches * (MicroBatch * D)
      BY EpochConstants
    <3>2. (EpochBatches * MicroBatch) * D = EpochBatches * (MicroBatch * D)
      BY <1>1, <3>1
    <3> QED
      BY <3>1, <3>2
  <2> QED
    BY <1>1, <2>3, <2>4, ActiveIsFull, SamplerConstants
<1> HIDE DEF D, B, F
<1>3. CASE sharding
  <2>1. PICK q \in Nat : q = o \div D
    BY <1>1, Quotients
  <2>2. j < B - q
    BY <1>3, <2>1 DEF IndicesLeft, B, D
  <2>3. IndexAt(sharding, r, o, j) = r * B + q + j
    BY <1>3, <2>1 DEF IndexAt, B, D
  <2>4. r * B \in Nat /\ r * B + B <= D * B /\ D * B = B * D
    <3>1. r * B \in Nat /\ (r + 1) * B = r * B + B /\ D * B \in Nat /\ D * B = B * D
      BY <1>1
    <3>2. (r + 1) * B <= D * B
      <4>1. CASE B = 0
        BY <1>1, <4>1
      <4>2. CASE B # 0
        BY <1>1, <4>2, ProductMonotone
      <4> QED
        BY <4>1, <4>2
    <3> QED
      BY <3>1, <3>2
  <2> QED
    BY <1>1, <1>2, <2>2, <2>3, <2>4
<1>4. CASE ~ sharding
  <2> DEFINE left == F - o - r
  <2>1. j < IF left <= 0 THEN 0 ELSE (left + D - 1) \div D
    BY <1>4 DEF IndicesLeft, D, F
  <2>2. left \in Nat /\ left # 0 /\ j + 1 <= (left + D - 1) \div D
    <3>1. left \in Int /\ ~ (left <= 0)
      BY <1>1, <2>1
    <3>2. (left + D - 1) \div D \in Nat
      <4>1. left + D - 1 \in Nat
        BY <1>1, <3>1
      <4> QED
        BY <1>1, <4>1, Quotients
    <3> QED
      BY <2>1, <3>1, <3>2
  <2>3. (j + 1) * D <= left + D - 1
    BY <1>1, <2>2, QuotientBound
  <2>4. j * D \in Nat /\ (j + 1) * D = j * D + D
    BY <1>1
  <2>5. IndexAt(sharding, r, o, j) = o + r + j * D
    BY <1>4 DEF IndexAt, D
  <2> QED
    BY <1>1, <1>2, <2>3, <2>4, <2>5
<1> QED
  BY <1>3, <1>4

(* A batch is of samples of the data set: it is one the pass has left, or  *)
(* the first of a new pass, which has one.                                 *)
LEMMA BatchType ==
  ASSUME NEW sharding, NEW r \in DPRanks, NEW t \in Samplers
  PROVE  BatchOf(sharding, r, Turned(sharding, r, t)) \in SampleSets
<1> DEFINE s == Turned(sharding, r, t)
<1>1. s \in Samplers
  BY TurnedType
<1>2. HasBatch(sharding, r, s)
  <2>1. CASE HasBatch(sharding, r, t)
    BY <2>1 DEF Turned
  <2>2. CASE ~ HasBatch(sharding, r, t)
    <3>1. s = NewPass(t.consumed) /\ t.consumed \in Counts
      BY <2>2 DEF Turned, Samplers
    <3>2. PICK n \in Nat : t.consumed = n * GlobalMicro
      BY <3>1, CountsAre
    <3>3. PICK k \in Nat : At(s, n, k)
      BY <3>1, <3>2, NewPassFollows, EpochConstants, Quotients
    <3>4. k + s.yielded < EpochBatches
      BY <3>1, <3>3, EpochConstants DEF At, NewPass
    <3> HIDE DEF s
    <3> QED
      BY <1>1, <3>3, <3>4, HasBatchIs
  <2> QED
    BY <2>1, <2>2
<1> HIDE DEF s
<1>3. /\ s.epoch \in Nat /\ s.offset \in Nat /\ s.yielded \in Nat /\ s.yielded * MicroBatch \in Nat
      /\ (s.yielded + 1) * MicroBatch \in Nat
  BY <1>1, SamplerAssumption, Products DEF Samplers
<1>4. ASSUME NEW j \in s.yielded * MicroBatch .. (s.yielded + 1) * MicroBatch - 1
      PROVE  IndexAt(sharding, r, s.offset, j) \in 0 .. Total - 1
  <2>1. j \in Nat /\ j < (s.yielded + 1) * MicroBatch
    BY <1>3
  <2>2. IndicesLeft(sharding, r, s.offset) \in Int
    <3>1. /\ DataParallel \in Nat \ {0} /\ BucketSize \in Nat /\ FullBucketSize \in Nat /\ r \in Nat
          /\ s.offset \in Nat
      BY <1>3, EpochConstants, ActiveIsFull, SamplerConstants
    <3>2. s.offset \div DataParallel \in Nat
      BY <3>1, Quotients
    <3>3. ASSUME NEW l \in Int, ~ (l <= 0) PROVE (l + DataParallel - 1) \div DataParallel \in Nat
      <4>1. l + DataParallel - 1 \in Nat
        BY <3>1, <3>3
      <4> QED
        BY <3>1, <4>1, Quotients
    <3> QED
      BY <3>1, <3>2, <3>3 DEF IndicesLeft
  <2>3. (s.yielded + 1) * MicroBatch <= IndicesLeft(sharding, r, s.offset)
    BY <1>2 DEF HasBatch
  <2>4. j < IndicesLeft(sharding, r, s.offset)
    BY <1>3, <2>1, <2>2, <2>3
  <2> QED
    BY <1>3, <2>1, <2>4, IndexInside
<1>5. BatchOf(sharding, r, s) \in SampleSets
  BY <1>3, <1>4 DEF BatchOf, SampleSets
<1> QED
  BY <1>5 DEF s

(* The draws of a step, as the steps of a recursion.                       *)
Begun(r) == [sampler |-> sampler[r], got |-> {}]
OneMore(r, d) ==
  LET s == Turned(mode.sharding, r, d.sampler)
  IN  [sampler |-> Yielded(s), got |-> d.got \cup BatchOf(mode.sharding, r, s)]
Drawing(r, draw) ==
  /\ draw[0] = Begun(r)
  /\ \A n \in 1 .. NumMicro : draw[n] = OneMore(r, draw[n - 1])
  /\ Draws(r) = draw[NumMicro]

LEMMA DrawsAre == ASSUME NEW r PROVE \E draw : Drawing(r, draw)
<1> DEFINE B == Begun(r)
           Is(f, m) == f = [n \in 0 .. m |-> IF n = 0 THEN B ELSE OneMore(r, f[n - 1])]
           T == {m \in Nat : \E f : Is(f, m)}
           draw == CHOOSE f : Is(f, NumMicro)
<1>1. Draws(r) = draw[NumMicro]
  BY DEF Draws, Begun, OneMore
<1> HIDE DEF B
<1>3. 0 \in T
  <2> DEFINE f == [n \in 0 .. 0 |-> B]
  <2>1. Is(f, 0)
    OBVIOUS
  <2> HIDE DEF f, Is
  <2> QED
    BY <2>1
<1>4. ASSUME NEW m \in Nat, m \in T PROVE m + 1 \in T
  <2>1. PICK f : Is(f, m)
    BY <1>4
  <2> DEFINE g == [n \in 0 .. m + 1 |-> IF n = m + 1 THEN OneMore(r, f[m]) ELSE f[n]]
  <2>2. ASSUME NEW n \in 0 .. m + 1 PROVE g[n] = IF n = 0 THEN B ELSE OneMore(r, g[n - 1])
    <3>1. CASE n = m + 1
      BY <3>1
    <3>2. CASE n = 0
      BY <2>1, <3>2
    <3>3. CASE n \in 1 .. m
      BY <2>1, <3>3
    <3> QED
      BY <3>1, <3>2, <3>3
  <2>3. g = [n \in 0 .. m + 1 |-> g[n]]
    OBVIOUS
  <2>4. Is(g, m + 1)
    <3> HIDE DEF g
    <3> QED
      BY <2>2, <2>3
  <2> HIDE DEF g, Is
  <2> QED
    BY <2>4
<1>5. NumMicro \in T
  <2> HIDE DEF T
  <2>1. Nat \subseteq T
    BY <1>3, <1>4, Induction
  <2> QED
    BY <2>1, TrainerAssumption
<1>6. Is(draw, NumMicro)
  <2> HIDE DEF Is
  <2> QED
    BY <1>5
<1>7. draw[0] = B /\ \A n \in 1 .. NumMicro : draw[n] = OneMore(r, draw[n - 1])
  <2> HIDE DEF draw
  <2>1. NumMicro \in Nat
    BY TrainerAssumption
  <2> QED
    BY <1>6, <2>1
<1>8. Drawing(r, draw)
  <2> HIDE DEF draw
  <2> QED
    BY <1>1, <1>7 DEF Drawing, B
<1> HIDE DEF draw
<1> QED
  BY <1>8

(* A step draws NumMicro batches: by induction over them.                  *)
LEMMA DrawsType ==
  ASSUME sampler \in [DPRanks -> Samplers], NEW r \in DPRanks
  PROVE  Draws(r).sampler \in Samplers /\ Draws(r).got \in SampleSets
<1> DEFINE Drawn == [sampler : Samplers, got : SampleSets]
<1>1. PICK draw : Drawing(r, draw)
  BY DrawsAre
<1> DEFINE U == {m \in Nat : m <= NumMicro => draw[m] \in Drawn}
<1>2. 0 \in U
  BY <1>1 DEF Drawing, Begun, SampleSets
<1>3. ASSUME NEW d \in Drawn PROVE OneMore(r, d) \in Drawn
  <2> DEFINE s == Turned(mode.sharding, r, d.sampler)
  <2>1. s \in Samplers
    BY TurnedType
  <2>2. Yielded(s) \in Samplers /\ BatchOf(mode.sharding, r, s) \in SampleSets
    BY <2>1, YieldedType, BatchType DEF s
  <2>3. d.got \cup BatchOf(mode.sharding, r, s) \in SampleSets
    BY <2>2 DEF SampleSets
  <2> QED
    BY <2>2, <2>3 DEF OneMore
<1> HIDE DEF Drawn
<1>4. ASSUME NEW m \in Nat, m \in U PROVE m + 1 \in U
  <2> SUFFICES ASSUME m + 1 <= NumMicro PROVE draw[m + 1] \in Drawn
    OBVIOUS
  <2>1. m <= NumMicro /\ m + 1 \in 1 .. NumMicro /\ (m + 1) - 1 = m
    BY TrainerAssumption
  <2>2. draw[m] \in Drawn /\ draw[m + 1] = OneMore(r, draw[m])
    BY <1>1, <1>4, <2>1 DEF Drawing
  <2> QED
    BY <1>3, <2>2
<1> HIDE DEF U
<1>5. NumMicro \in U
  BY <1>2, <1>4, Induction, TrainerAssumption
<1>6. draw[NumMicro] \in Drawn
  BY <1>5, TrainerAssumption DEF U
<1> QED
  BY <1>1, <1>6 DEF Drawing, Drawn
-----------------------------------------------------------------------------
(* Greatest elements                                                       *)

LEMMA MaxOf ==
  ASSUME NEW n \in Nat, NEW S \in SUBSET (0 .. n), S # {}
  PROVE  Max(S) \in S /\ \A k \in S : Max(S) >= k
BY GreatestNatural DEF Max

(* A directory touched now is newer than every other.                      *)
LEMMA AfterIs ==
  ASSUME mtime \in [Iterations -> Nat], NEW i \in Iterations
  PROVE  /\ After(i) \in Nat \ {0}
         /\ \A j \in Iterations \ {i} : mtime[j] < After(i)
<1> DEFINE S == {mtime[j] : j \in Iterations \ {i}} \cup {0}
<1>1. PICK b \in Nat : \A j \in 1 .. TrainIters : mtime[j] <= b
  BY TrainerAssumption, ValuesBounded DEF Iterations
<1>2. \A k \in S : k \in 0 .. b
  BY <1>1 DEF Iterations
<1>3. Max(S) \in S /\ \A k \in S : Max(S) >= k
  <2>1. S \in SUBSET (0 .. b) /\ S # {}
    BY <1>2
  <2> HIDE DEF S
  <2> QED
    BY <2>1, MaxOf
<1>4. Max(S) \in Nat /\ After(i) = Max(S) + 1
  BY <1>2, <1>3 DEF After
<1>5. ASSUME NEW j \in Iterations \ {i} PROVE mtime[j] < After(i)
  <2>1. mtime[j] \in S /\ mtime[j] \in Nat
    OBVIOUS
  <2>2. Max(S) >= mtime[j]
    BY <1>3, <2>1
  <2> HIDE DEF S
  <2> QED
    BY <1>4, <2>1, <2>2
<1> HIDE DEF S
<1> QED
  BY <1>4, <1>5

LEMMA FinalisableIs ==
  ASSUME TypeOK
  PROVE  /\ Max(Finalisable) \in 0 .. Len(pending)
         /\ \A k \in 1 .. Max(Finalisable) : Landed(pending[k])
<1>1. Len(pending) \in Nat
  BY DEF TypeOK
<1>2. Finalisable \in SUBSET (0 .. Len(pending)) /\ 0 \in Finalisable
  BY <1>1 DEF Finalisable
<1>3. Max(Finalisable) \in Finalisable
  BY <1>1, <1>2, MaxOf
<1> QED
  BY <1>3 DEF Finalisable

(* Finalising the first saves in flight moves the link, if at all, to a    *)
(* later iteration, whose checkpoint is complete.                          *)
LEMMA FinaliseEffect ==
  ASSUME TypeOK, InFlight, LinkedIsComplete, phase = "step",
         NEW n \in 0 .. Len(pending), \A k \in 1 .. n : Landed(pending[k]),
         FinaliseFirst(n)
  PROVE  /\ link' \in 0 .. TrainIters
         /\ \/ link' = link
            \/ link < link' /\ link' <= iteration /\ mode.async
         /\ LinkIsKept /\ link' # NoIteration => parts[link'] = Parts
         /\ pending' \in Seq(1 .. iteration)
         /\ Len(pending') = Len(pending) - n
         /\ \A k \in DOMAIN pending' :
              k + n \in DOMAIN pending /\ pending'[k] = pending[k + n] /\ link' < pending'[k]
         /\ ~ mode.async => pending' = << >>
<1>1. /\ pending \in Seq(1 .. iteration) /\ Len(pending) \in Nat
      /\ DOMAIN pending = 1 .. Len(pending) /\ iteration \in 0 .. TrainIters
      /\ TrainIters \in Nat /\ link \in 0 .. TrainIters
      /\ parts \in [Iterations -> SUBSET Parts]
      /\ \A k \in DOMAIN pending : pending[k] \in 1 .. iteration
  BY TrainerAssumption DEF TypeOK
<1>n. Len(pending) \in Nat /\ n \in Nat /\ n <= Len(pending)
  BY DEF TypeOK
<1>2. /\ pending' \in Seq(1 .. iteration)
      /\ Len(pending') = Len(pending) - n
      /\ \A k \in 1 .. Len(pending) - n : pending'[k] = pending[k + n]
  <2> DEFINE m == n + 1
             l == Len(pending)
  <2>1. m \in Int /\ l \in Int /\ n <= l /\ \A i \in m .. l : pending[i] \in 1 .. iteration
    BY <1>1
  <2>2. pending' = SubSeq(pending, m, l)
    BY DEF FinaliseFirst
  <2>3. l - m + 1 = l - n /\ (m <= l \/ l - n = 0)
    BY <1>n
  <2>4. /\ SubSeq(pending, m, l) \in Seq(1 .. iteration)
        /\ Len(SubSeq(pending, m, l)) = IF m <= l THEN l - m + 1 ELSE 0
        /\ \A i \in 1 .. l - m + 1 : SubSeq(pending, m, l)[i] = pending[m + i - 1]
    <3> HIDE DEF m, l
    <3> QED
      BY <2>1, SubSeqProperties
  <2>5. \A k \in 1 .. l - n : m + k - 1 = k + n
    BY <1>n
  <2> HIDE DEF m, l
  <2>6. Len(pending') = l - n
    BY <1>n, <2>2, <2>3, <2>4 DEF l
  <2>7. \A k \in 1 .. l - n : pending'[k] = pending[k + n]
    BY <2>2, <2>3, <2>4, <2>5
  <2> QED
    BY <2>2, <2>4, <2>6, <2>7 DEF l
<1>e. ~ mode.async => pending' = << >>
  <2>1. ASSUME ~ mode.async PROVE Len(pending') = 0
    <3>1. Len(pending) = 0
      BY <2>1 DEF InFlight
    <3>2. Len(pending') = Len(pending) - n
      BY <1>2
    <3>3. n = 0
      BY <1>n, <3>1
    <3> QED
      BY <3>1, <3>2, <3>3
  <2> QED
    BY <1>2, <2>1, EmptySeq
<1>3. CASE link' = link
  <2>1. ASSUME NEW k \in DOMAIN pending'
        PROVE  k + n \in DOMAIN pending /\ pending'[k] = pending[k + n] /\ link' < pending'[k]
    <3>1. k \in 1 .. Len(pending) - n /\ k + n \in 1 .. Len(pending)
      BY <1>n, <1>2
    <3> QED
      BY <1>1, <1>2, <1>3, <3>1 DEF InFlight
  <2>2. link' \in 0 .. TrainIters /\ (LinkIsKept /\ link' # NoIteration => parts[link'] = Parts)
    BY <1>1, <1>3 DEF LinkedIsComplete, LinkNeverDangles
  <2> QED
    BY <1>e, <1>2, <1>3, <2>1, <2>2
<1>4. CASE \E m \in 1 .. n : link' = pending[m]
  <2>0. PICK m \in 1 .. n : link' = pending[m]
    BY <1>4
  <2>1. /\ m \in DOMAIN pending /\ Landed(pending[m])
        /\ link' \in 1 .. iteration /\ link < link'
    <3>1. m \in DOMAIN pending
      BY <1>n, <1>1
    <3> QED
      BY <1>1, <2>0, <3>1 DEF InFlight
  <2>2. parts[link'] = Parts
    <3>1. {"weights", "tracker", "safetensors"} \subseteq parts[pending[m]]
      BY <2>1 DEF InFlight, Landed
    <3>2. pending[m] \in Iterations
      BY <1>1, <2>1 DEF Iterations
    <3> QED
      BY <1>1, <2>0, <3>1, <3>2 DEF Parts
  <2>3. mode.async
    BY <1>1, <2>1 DEF InFlight
  <2>4. ASSUME NEW k \in DOMAIN pending'
        PROVE  k + n \in DOMAIN pending /\ pending'[k] = pending[k + n] /\ link' < pending'[k]
    <3>1. k \in 1 .. Len(pending) - n
      BY <1>n, <1>2
    <3>2. k + n \in DOMAIN pending /\ m < k + n
      BY <1>n, <1>1, <3>1
    <3> QED
      BY <1>2, <2>0, <2>1, <3>1, <3>2 DEF InFlight
  <2>5. link' \in 0 .. TrainIters /\ link' <= iteration
    BY <1>1, <2>1
  <2> QED
    BY <1>e, <1>2, <2>1, <2>2, <2>3, <2>4, <2>5
<1>5. link' = link \/ \E m \in 1 .. n : link' = pending[m]
  <2>1. CASE mode.linkFails
    BY <2>1 DEF FinaliseFirst, Linked
  <2>2. CASE ~ mode.linkFails
    BY <1>n, <2>2 DEF FinaliseFirst, Linked
  <2> QED
    BY <2>1, <2>2
<1> QED
  BY <1>3, <1>4, <1>5
-----------------------------------------------------------------------------
(* The invariant holds at the start                                        *)

LEMMA InitInv == Init => IInv
<1> SUFFICES ASSUME Init PROVE IInv
  OBVIOUS
<1>0. /\ TrainIters \in Nat \ {0} /\ MaxCrashes \in Nat
      /\ mode \in Modes /\ phase = "step" /\ iteration = 0 /\ link = 0 /\ pending = << >>
  BY TrainerAssumption DEF Init, NoIteration
<1>1. TypeOK
  <2>1. sampler \in [DPRanks -> Samplers]
    BY NewPassType, CountsAre DEF Init
  <2>2. saved \in [Iterations -> Snapshots]
    BY CountsAre DEF Init, Snapshots, Empty, SampleSets
  <2>3. best \in BestScores /\ bestDir \in 0 .. TrainIters
    BY <1>0 DEF Init, BestScores, NoScore, NoIteration
  <2>4. /\ mtime \in [Iterations -> Nat] /\ parts \in [Iterations -> SUBSET Parts]
        /\ \A i \in Iterations : mtime[i] = 0 => parts[i] = {}
        /\ trained \in SampleSets /\ consumed = 0 /\ argConsumed = 0 /\ crashes = 0
    BY DEF Init, SampleSets
  <2> QED
    BY <1>0, <2>1, <2>2, <2>3, <2>4, CountsAre DEF TypeOK, Phases
<1>2. Ahead /\ InFlight /\ Written /\ LinkedIsComplete
  BY <1>0 DEF Ahead, InFlight, Written, Saving, SavePhases, LinkedIsComplete, LinkNeverDangles, LinkIsKept, NoIteration
<1>3. Rotation
  <2>1. Dirs = {}
    BY DEF Init, Dirs
  <2>2. link + 1 .. iteration = {}
    BY <1>0
  <2> QED
    BY <1>0, <2>1, <2>2 DEF Rotation, Saving, SavePhases
<1>4. Best
  BY DEF Init, Best, NoScore
<1> QED
  BY <1>1, <1>2, <1>3, <1>4 DEF IInv

-----------------------------------------------------------------------------
(* The types                                                               *)

(* The process dies: its memory is that of a new one.                      *)
LEMMA DieTypes ==
  ASSUME TypeOK, Die
  PROVE  /\ iteration' = 0 /\ consumed' = 0 /\ argConsumed' = 0
         /\ sampler' \in [DPRanks -> Samplers] /\ trained' \in SampleSets
         /\ best' = NoScore /\ best' \in BestScores /\ bestDir' \in 0 .. TrainIters
         /\ phase' = "down" /\ pending' = << >> /\ crashes' \in 0 .. MaxCrashes
<1>1. sampler' \in [DPRanks -> Samplers]
  BY NewPassType, CountsAre DEF Die, Forget
<1>2. best' \in BestScores /\ bestDir' \in 0 .. TrainIters
  BY TrainerAssumption DEF Die, Forget, NoScore, NoIteration, BestScores
<1>3. crashes' \in 0 .. MaxCrashes
  BY TrainerAssumption DEF TypeOK, Die
<1> QED
  BY <1>1, <1>2, <1>3 DEF Die, Forget, SampleSets

LEMMA DieKeepsTypes ==
  ASSUME TypeOK, Die, UNCHANGED <<mode, saved, link>>,
         mtime' \in [Iterations -> Nat], parts' \in [Iterations -> SUBSET Parts],
         \A i \in Iterations : mtime'[i] = 0 => parts'[i] = {}
  PROVE  TypeOK'
<1>1. 0 \in 0 .. TrainIters /\ 0 \in Nat /\ << >> \in Seq(1 .. 0)
  BY TrainerAssumption
<1> QED
  BY <1>1, DieTypes, CountsAre DEF TypeOK, Phases

LEMMA TouchedIs ==
  ASSUME TypeOK, NEW i \in Iterations, NEW t \in Touched(i)
  PROVE  t \in Nat \ {0}
BY AfterIs DEF TypeOK, Touched

LEMMA LoadTypes == TypeOK /\ LoadCheckpoint /\ pending = << >> => TypeOK'
<1> SUFFICES ASSUME TypeOK, LoadCheckpoint, pending = << >> PROVE TypeOK'
  OBVIOUS
<1> DEFINE from == IF link = NoIteration THEN Empty ELSE saved[link]
<1>1. from.consumed \in Counts /\ from.trained \in SampleSets
  <2>1. CASE link = NoIteration
    BY <2>1, CountsAre DEF Empty, SampleSets
  <2>2. CASE link # NoIteration
    <3>1. saved[link] \in Snapshots
      BY <2>2 DEF TypeOK, NoIteration, Iterations
    <3> QED
      BY <2>2, <3>1 DEF Snapshots
  <2> QED
    BY <2>1, <2>2
<1>2. /\ iteration' = link /\ consumed' = from.consumed /\ argConsumed' = from.consumed
      /\ trained' = from.trained /\ sampler' = [r \in DPRanks |-> NewPass(from.consumed)]
      /\ best' = NoScore /\ bestDir' = NoIteration /\ phase' = "step"
      /\ UNCHANGED <<mode, mtime, parts, saved, link, pending, crashes>>
  BY DEF LoadCheckpoint, disk
<1> HIDE DEF from
<1>3. sampler' \in [DPRanks -> Samplers]
  BY <1>1, <1>2, NewPassType
<1>4. best' \in BestScores /\ bestDir' \in 0 .. TrainIters
  BY <1>2, TrainerAssumption DEF NoScore, NoIteration, BestScores
<1>5. pending' \in Seq(1 .. iteration')
  BY <1>2
<1> QED
  BY <1>1, <1>2, <1>3, <1>4, <1>5 DEF TypeOK, Phases

LEMMA TrainTypes ==
  ASSUME TypeOK, InFlight, LinkedIsComplete, TrainStep
  PROVE  TypeOK'
<1>1. link' \in 0 .. TrainIters /\ pending' \in Seq(1 .. iteration)
  BY FinalisableIs, FinaliseEffect DEF TrainStep
<1>2. iteration \in Nat /\ iteration' = iteration + 1 /\ iteration' \in 0 .. TrainIters
  BY TrainerAssumption DEF TypeOK, TrainStep, Unfinished
<1>3. pending' \in Seq(1 .. iteration')
  <2>1. 1 .. iteration \subseteq 1 .. iteration'
    BY <1>2
  <2> QED
    BY <1>1, <2>1, SeqMonotonic
<1>4. /\ sampler' = [r \in DPRanks |-> Draws(r).sampler]
      /\ trained' = trained \cup UNION {Draws(r).got : r \in DPRanks}
      /\ consumed' = consumed + GlobalBatch /\ phase' \in {"step", "score", "mkdir"}
      /\ UNCHANGED <<mode, argConsumed, best, bestDir, mtime, parts, saved, crashes>>
  BY DEF TrainStep
<1>5. \A r \in DPRanks : Draws(r).sampler \in Samplers /\ Draws(r).got \in SampleSets
  BY DrawsType DEF TypeOK
<1>6. trained' \in SampleSets
  <2>1. UNION {Draws(r).got : r \in DPRanks} \in SampleSets
    BY <1>5 DEF SampleSets
  <2> QED
    BY <1>4, <2>1 DEF TypeOK, SampleSets
<1>7. sampler' \in [DPRanks -> Samplers] /\ consumed' \in Counts
  BY <1>4, <1>5, CountsAdd DEF TypeOK
<1> QED
  BY <1>1, <1>2, <1>3, <1>4, <1>6, <1>7 DEF TypeOK, Phases

LEMMA FinalizeTypes ==
  ASSUME TypeOK, InFlight, LinkedIsComplete, FinalizeTraining
  PROVE  TypeOK'
<1>1. Len(pending) \in 0 .. Len(pending) /\ \A k \in 1 .. Len(pending) : Landed(pending[k])
  BY DEF TypeOK, FinalizeTraining, ToSet
<1>2. link' \in 0 .. TrainIters /\ pending' \in Seq(1 .. iteration)
  BY <1>1, FinaliseEffect DEF FinalizeTraining
<1>3. /\ phase' = "done"
      /\ UNCHANGED <<mode, iteration, consumed, argConsumed, sampler, trained, best, bestDir,
                     mtime, parts, saved, crashes>>
  BY DEF FinalizeTraining, memory
<1> QED
  BY <1>2, <1>3 DEF TypeOK, Phases

(* A score and the steps of a save.                                        *)
LEMMA SaveTypes ==
  ASSUME TypeOK, Ahead, Written,
         \/ \E score \in Scores : DetermineBest(score)
         \/ MakeDir \/ WriteWeights \/ WriteTracker \/ WriteSafetensors \/ UpdateLink
  PROVE  TypeOK'
<1>0. /\ iteration \in Nat /\ iteration \in 0 .. TrainIters /\ TrainIters \in Nat
      /\ (Saving => iteration \in Iterations)
  BY TrainerAssumption DEF TypeOK, Ahead, Iterations
<1>1. ASSUME NEW score \in Scores, DetermineBest(score) PROVE TypeOK'
  <2>1. best' \in BestScores
    BY <1>0, <1>1, TrainerAssumption DEF TypeOK, DetermineBest, BestScores
  <2>2. /\ phase' = "mkdir"
        /\ UNCHANGED <<mode, iteration, consumed, argConsumed, sampler, trained, bestDir,
                       mtime, parts, saved, link, pending, crashes>>
    BY <1>1 DEF DetermineBest, disk
  <2> QED
    BY <2>1, <2>2 DEF TypeOK, Phases
<1>2. CASE MakeDir
  <2>1. iteration \in Iterations
    BY <1>0, <1>2 DEF MakeDir, Saving, SavePhases
  <2>2. PICK t \in Touched(iteration) : mtime' = [mtime EXCEPT ![iteration] = t]
    BY <1>2 DEF MakeDir
  <2>3. t \in Nat \ {0}
    BY <2>1, TouchedIs
  <2>4. parts' = [parts EXCEPT ![iteration] = @ \cap {"tracker"}]
    BY <1>2 DEF MakeDir
  <2>5. /\ mtime' \in [Iterations -> Nat] /\ parts' \in [Iterations -> SUBSET Parts]
        /\ \A i \in Iterations : mtime'[i] = 0 => parts'[i] = {}
    BY <2>1, <2>2, <2>3, <2>4 DEF TypeOK
  <2>6. /\ phase' = "weights" /\ argConsumed' = consumed
        /\ UNCHANGED <<mode, iteration, consumed, sampler, trained, best, bestDir,
                       saved, link, pending, crashes>>
    BY <1>2 DEF MakeDir
  <2> QED
    BY <2>5, <2>6 DEF TypeOK, Phases
<1>3. ASSUME NEW P \in SUBSET Parts, phase \in {"weights", "tracker", "safetensors"},
             parts' = [parts EXCEPT ![iteration] = @ \cup P], mtime' = mtime
      PROVE  /\ parts' \in [Iterations -> SUBSET Parts]
             /\ \A i \in Iterations : mtime'[i] = 0 => parts'[i] = {}
  <2>1. iteration \in Iterations /\ mtime[iteration] # 0
    BY <1>0, <1>3 DEF Saving, SavePhases, Written, Dirs
  <2> QED
    BY <1>3, <2>1 DEF TypeOK
<1>4. CASE WriteWeights
  <2>1. /\ phase = "weights" /\ phase' = "tracker"
        /\ saved' = [saved EXCEPT ![iteration] = [consumed |-> argConsumed, trained |-> trained]]
        /\ parts' = IF mode.async THEN parts ELSE [parts EXCEPT ![iteration] = @ \cup {"weights"}]
        /\ UNCHANGED <<mode, iteration, consumed, argConsumed, sampler, trained, best, bestDir,
                       mtime, link, pending, crashes>>
    BY <1>4 DEF WriteWeights, memory
  <2>2. saved' \in [Iterations -> Snapshots]
    BY <2>1 DEF TypeOK, Snapshots
  <2>3. /\ parts' \in [Iterations -> SUBSET Parts]
        /\ \A i \in Iterations : mtime'[i] = 0 => parts'[i] = {}
    <3>1. CASE mode.async
      BY <2>1, <3>1 DEF TypeOK
    <3>2. CASE ~ mode.async
      BY <1>3, <2>1, <3>2 DEF Parts
    <3> QED
      BY <3>1, <3>2
  <2> QED
    BY <2>1, <2>2, <2>3 DEF TypeOK, Phases
<1>5. CASE WriteTracker
  <2>1. /\ phase = "tracker" /\ phase' = "safetensors"
        /\ parts' = [parts EXCEPT ![iteration] = @ \cup {"tracker"}]
        /\ pending' = IF mode.async THEN Append(pending, iteration) ELSE pending
        /\ UNCHANGED <<mode, iteration, consumed, argConsumed, sampler, trained, best, bestDir,
                       mtime, saved, link, crashes>>
    BY <1>5 DEF WriteTracker, memory
  <2>2. pending' \in Seq(1 .. iteration)
    <3>1. iteration \in 1 .. iteration /\ pending \in Seq(1 .. iteration)
      BY <1>0, <2>1 DEF TypeOK, Saving, SavePhases, Iterations
    <3> QED
      BY <2>1, <3>1, AppendProperties
  <2>3. /\ parts' \in [Iterations -> SUBSET Parts]
        /\ \A i \in Iterations : mtime'[i] = 0 => parts'[i] = {}
    BY <1>3, <2>1 DEF Parts
  <2> QED
    BY <2>1, <2>2, <2>3 DEF TypeOK, Phases
<1>6. CASE WriteSafetensors
  <2>1. /\ phase = "safetensors" /\ phase' = "link"
        /\ bestDir' = IF best.step \in Dirs THEN best.step ELSE bestDir
        /\ parts' = [parts EXCEPT ![iteration] = @ \cup {"safetensors"}]
        /\ UNCHANGED <<mode, iteration, consumed, argConsumed, sampler, trained, best,
                       mtime, saved, link, pending, crashes>>
    BY <1>6 DEF WriteSafetensors
  <2>2. bestDir' \in 0 .. TrainIters
    BY <2>1 DEF TypeOK, BestScores
  <2>3. /\ parts' \in [Iterations -> SUBSET Parts]
        /\ \A i \in Iterations : mtime'[i] = 0 => parts'[i] = {}
    BY <1>3, <2>1 DEF Parts
  <2> QED
    BY <2>1, <2>2, <2>3 DEF TypeOK, Phases
<1>7. CASE UpdateLink
  <2>1. /\ phase' = "rotate" /\ link' \in {link, iteration}
        /\ UNCHANGED <<mode, iteration, consumed, argConsumed, sampler, trained, best, bestDir,
                       mtime, parts, saved, pending, crashes>>
    BY <1>7 DEF UpdateLink, Linked, memory
  <2>2. link' \in 0 .. TrainIters
    BY <1>0, <2>1 DEF TypeOK
  <2> QED
    BY <2>1, <2>2 DEF TypeOK, Phases
<1> QED
  BY <1>1, <1>2, <1>4, <1>5, <1>6, <1>7

LEMMA TypesStep == IInv /\ [Next]_vars => TypeOK'
<1> SUFFICES ASSUME IInv, [Next]_vars PROVE TypeOK'
  OBVIOUS
<1>0. TypeOK /\ Ahead /\ InFlight /\ Written /\ LinkedIsComplete
  BY DEF IInv
<1>1. CASE LoadCheckpoint
  BY <1>0, <1>1, LoadTypes DEF Ahead, LoadCheckpoint
<1>2. CASE TrainStep
  BY <1>0, <1>2, TrainTypes
<1>3. CASE FinalizeTraining
  BY <1>0, <1>3, FinalizeTypes
<1>4. ASSUME NEW v \in Iterations, RemoveOldest(v) PROVE TypeOK'
  <2>1. /\ mtime' = [mtime EXCEPT ![v] = 0] /\ parts' = [parts EXCEPT ![v] = {}]
        /\ UNCHANGED <<mode, phase, iteration, consumed, argConsumed, sampler, trained, best, bestDir,
                       saved, link, pending, crashes>>
    BY <1>4 DEF RemoveOldest, memory
  <2>2. /\ mtime' \in [Iterations -> Nat] /\ parts' \in [Iterations -> SUBSET Parts]
        /\ \A i \in Iterations : mtime'[i] = 0 => parts'[i] = {}
    BY <1>0, <2>1 DEF TypeOK
  <2> QED
    BY <1>0, <2>1, <2>2 DEF TypeOK
<1>5. CASE EndRotation
  BY <1>0, <1>5 DEF EndRotation, TypeOK, Phases, memory, disk
<1>6. ASSUME NEW i \in Iterations, Land(i) PROVE TypeOK'
  <2>1. /\ parts' = [parts EXCEPT ![i] = @ \cup {"weights"}] /\ mtime[i] # 0
        /\ UNCHANGED <<mode, phase, iteration, consumed, argConsumed, sampler, trained, best, bestDir,
                       mtime, saved, link, pending, crashes>>
    <3>1. "tracker" \in parts[i]
      BY <1>6 DEF IInv, InFlight, Land, ToSet
    <3> QED
      BY <1>0, <1>6, <3>1 DEF Land, memory, TypeOK
  <2>2. /\ parts' \in [Iterations -> SUBSET Parts]
        /\ \A j \in Iterations : mtime'[j] = 0 => parts'[j] = {}
    BY <1>0, <2>1 DEF TypeOK, Parts
  <2> QED
    BY <1>0, <2>1, <2>2 DEF TypeOK
<1>7. ASSUME NEW v \in Iterations, CrashWhileRemoving(v) PROVE TypeOK'
  <2>1. After(v) \in Nat \ {0}
    BY <1>0, AfterIs DEF TypeOK
  <2>2. PICK left \in SUBSET parts[v] : parts' = [parts EXCEPT ![v] = left]
    BY <1>7 DEF CrashWhileRemoving
  <2>3. /\ mtime' = [mtime EXCEPT ![v] = After(v)] /\ Die /\ UNCHANGED <<mode, saved, link>>
    BY <1>7 DEF CrashWhileRemoving
  <2>4. /\ mtime' \in [Iterations -> Nat] /\ parts' \in [Iterations -> SUBSET Parts]
        /\ \A i \in Iterations : mtime'[i] = 0 => parts'[i] = {}
    BY <1>0, <2>1, <2>2, <2>3 DEF TypeOK
  <2> QED
    BY <1>0, <2>3, <2>4, DieKeepsTypes
<1>8. CASE ScoreNotANumber \/ Crash
  BY <1>0, <1>8, DieKeepsTypes DEF ScoreNotANumber, Crash, disk, TypeOK
<1>9. CASE UNCHANGED vars
  BY <1>0, <1>9 DEF vars, memory, disk, TypeOK
<1> QED
  BY <1>0, <1>1, <1>2, <1>3, <1>4, <1>5, <1>6, <1>7, <1>8, <1>9, SaveTypes DEF Next, Progress
-----------------------------------------------------------------------------
(* What the steps do to the disk and to the saves in flight                *)

LEMMA Ranges ==
  ASSUME TypeOK
  PROVE  /\ iteration \in Nat /\ iteration \in 0 .. TrainIters /\ link \in Nat /\ TrainIters \in Nat
         /\ pending \in Seq(1 .. iteration) /\ Len(pending) \in Nat /\ DOMAIN pending = 1 .. Len(pending)
         /\ \A k \in DOMAIN pending : pending[k] \in Nat /\ pending[k] <= iteration
                                      /\ pending[k] \in Iterations
         /\ (mode.limit > 0 => ~ mode.async /\ mode.limit >= 2) /\ mode.limit \in Nat
<1>1. /\ iteration \in Nat /\ iteration \in 0 .. TrainIters /\ link \in Nat /\ TrainIters \in Nat
      /\ pending \in Seq(1 .. iteration)
  BY TrainerAssumption DEF TypeOK
<1>2. Len(pending) \in Nat /\ DOMAIN pending = 1 .. Len(pending)
  BY <1>1
<1>3. \A k \in DOMAIN pending : pending[k] \in 1 .. iteration
  BY <1>1
<1>4. \A k \in DOMAIN pending : pending[k] \in Nat /\ pending[k] <= iteration /\ pending[k] \in Iterations
  BY <1>1, <1>3 DEF Iterations
<1>5. (mode.limit > 0 => ~ mode.async /\ mode.limit >= 2) /\ mode.limit \in Nat
  <2>1. mode \in Modes /\ TotalLimit \in Nat /\ TotalLimit >= 2
    BY TrainerAssumption DEF TypeOK
  <2>2. CASE mode \in [async : {TRUE}, limit : {0}, sharding : BOOLEAN, linkFails : BOOLEAN]
    <3>1. mode.limit = 0
      BY <2>2
    <3> QED
      BY <3>1
  <2>3. CASE mode \in [async : {FALSE}, limit : {0, TotalLimit}, sharding : BOOLEAN,
                             linkFails : BOOLEAN]
    <3>1. mode.async = FALSE /\ (mode.limit = 0 \/ mode.limit = TotalLimit)
      BY <2>3
    <3> QED
      BY <2>1, <3>1
  <2> QED
    BY <2>1, <2>2, <2>3 DEF Modes
<1> QED
  BY <1>1, <1>2, <1>4, <1>5, Zenon

LEMMA DieEffect ==
  ASSUME Die
  PROVE  phase' = "down" /\ iteration' = 0 /\ pending' = << >> /\ best' = NoScore
BY DEF Die, Forget

(* The end of a step finalises a beginning of what is in flight.           *)
Finalises(n) ==
  /\ link' \in 0 .. TrainIters
  /\ link' = link \/ (link < link' /\ link' <= iteration /\ mode.async)
  /\ LinkIsKept /\ link' # NoIteration => parts[link'] = Parts
  /\ \A k \in DOMAIN pending' :
       k + n \in DOMAIN pending /\ pending'[k] = pending[k + n] /\ link' < pending'[k]
  /\ ~ mode.async => pending' = << >>
  /\ UNCHANGED <<mode, mtime, parts, best, bestDir>>

LEMMA FinalisesFirst ==
  ASSUME IInv, TrainStep \/ FinalizeTraining
  PROVE  phase = "step" /\ \E n \in Nat : Finalises(n)
<1>0. TypeOK /\ InFlight /\ LinkedIsComplete /\ Len(pending) \in Nat
  BY Ranges DEF IInv
<1>1. PICK n \in 0 .. Len(pending) : FinaliseFirst(n) /\ \A k \in 1 .. n : Landed(pending[k])
  <2>1. CASE TrainStep
    BY <1>0, <2>1, FinalisableIs DEF TrainStep
  <2>2. CASE FinalizeTraining
    <3>1. \A k \in 1 .. Len(pending) : Landed(pending[k])
      BY <1>0, <2>2 DEF FinalizeTraining, ToSet, TypeOK
    <3> QED
      BY <1>0, <2>2, <3>1 DEF FinalizeTraining
  <2> QED
    BY <2>1, <2>2
<1>2. phase = "step" /\ UNCHANGED <<mode, mtime, parts, best, bestDir>>
  BY DEF TrainStep, FinalizeTraining, memory
<1>3. n \in Nat
  BY <1>0, <1>1
<1>4. Finalises(n)
  BY <1>0, <1>1, <1>2, FinaliseEffect DEF Finalises
<1> QED
  BY <1>2, <1>3, <1>4

(* A step of a save works on the directory of its own iteration.           *)
LEMMA WriteEffect ==
  ASSUME TypeOK, iteration \in Iterations, WriteWeights \/ WriteTracker \/ WriteSafetensors
  PROVE  /\ UNCHANGED <<mode, iteration, best, link, mtime>>
         /\ parts'[iteration] \subseteq Parts /\ parts[iteration] \subseteq parts'[iteration]
         /\ \A i \in Iterations \ {iteration} : parts'[i] = parts[i]
         /\ WriteWeights => /\ phase = "weights" /\ phase' = "tracker" /\ UNCHANGED <<pending, bestDir>>
                            /\ (~ mode.async => "weights" \in parts'[iteration])
         /\ WriteTracker => /\ phase = "tracker" /\ phase' = "safetensors" /\ bestDir' = bestDir
                            /\ pending' = IF mode.async THEN Append(pending, iteration) ELSE pending
                            /\ "tracker" \in parts'[iteration]
         /\ WriteSafetensors => /\ phase = "safetensors" /\ phase' = "link" /\ pending' = pending
                                /\ bestDir' = IF best.step \in Dirs THEN best.step ELSE bestDir
                                /\ "safetensors" \in parts'[iteration]
<1>1. parts \in [Iterations -> SUBSET Parts]
  BY DEF TypeOK
<1>2. CASE WriteWeights
  BY <1>1, <1>2 DEF WriteWeights, WriteTracker, WriteSafetensors, memory, Parts
<1>3. CASE WriteTracker
  BY <1>1, <1>3 DEF WriteWeights, WriteTracker, WriteSafetensors, memory, Parts
<1>4. CASE WriteSafetensors
  BY <1>1, <1>4 DEF WriteWeights, WriteTracker, WriteSafetensors, memory, Parts
<1> QED
  BY <1>2, <1>3, <1>4

LEMMA MakeDirEffect ==
  ASSUME TypeOK, iteration \in Iterations, MakeDir
  PROVE  /\ phase = "mkdir" /\ phase' = "weights"
         /\ UNCHANGED <<mode, iteration, best, bestDir, link, pending>>
         /\ mtime'[iteration] # 0 /\ \A i \in Iterations \ {iteration} : mtime'[i] = mtime[i]
         /\ \A i \in Iterations \ {iteration} : parts'[i] = parts[i]
         /\ Dirs' = Dirs \cup {iteration}
         /\ mode.limit > 0 =>
              \/ mtime'[iteration] = After(iteration)
              \/ mtime' = mtime /\ iteration \in Dirs
<1>1. PICK t \in Touched(iteration) : mtime' = [mtime EXCEPT ![iteration] = t]
  BY DEF MakeDir
<1>2. t \in Nat \ {0}
  BY <1>1, TouchedIs
<1>3. mtime \in [Iterations -> Nat] /\ parts \in [Iterations -> SUBSET Parts]
  BY DEF TypeOK
<1>4. mtime'[iteration] = t /\ \A i \in Iterations \ {iteration} : mtime'[i] = mtime[i]
  BY <1>1, <1>3
<1>5. \A i \in Iterations \ {iteration} : parts'[i] = parts[i]
  BY <1>3 DEF MakeDir
<1>6. Dirs' = Dirs \cup {iteration}
  BY <1>2, <1>4 DEF Dirs
<1>7. mode.limit > 0 => t = After(iteration) \/ (t = mtime[iteration] /\ t # 0)
  BY <1>1, <1>2 DEF Touched
<1>8. t = mtime[iteration] /\ t # 0 => mtime' = mtime /\ iteration \in Dirs
  BY <1>1, <1>3 DEF Dirs
<1> QED
  BY <1>2, <1>4, <1>5, <1>6, <1>7, <1>8 DEF MakeDir

(* A save under way is of an iteration of the run.                         *)
LEMMA SavedIteration ==
  ASSUME TypeOK, Ahead, Saving
  PROVE  iteration \in Iterations /\ iteration # link /\ link < iteration
BY Ranges DEF Ahead, Iterations

(* What the rotation removes is neither the best nor, where updates of the *)
(* link do not fail, what the link names.                                  *)
LEMMA OldestIsNotBest ==
  ASSUME IInv, Excess, NEW v, IsOldest(v)
  PROVE  /\ ~ mode.async /\ v # bestDir /\ v \in Dirs
         /\ LinkIsKept => ~ mode.linkFails
BY Ranges DEF IInv, Excess, IsOldest, LinkIsKept

LEMMA OldestIsOther ==
  ASSUME IInv, phase = "rotate", Excess, NEW v, IsOldest(v), LinkIsKept
  PROVE  /\ link = iteration /\ link \in Dirs /\ v # link
         /\ \A d \in Dirs : ~ (d > link)
<1>1. /\ TypeOK /\ mode.limit > 0 /\ mode.limit >= 2 /\ ~ mode.async
      /\ link = iteration /\ Newest(link) /\ link \in Dirs
      /\ \A d \in Dirs : d > link => Newest(d)
      /\ mode.limit \in Nat /\ link \in Nat
  BY Ranges, OldestIsNotBest DEF IInv, Excess, Rotation
<1>2. /\ link \in Dirs /\ link \in Iterations
      /\ mtime[link] # 0 /\ mtime \in [Iterations -> Nat]
  BY <1>1 DEF TypeOK, Dirs
<1>3. IsFiniteSet(Dirs) /\ Cardinality(Dirs) \in Nat /\ Cardinality(Dirs) > 2
  <2>1. IsFiniteSet(1 .. TrainIters) /\ Dirs \subseteq 1 .. TrainIters
    BY TrainerAssumption, FS_Interval DEF Dirs, Iterations
  <2>2. IsFiniteSet(Dirs)
    BY <2>1, FS_Subset
  <2>3. Cardinality(Dirs) \in Nat
    BY <2>2, FS_CardinalityType
  <2> QED
    BY <1>1, <2>2, <2>3 DEF Excess
<1>4. PICK d \in Dirs : d # bestDir /\ d # link
  <2> SUFFICES ASSUME Dirs \subseteq {bestDir, link} PROVE FALSE
    OBVIOUS
  <2>1. IsFiniteSet({bestDir}) /\ Cardinality({bestDir}) = 1
    BY FS_Singleton
  <2>2. {bestDir, link} = {bestDir} \cup {link}
    OBVIOUS
  <2>3. /\ IsFiniteSet({bestDir} \cup {link})
        /\ Cardinality({bestDir} \cup {link}) = IF link \in {bestDir} THEN 1 ELSE 1 + 1
    BY <2>1, FS_AddElement
  <2>4. Cardinality(Dirs) <= Cardinality({bestDir, link})
    BY <2>2, <2>3, FS_Subset
  <2> QED
    BY <1>3, <2>2, <2>3, <2>4
<1>5. v # link
  <2>1. mtime[d] < mtime[link] /\ mtime[d] \in Nat /\ mtime[link] \in Nat
    <3>1. d \in Iterations /\ link \in DOMAIN mtime
      BY <1>2, <1>4 DEF Dirs
    <3> QED
      BY <1>1, <1>2, <1>4, <3>1 DEF Newest
  <2>2. mtime[v] <= mtime[d]
    BY <1>4 DEF IsOldest
  <2> QED
    BY <2>1, <2>2
<1>6. ASSUME NEW e \in Dirs, e > link PROVE FALSE
  <2>1. Newest(e) /\ e # link /\ e \in Iterations
    BY <1>1, <1>6 DEF Dirs
  <2>2. link \in Dirs
    BY <1>2
  <2>3. mtime[link] < mtime[e] /\ mtime[e] < mtime[link]
    BY <1>1, <1>6, <2>1, <2>2 DEF Newest
  <2> QED
    BY <1>2, <2>1, <2>2, <2>3 DEF Dirs
<1> QED
  BY <1>1, <1>5, <1>6 DEF IsOldest
-----------------------------------------------------------------------------
(* The invariant is kept, action by action                                 *)

Kept == Ahead /\ InFlight /\ Written /\ Rotation /\ Best /\ LinkedIsComplete

(* Between the link and a save that comes next after it there is no other. *)
LEMMA NextSaveUnique ==
  ASSUME NEW i \in Iterations, NEW d \in Iterations, link \in Nat,
         NextSave(i), i > link, ShouldSave(d), d > link,
         \A j \in link + 1 .. d - 1 : ~ ShouldSave(j)
  PROVE  i = d
<1>1. i \in Nat /\ d \in Nat
  BY TrainerAssumption DEF Iterations
<1>2. ~ (i < d)
  BY <1>1 DEF NextSave
<1>3. ~ (d < i)
  BY <1>1 DEF NextSave
<1> QED
  BY <1>1, <1>2, <1>3

LEMMA LoadKeeps == IInv /\ LoadCheckpoint => Kept'
<1> SUFFICES ASSUME IInv, LoadCheckpoint PROVE Kept'
  OBVIOUS
<1>1. /\ phase = "down" /\ phase' = "step" /\ iteration' = link /\ best' = NoScore
      /\ UNCHANGED <<mode, mtime, parts, link, pending>>
  BY DEF LoadCheckpoint, disk
<1>2. pending = << >> /\ link \in Nat
  BY <1>1, Ranges DEF IInv, Ahead
<1>3. Ahead' /\ InFlight' /\ Written' /\ Best' /\ LinkedIsComplete'
  BY <1>1, <1>2 DEF IInv, Ahead, InFlight, Written, Best, LinkedIsComplete, LinkNeverDangles, LinkIsKept, Saving, SavePhases,
                    NoScore, NoIteration
<1>4. Rotation'
  <2>1. link + 1 .. link = {}
    BY <1>2
  <2> QED
    BY <1>1, <2>1 DEF IInv, Rotation, Saving, SavePhases, Dirs, Newest, NextSave
<1> QED
  BY <1>3, <1>4 DEF Kept

(* Whoever dies has no best score and no save in flight: what is left is   *)
(* on the disk.                                                            *)
LEMMA DieKeeps ==
  ASSUME IInv, Die, UNCHANGED <<mode, link>>,
         LinkIsKept /\ link # NoIteration => parts'[link] = parts[link],
         mode.limit > 0 /\ ~ mode.linkFails => \A d \in Dirs' : d > link => NextSave(d) /\ Newest(d)'
  PROVE  Kept'
<1>1. phase' = "down" /\ iteration' = 0 /\ pending' = << >> /\ best' = NoScore
  BY DieEffect
<1>2. Ahead' /\ InFlight' /\ Written' /\ Best' /\ LinkedIsComplete'
  BY <1>1 DEF IInv, Ahead, InFlight, Written, Best, LinkedIsComplete, LinkNeverDangles, LinkIsKept, Saving, SavePhases,
              NoScore, NoIteration
<1>3. Rotation'
  BY <1>1 DEF Rotation, Saving, SavePhases, NextSave
<1> QED
  BY <1>2, <1>3 DEF Kept

LEMMA CrashKeeps == IInv /\ (ScoreNotANumber \/ Crash) => Kept'
<1> SUFFICES ASSUME IInv, ScoreNotANumber \/ Crash PROVE Kept'
  OBVIOUS
<1>1. Die /\ UNCHANGED <<mode, mtime, parts, link>>
  BY DEF ScoreNotANumber, Crash, disk
<1>2. mode.limit > 0 /\ ~ mode.linkFails => \A d \in Dirs' : d > link => NextSave(d) /\ Newest(d)'
  BY <1>1 DEF IInv, Rotation, Newest, Dirs
<1> QED
  BY <1>1, <1>2, DieKeeps

LEMMA CrashWhileRemovingKeeps ==
  ASSUME IInv, NEW v \in Iterations, CrashWhileRemoving(v)
  PROVE  Kept'
<1>1. Die /\ UNCHANGED <<mode, link>> /\ mtime' = [mtime EXCEPT ![v] = After(v)]
  BY DEF CrashWhileRemoving
<1>2. v \in Dirs /\ (LinkIsKept => v # link /\ \A d \in Dirs : ~ (d > link))
  BY OldestIsOther, OldestIsNotBest DEF CrashWhileRemoving
<1>3. mtime \in [Iterations -> Nat] /\ parts \in [Iterations -> SUBSET Parts]
      /\ link \in 0 .. TrainIters
  BY DEF IInv, TypeOK
<1>4. Dirs' \subseteq Dirs
  BY <1>1, <1>2, <1>3 DEF Dirs
<1>5. LinkIsKept /\ link # NoIteration => parts'[link] = parts[link]
  BY <1>2, <1>3, TrainerAssumption DEF CrashWhileRemoving, NoIteration, Iterations
<1>6. ~ mode.linkFails => LinkIsKept
  BY DEF LinkIsKept
<1> QED
  BY <1>1, <1>2, <1>4, <1>5, <1>6, DieKeeps

LEMMA TrainKeeps == IInv /\ TrainStep => Kept'
<1> SUFFICES ASSUME IInv, TrainStep PROVE Kept'
  OBVIOUS
<1>1. PICK n \in Nat : Finalises(n) /\ phase = "step"
  BY FinalisesFirst
<1>2. /\ iteration' = iteration + 1 /\ iteration < TrainIters
      /\ phase' \in {"step", "score", "mkdir"}
      /\ phase' = "step" <=> ~ ShouldSave(iteration')
  BY DEF TrainStep, Unfinished
<1>3. /\ iteration \in Nat /\ link \in Nat /\ link' \in Nat /\ link <= iteration
      /\ link' <= iteration
  BY <1>1, Ranges DEF IInv, Ahead, Finalises
<1>4. Ahead'
  BY <1>1, <1>2, <1>3 DEF Ahead, Saving, SavePhases
<1>5. InFlight'
  <2>1. \A k \in DOMAIN pending' :
          /\ k + n \in DOMAIN pending /\ pending'[k] = pending[k + n] /\ link' < pending'[k]
          /\ pending'[k] <= iteration /\ pending'[k] \in Nat
    BY <1>1, Ranges DEF Finalises, IInv
  <2>2. \A j, k \in DOMAIN pending' : j < k => pending'[j] < pending'[k]
    <3> SUFFICES ASSUME NEW j \in DOMAIN pending', NEW k \in DOMAIN pending', j < k
                 PROVE  pending'[j] < pending'[k]
      OBVIOUS
    <3>1. j \in Nat /\ k \in Nat
      BY TypesStep DEF TypeOK, Next, Progress
    <3>2. j + n < k + n
      BY <3>1
    <3> QED
      BY <2>1, <3>2 DEF IInv, InFlight
  <2>3. \A k \in DOMAIN pending' :
          "tracker" \in parts'[pending'[k]] /\ "safetensors" \in parts'[pending'[k]]
    BY <1>1, <2>1 DEF IInv, InFlight, Finalises
  <2>4. \A k \in DOMAIN pending' : pending'[k] < iteration'
    BY <1>2, <1>3, <2>1
  <2>5. ~ mode'.async => pending' = << >>
    BY <1>1 DEF Finalises
  <2> QED
    BY <2>1, <2>2, <2>3, <2>4, <2>5 DEF InFlight
<1>6. Written'
  BY <1>2 DEF Written
<1>7. Rotation'
  <2> SUFFICES ASSUME mode.limit > 0, ~ mode.linkFails PROVE Rotation'
    BY <1>1 DEF Rotation, Finalises
  <2>1. link' = link /\ mtime' = mtime /\ \A j \in link + 1 .. iteration : ~ ShouldSave(j)
    BY <1>1, Ranges DEF IInv, Finalises, Rotation
  <2>2. phase' # "step" =>
          ShouldSave(iteration') /\ \A j \in link' + 1 .. iteration' - 1 : ~ ShouldSave(j)
    BY <1>2, <1>3, <2>1
  <2>3. phase' = "step" => \A j \in link' + 1 .. iteration' : ~ ShouldSave(j)
    BY <1>2, <1>3, <2>1
  <2>4. \A d \in Dirs' : d > link' => NextSave(d)' /\ Newest(d)'
    BY <2>1 DEF IInv, Rotation, NextSave, Newest, Dirs
  <2> QED
    BY <1>2, <2>2, <2>3, <2>4 DEF Rotation, Saving, SavePhases, NextSave
<1>8. Best'
  <2> SUFFICES ASSUME best.step # NoIteration PROVE Best'
    BY <1>1 DEF Best, Finalises
  <2>1. /\ best' = best /\ bestDir' = bestDir /\ mtime' = mtime /\ parts' = parts /\ mode' = mode
        /\ best.step <= iteration /\ best.step \in Dirs /\ bestDir = best.step
        /\ ~ mode.async => parts[best.step] = Parts
    BY <1>1 DEF IInv, Best, Finalises
  <2>2. best.step < iteration' /\ best.step <= iteration'
    BY <1>2, <1>3, <2>1 DEF IInv, TypeOK, BestScores
  <2> QED
    BY <2>1, <2>2 DEF Best, Dirs
<1>9. LinkedIsComplete'
  BY <1>1 DEF LinkedIsComplete, LinkNeverDangles, LinkIsKept, Finalises
<1> QED
  BY <1>4, <1>5, <1>6, <1>7, <1>8, <1>9 DEF Kept
LEMMA FinalizeKeeps == IInv /\ FinalizeTraining => Kept'
<1> SUFFICES ASSUME IInv, FinalizeTraining PROVE Kept'
  OBVIOUS
<1>1. PICK n \in Nat : Finalises(n) /\ phase = "step"
  BY FinalisesFirst
<1>2. iteration' = iteration /\ phase' = "done"
  BY DEF FinalizeTraining, memory
<1>3. iteration \in Nat /\ link \in Nat /\ link' \in Nat /\ link' <= iteration
  BY <1>1, Ranges DEF IInv, Ahead, Finalises
<1>4. Ahead' /\ Written' /\ LinkedIsComplete'
  BY <1>1, <1>2, <1>3 DEF Ahead, Written, LinkedIsComplete, LinkNeverDangles, LinkIsKept, Finalises, Saving, SavePhases
<1>5. InFlight'
  <2>1. \A k \in DOMAIN pending' :
          k + n \in DOMAIN pending /\ pending'[k] = pending[k + n] /\ link' < pending'[k]
    BY <1>1 DEF Finalises
  <2>2. \A j, k \in DOMAIN pending' : j < k => pending'[j] < pending'[k]
    <3> SUFFICES ASSUME NEW j \in DOMAIN pending', NEW k \in DOMAIN pending', j < k
                 PROVE  pending'[j] < pending'[k]
      OBVIOUS
    <3>1. j \in Nat /\ k \in Nat
      BY TypesStep DEF TypeOK, Next, Progress
    <3>2. j + n < k + n
      BY <3>1
    <3> QED
      BY <2>1, <3>2 DEF IInv, InFlight
  <2>3. \A k \in DOMAIN pending' :
          "tracker" \in parts'[pending'[k]] /\ "safetensors" \in parts'[pending'[k]]
    BY <1>1, <2>1 DEF IInv, InFlight, Finalises
  <2>4. ~ mode'.async => pending' = << >>
    BY <1>1 DEF Finalises
  <2> QED
    BY <1>2, <2>1, <2>2, <2>3, <2>4 DEF InFlight
<1>6. Rotation'
  <2> SUFFICES ASSUME mode.limit > 0, ~ mode.linkFails PROVE Rotation'
    BY <1>1 DEF Rotation, Finalises
  <2>1. link' = link /\ mtime' = mtime
    BY <1>1, Ranges DEF IInv, Finalises
  <2>2. \A d \in Dirs' : d > link' => NextSave(d)' /\ Newest(d)'
    BY <2>1 DEF IInv, Rotation, NextSave, Newest, Dirs
  <2> QED
    BY <1>2, <2>2 DEF Rotation, Saving, SavePhases
<1>7. Best'
  <2> SUFFICES ASSUME best.step # NoIteration PROVE Best'
    BY <1>1 DEF Best, Finalises
  <2>1. /\ best' = best /\ bestDir' = bestDir /\ mtime' = mtime /\ parts' = parts /\ mode' = mode
        /\ best.step <= iteration /\ best.step \in Dirs /\ bestDir = best.step
        /\ ~ mode.async => parts[best.step] = Parts
    BY <1>1 DEF IInv, Best, Finalises
  <2> QED
    BY <1>2, <2>1 DEF Best, Dirs
<1> QED
  BY <1>4, <1>5, <1>6, <1>7 DEF Kept

LEMMA ScoreKeeps ==
  ASSUME IInv, NEW score \in Scores, DetermineBest(score)
  PROVE  Kept'
<1>1. /\ phase = "score" /\ phase' = "mkdir"
      /\ best' = best \/ best' = [metric |-> score, step |-> iteration]
      /\ UNCHANGED <<mode, iteration, bestDir, mtime, parts, link, pending>>
  BY DEF DetermineBest, disk
<1>2. Ahead' /\ Written' /\ LinkedIsComplete' /\ InFlight'
  BY <1>1 DEF IInv, Ahead, Written, LinkedIsComplete, LinkNeverDangles, LinkIsKept, InFlight, Saving, SavePhases
<1>3. Rotation'
  <2>1. Dirs' = Dirs /\ \A d : Newest(d)' <=> Newest(d)
    BY <1>1 DEF Dirs, Newest
  <2> QED
    BY <1>1, <2>1 DEF IInv, Rotation, Saving, SavePhases, NextSave
<1>4. Best'
  <2>1. iteration \in Nat /\ Dirs' = Dirs
    BY <1>1, Ranges DEF IInv, Dirs
  <2>2. CASE best' = best
    BY <1>1, <2>1, <2>2 DEF IInv, Best
  <2>3. CASE best'.step = iteration
    BY <1>1, <2>1, <2>3 DEF Best
  <2> QED
    BY <1>1, <2>2, <2>3
<1> QED
  BY <1>2, <1>3, <1>4 DEF Kept

LEMMA MakeDirKeeps == IInv /\ MakeDir => Kept'
<1> SUFFICES ASSUME IInv, MakeDir PROVE Kept'
  OBVIOUS
<1>1. /\ iteration \in Iterations /\ iteration # link /\ link < iteration
      /\ iteration \in Nat /\ link \in Nat
  BY SavedIteration, Ranges DEF IInv, MakeDir, Saving, SavePhases
<1>2. /\ phase = "mkdir" /\ phase' = "weights"
      /\ UNCHANGED <<mode, iteration, best, bestDir, link, pending>>
      /\ \A i \in Iterations \ {iteration} : mtime'[i] = mtime[i] /\ parts'[i] = parts[i]
      /\ Dirs' = Dirs \cup {iteration}
  BY <1>1, MakeDirEffect DEF IInv
<1>3. Ahead' /\ Written'
  BY <1>2 DEF IInv, Ahead, Written, Saving, SavePhases
<1>4. LinkedIsComplete'
  <2>1. link # NoIteration => link \in Iterations
    BY DEF IInv, TypeOK, NoIteration, Iterations
  <2> QED
    BY <1>1, <1>2, <2>1 DEF IInv, LinkedIsComplete, LinkNeverDangles, LinkIsKept
<1>5. InFlight'
  <2>1. \A k \in DOMAIN pending : pending[k] \in Iterations \ {iteration}
    BY <1>1, <1>2, Ranges DEF IInv, InFlight
  <2>2. \A k \in DOMAIN pending : parts'[pending[k]] = parts[pending[k]]
    BY <1>2, <2>1
  <2> QED
    BY <1>2, <2>2 DEF IInv, InFlight
<1>6. Rotation'
  <2> SUFFICES ASSUME mode.limit > 0, ~ mode.linkFails PROVE Rotation'
    BY <1>2 DEF Rotation
  <2>1. NextSave(iteration)
    BY <1>2 DEF IInv, Rotation, Saving, SavePhases
  <2>2. mtime'[iteration] = After(iteration) \/ (mtime' = mtime /\ iteration \in Dirs)
    BY <1>1, MakeDirEffect DEF IInv
  <2>3. ASSUME NEW d \in Dirs', d > link PROVE NextSave(d) /\ Newest(d)'
    <3>1. CASE mtime' = mtime /\ iteration \in Dirs
      BY <1>2, <2>3, <3>1 DEF IInv, Rotation, Newest
    <3>2. CASE mtime'[iteration] = After(iteration)
      <4>1. d = iteration
        <5>1. CASE d \in Dirs
          <6>1. d \in Iterations /\ NextSave(d)
            BY <2>3, <5>1 DEF IInv, Rotation, Dirs
          <6> QED
            BY <1>1, <2>1, <2>3, <6>1, NextSaveUnique DEF NextSave
        <5> QED
          BY <1>2, <5>1
      <4>2. \A e \in Iterations \ {iteration} : mtime'[e] < mtime'[iteration]
        BY <1>1, <1>2, <3>2, AfterIs DEF IInv, TypeOK
      <4> QED
        BY <2>1, <4>1, <4>2 DEF Newest, Dirs
    <3> QED
      BY <2>2, <3>1, <3>2
  <2>4. \A d : NextSave(d)' <=> NextSave(d)
    BY <1>2 DEF NextSave
  <2>5. NextSave(iteration)'
    BY <1>2, <2>1 DEF NextSave
  <2> QED
    BY <1>2, <2>3, <2>4, <2>5 DEF Rotation
<1>7. Best'
  <2> SUFFICES ASSUME best.step # NoIteration PROVE Best'
    BY <1>2 DEF Best
  <2>1. best.step <= iteration /\ best.step \in Nat
    BY DEF IInv, Best, TypeOK, BestScores
  <2>2. best.step \in Dirs'
    BY <1>2 DEF IInv, Best
  <2>3. ASSUME ~ mode.async, best.step < iteration PROVE parts'[best.step] = Parts
    <3>1. best.step \in Iterations \ {iteration}
      BY <1>1, <2>1, <2>2, <2>3 DEF Dirs
    <3> QED
      BY <1>2, <2>3, <3>1 DEF IInv, Best
  <2> QED
    BY <1>2, <2>1, <2>2, <2>3 DEF Best
<1> QED
  BY <1>3, <1>4, <1>5, <1>6, <1>7 DEF Kept
(* Writing touches neither the times nor the link, and takes nothing away. *)
LEMMA WritesKeep == IInv /\ (WriteWeights \/ WriteTracker \/ WriteSafetensors) => Kept'
<1> SUFFICES ASSUME IInv, WriteWeights \/ WriteTracker \/ WriteSafetensors PROVE Kept'
  OBVIOUS
<1>0. phase \in {"weights", "tracker", "safetensors"}
  BY DEF WriteWeights, WriteTracker, WriteSafetensors
<1>1. /\ iteration \in Iterations /\ iteration # link /\ link < iteration
      /\ iteration \in Nat /\ link \in Nat
  BY <1>0, SavedIteration, Ranges DEF IInv, Saving, SavePhases
<1>2. /\ UNCHANGED <<mode, iteration, best, link, mtime>>
      /\ parts'[iteration] \subseteq Parts /\ parts[iteration] \subseteq parts'[iteration]
      /\ \A i \in Iterations \ {iteration} : parts'[i] = parts[i]
      /\ \A i \in Iterations : parts[i] \subseteq parts'[i]
  <2>1. /\ UNCHANGED <<mode, iteration, best, link, mtime>>
        /\ parts'[iteration] \subseteq Parts /\ parts[iteration] \subseteq parts'[iteration]
        /\ \A i \in Iterations \ {iteration} : parts'[i] = parts[i]
    BY <1>1, WriteEffect DEF IInv
  <2> QED
    BY <2>1
<1>3. Dirs' = Dirs /\ \A d : (Newest(d)' <=> Newest(d)) /\ (NextSave(d)' <=> NextSave(d))
  BY <1>2 DEF Dirs, Newest, NextSave
<1>4. LinkedIsComplete'
  <2>1. link # NoIteration => link \in Iterations
    BY DEF IInv, TypeOK, NoIteration, Iterations
  <2> QED
    BY <1>1, <1>2, <2>1 DEF IInv, LinkedIsComplete, LinkNeverDangles, LinkIsKept
<1>5. phase' \in {"tracker", "safetensors", "link"}
  BY <1>1, WriteEffect DEF IInv
<1>6. Ahead' /\ Rotation'
  <2>1. Ahead'
    BY <1>1, <1>2, <1>5 DEF Ahead, Saving, SavePhases
  <2>2. Rotation'
    BY <1>0, <1>2, <1>3, <1>5 DEF IInv, Rotation, Saving, SavePhases
  <2> QED
    BY <2>1, <2>2
<1>7. Written'
  <2>1. CASE WriteWeights
    BY <1>1, <1>2, <1>3, <2>1, WriteEffect DEF IInv, Written
  <2>2. CASE WriteTracker
    BY <1>1, <1>2, <1>3, <2>2, WriteEffect DEF IInv, Written
  <2>3. CASE WriteSafetensors
    BY <1>1, <1>2, <1>3, <2>3, WriteEffect DEF IInv, Written
  <2> QED
    BY <2>1, <2>2, <2>3
<1>8. Best'
  <2> SUFFICES ASSUME best.step # NoIteration PROVE Best'
    BY <1>2 DEF Best
  <2>1. best.step <= iteration /\ best.step \in Nat /\ best.step \in Dirs
    BY <1>0 DEF IInv, Best, TypeOK, BestScores
  <2>2. ASSUME ~ mode.async, best.step < iteration PROVE parts'[best.step] = Parts
    <3>1. best.step \in Iterations \ {iteration}
      BY <1>1, <2>1, <2>2 DEF Dirs
    <3> QED
      BY <1>2, <2>2, <3>1 DEF IInv, Best
  <2>3. phase' = "link" => bestDir' = best.step
    BY <1>1, <2>1, WriteEffect DEF IInv
  <2> QED
    BY <1>2, <1>3, <1>5, <2>1, <2>2, <2>3 DEF Best
<1>9. InFlight'
  <2>0. \A k \in DOMAIN pending : /\ pending[k] \in Iterations /\ link < pending[k]
                                  /\ "tracker" \in parts'[pending[k]]
                                  /\ "safetensors" \in parts[pending[k]]
                                       => "safetensors" \in parts'[pending[k]]
    BY <1>2, Ranges DEF IInv, InFlight
  <2>1. CASE WriteWeights
    BY <1>1, <1>2, <2>0, <2>1, WriteEffect DEF IInv, InFlight
  <2>2. CASE WriteSafetensors
    BY <1>1, <1>2, <2>0, <2>2, WriteEffect DEF IInv, InFlight
  <2>3. CASE WriteTracker
    <3>1. /\ phase = "tracker" /\ phase' = "safetensors" /\ "tracker" \in parts'[iteration]
          /\ pending' = IF mode.async THEN Append(pending, iteration) ELSE pending
      BY <1>1, <2>3, WriteEffect DEF IInv
    <3>2. CASE ~ mode.async
      BY <1>2, <3>1, <3>2 DEF IInv, InFlight
    <3>3. CASE mode.async
      <4>1. /\ Len(pending) \in Nat /\ Len(pending') = Len(pending) + 1
            /\ DOMAIN pending' = 1 .. Len(pending')
            /\ pending'[Len(pending) + 1] = iteration
            /\ \A k \in 1 .. Len(pending) : pending'[k] = pending[k]
        <5>1. pending \in Seq(1 .. iteration) /\ iteration \in 1 .. iteration
          BY <1>1, Ranges DEF IInv, Iterations
        <5> QED
          BY <3>1, <3>3, <5>1, AppendProperties
      <4>2. \A k \in 1 .. Len(pending) :
              /\ pending[k] < iteration /\ link < pending[k] /\ "tracker" \in parts'[pending[k]]
              /\ "safetensors" \in parts'[pending[k]]
        <5>1. DOMAIN pending = 1 .. Len(pending)
          BY Ranges DEF IInv
        <5>2. \A k \in DOMAIN pending : pending[k] < iteration /\ pending[k] # iteration
          BY <1>1, <3>1, Ranges DEF IInv, InFlight
        <5> QED
          BY <2>0, <3>1, <5>1, <5>2 DEF IInv, InFlight
      <4>3. ASSUME NEW k \in DOMAIN pending'
            PROVE  /\ link < pending'[k] /\ "tracker" \in parts'[pending'[k]]
                   /\ "safetensors" \in parts'[pending'[k]] \/ pending'[k] = iteration
        <5>1. CASE k = Len(pending) + 1
          BY <1>1, <3>1, <4>1, <5>1
        <5>2. CASE k \in 1 .. Len(pending)
          BY <4>1, <4>2, <5>2
        <5> QED
          BY <4>1, <5>1, <5>2
      <4>4. ASSUME NEW j \in DOMAIN pending', NEW k \in DOMAIN pending', j < k
            PROVE  pending'[j] < pending'[k]
        <5>1. j \in 1 .. Len(pending) /\ pending'[j] = pending[j]
          BY <4>1, <4>4
        <5>2. CASE k = Len(pending) + 1
          BY <4>1, <4>2, <5>1, <5>2
        <5>3. CASE k \in 1 .. Len(pending)
          <6>1. pending'[k] = pending[k] /\ DOMAIN pending = 1 .. Len(pending)
            BY <4>1, <5>3, Ranges DEF IInv
          <6> QED
            BY <4>4, <5>1, <5>3, <6>1 DEF IInv, InFlight
        <5> QED
          BY <4>1, <5>2, <5>3
      <4> QED
        BY <1>2, <3>1, <3>3, <4>3, <4>4 DEF InFlight
    <3> QED
      BY <3>2, <3>3
  <2> QED
    BY <2>1, <2>2, <2>3
<1> QED
  BY <1>4, <1>6, <1>7, <1>8, <1>9 DEF Kept

LEMMA UpdateLinkKeeps == IInv /\ UpdateLink => Kept'
<1> SUFFICES ASSUME IInv, UpdateLink PROVE Kept'
  OBVIOUS
<1>1. /\ phase = "link" /\ phase' = "rotate" /\ (link' = link \/ (link' = iteration /\ ~ mode.async))
      /\ ~ mode.async /\ ~ mode.linkFails => link' = iteration
      /\ UNCHANGED <<mode, iteration, best, bestDir, mtime, parts, pending>>
  BY DEF UpdateLink, Linked, memory
<1>2. /\ iteration \in Iterations /\ link < iteration /\ iteration \in Nat /\ link \in Nat
      /\ link' <= iteration
  BY <1>1, SavedIteration, Ranges DEF IInv, Saving, SavePhases
<1>3. ~ mode.async => parts[iteration] = Parts
  BY <1>1, <1>2 DEF IInv, Written, TypeOK, Parts
<1>4. Ahead' /\ LinkedIsComplete' /\ Written'
  BY <1>1, <1>2, <1>3 DEF IInv, Ahead, LinkedIsComplete, LinkNeverDangles, LinkIsKept, Written, Saving, SavePhases, Dirs
<1>5. InFlight'
  <2>1. CASE mode.async
    BY <1>1, <2>1 DEF IInv, InFlight
  <2>2. CASE ~ mode.async
    BY <1>1, <2>2 DEF IInv, InFlight
  <2> QED
    BY <2>1, <2>2
<1>6. Rotation'
  <2> SUFFICES ASSUME mode.limit > 0, ~ mode.linkFails PROVE Rotation'
    BY <1>1 DEF Rotation
  <2>1. link' = iteration /\ iteration \in Dirs /\ iteration > link /\ Dirs' = Dirs
    BY <1>1, <1>2, Ranges DEF IInv, Written, Dirs
  <2>2. NextSave(iteration) /\ Newest(iteration) /\ Newest(link)'
    BY <1>1, <2>1 DEF IInv, Rotation, Newest
  <2>3. ASSUME NEW d \in Dirs, d > iteration PROVE FALSE
    <3>1. d > link /\ d \in Nat
      BY <1>2, <2>3 DEF Dirs, Iterations
    <3>2. iteration \in link + 1 .. d - 1
      BY <1>2, <2>3, <3>1
    <3> QED
      BY <2>2, <3>1, <3>2 DEF IInv, Rotation, NextSave
  <2> QED
    BY <1>1, <2>1, <2>2, <2>3 DEF Rotation, Saving, SavePhases
<1>7. Best'
  <2>1. best.step # NoIteration /\ ~ mode.async => parts[best.step] = Parts
    <3>1. best.step # NoIteration => best.step <= iteration /\ best.step \in Nat
      BY DEF IInv, Best, TypeOK, BestScores
    <3> QED
      BY <1>2, <1>3, <3>1 DEF IInv, Best
  <2> QED
    BY <1>1, <2>1 DEF IInv, Best, Dirs
<1> QED
  BY <1>4, <1>5, <1>6, <1>7 DEF Kept

LEMMA RemoveKeeps ==
  ASSUME IInv, NEW v \in Iterations, RemoveOldest(v)
  PROVE  Kept'
<1>1. /\ phase = "rotate" /\ Excess /\ IsOldest(v)
      /\ mtime' = [mtime EXCEPT ![v] = 0] /\ parts' = [parts EXCEPT ![v] = {}]
      /\ UNCHANGED <<mode, phase, iteration, best, bestDir, link, pending>>
  BY DEF RemoveOldest, memory
<1>2. /\ ~ mode.async /\ v # bestDir
      /\ LinkIsKept => /\ link = iteration /\ link \in Dirs /\ v # link
                       /\ \A d \in Dirs : ~ (d > link)
  BY <1>1, OldestIsOther, OldestIsNotBest
<1>3. mtime \in [Iterations -> Nat] /\ parts \in [Iterations -> SUBSET Parts]
  BY DEF IInv, TypeOK
<1>4. /\ \A i \in Iterations \ {v} : mtime'[i] = mtime[i] /\ parts'[i] = parts[i]
      /\ Dirs' = Dirs \ {v}
  BY <1>1, <1>3 DEF Dirs
<1>5. pending = << >> /\ (LinkIsKept => link \in Iterations)
  BY <1>1, <1>2 DEF IInv, InFlight, Dirs
<1>6. Ahead' /\ InFlight' /\ LinkedIsComplete'
  BY <1>1, <1>2, <1>4, <1>5 DEF IInv, Ahead, InFlight, LinkedIsComplete, LinkNeverDangles, LinkIsKept, Saving, SavePhases
<1>7. Written'
  BY <1>1, <1>2, <1>4, <1>5 DEF IInv, Written
<1>8. Rotation'
  <2> SUFFICES ASSUME mode.limit > 0, ~ mode.linkFails PROVE Rotation'
    BY <1>1 DEF Rotation
  <2>0. LinkIsKept
    BY DEF LinkIsKept
  <2>1. Newest(link)'
    <3>1. Newest(link)
      BY <1>1 DEF IInv, Rotation
    <3> QED
      BY <1>1, <1>2, <1>4, <1>5, <2>0, <3>1 DEF Newest, Dirs
  <2> QED
    BY <1>1, <1>2, <1>4, <2>0, <2>1 DEF Rotation, Saving, SavePhases
<1>9. Best'
  <2>1. best.step # NoIteration => best.step \in Dirs \ {v} /\ best.step \in Iterations \ {v}
    BY <1>1, <1>2 DEF IInv, Best, Dirs
  <2> QED
    BY <1>1, <1>4, <2>1 DEF IInv, Best
<1> QED
  BY <1>6, <1>7, <1>8, <1>9 DEF Kept

LEMMA EndRotationKeeps == IInv /\ EndRotation => Kept'
<1> SUFFICES ASSUME IInv, EndRotation PROVE Kept'
  OBVIOUS
<1>1. /\ phase = "rotate" /\ phase' = "step"
      /\ UNCHANGED <<mode, iteration, best, bestDir, mtime, parts, link, pending>>
  BY DEF EndRotation, memory, disk
<1>2. Ahead' /\ InFlight' /\ Written' /\ LinkedIsComplete'
  BY <1>1 DEF IInv, Ahead, InFlight, Written, LinkedIsComplete, LinkNeverDangles, LinkIsKept, Saving, SavePhases
<1>3. Rotation'
  <2>1. iteration \in Nat /\ (mode.limit > 0 /\ ~ mode.linkFails => link = iteration)
    BY <1>1, Ranges DEF IInv, Rotation
  <2>2. mode.limit > 0 /\ ~ mode.linkFails => link + 1 .. iteration = {}
    BY <2>1
  <2>3. Dirs' = Dirs /\ \A d : (Newest(d)' <=> Newest(d)) /\ (NextSave(d)' <=> NextSave(d))
    BY <1>1 DEF Dirs, Newest, NextSave
  <2> QED
    BY <1>1, <2>2, <2>3 DEF IInv, Rotation, Saving, SavePhases
<1>4. Best'
  BY <1>1 DEF IInv, Best, Dirs
<1> QED
  BY <1>2, <1>3, <1>4 DEF Kept

LEMMA LandKeeps ==
  ASSUME IInv, NEW i \in Iterations, Land(i)
  PROVE  Kept'
<1>1. /\ parts' = [parts EXCEPT ![i] = @ \cup {"weights"}]
      /\ UNCHANGED <<mode, phase, iteration, best, bestDir, mtime, link, pending>>
  BY DEF Land, memory
<1>2. mode.async /\ ~ (mode.limit > 0)
  <2>1. pending # << >>
    BY DEF Land, ToSet
  <2> QED
    BY <2>1, Ranges DEF IInv, InFlight
<1>3. /\ parts \in [Iterations -> SUBSET Parts]
      /\ \A j \in Iterations : parts[j] \subseteq parts'[j] /\ parts'[j] \subseteq Parts
  BY <1>1 DEF IInv, TypeOK, Parts
<1>4. Ahead' /\ Rotation' /\ Best'
  BY <1>1, <1>2 DEF IInv, Ahead, Rotation, Best, Saving, SavePhases, Dirs
<1>5. Written'
  BY <1>1, <1>2, <1>3 DEF IInv, Written, Dirs
<1>6. LinkedIsComplete'
  <2>1. link # NoIteration => link \in Iterations
    BY DEF IInv, TypeOK, NoIteration, Iterations
  <2> QED
    BY <1>1, <1>3, <2>1 DEF IInv, LinkedIsComplete, LinkNeverDangles, LinkIsKept
<1>7. InFlight'
  <2>1. \A k \in DOMAIN pending : parts[pending[k]] \subseteq parts'[pending[k]]
    BY <1>3, Ranges DEF IInv
  <2> QED
    BY <1>1, <1>2, <2>1 DEF IInv, InFlight
<1> QED
  BY <1>4, <1>5, <1>6, <1>7 DEF Kept
-----------------------------------------------------------------------------
(* Every sample once: what the samplers deal, batch by batch.              *)

(* The position of the c-th index of a rank; what a rank is dealt in its   *)
(* i-th batch, what all ranks are.                                         *)
Position(sharding, r, c) == IF sharding THEN r * BucketSize + c ELSE c * DataParallel + r

Dealt(sharding, r, i) ==
  {<<i \div EpochBatches, Position(sharding, r, (i % EpochBatches) * MicroBatch + j)>> :
     j \in 0 .. MicroBatch - 1}

DealtToAll(sharding, i) == UNION {Dealt(sharding, r, i) : r \in DPRanks}

(* No index is dealt twice in an epoch, to whichever rank, at whichever    *)
(* place of a batch; and no sample over all epochs.                        *)
LEMMA PositionInjective ==
  ASSUME NEW sharding, NEW r \in DPRanks, NEW s \in DPRanks,
         NEW c \in 0 .. BucketSize - 1, NEW d \in 0 .. BucketSize - 1,
         Position(sharding, r, c) = Position(sharding, s, d)
  PROVE  r = s /\ c = d
<1>1. /\ BucketSize \in Nat \ {0} /\ DataParallel \in Nat \ {0}
      /\ r \in 0 .. DataParallel - 1 /\ s \in 0 .. DataParallel - 1
      /\ r \in Nat /\ s \in Nat /\ c \in Nat /\ d \in Nat
  BY EpochConstants DEF DPRanks
<1>2. CASE sharding
  BY <1>1, <1>2, SameDivision DEF Position
<1>3. CASE ~ sharding
  BY <1>1, <1>3, SameDivision DEF Position
<1> QED
  BY <1>2, <1>3

LEMMA PlaceIs ==
  ASSUME NEW i \in Nat, NEW j \in 0 .. MicroBatch - 1
  PROVE  /\ i % EpochBatches \in 0 .. EpochBatches - 1
         /\ i \div EpochBatches \in Nat
         /\ (i % EpochBatches) * MicroBatch + j \in 0 .. BucketSize - 1
<1>1. /\ EpochBatches \in Nat \ {0} /\ MicroBatch \in Nat \ {0}
      /\ BucketSize = EpochBatches * MicroBatch /\ BucketSize \in Nat
  BY EpochConstants
<1>2. i % EpochBatches \in 0 .. EpochBatches - 1 /\ i \div EpochBatches \in Nat
  BY <1>1, Quotients
<1> DEFINE p == i % EpochBatches
           x == p * MicroBatch
<1>3. p \in Nat /\ p < EpochBatches
  BY <1>1, <1>2
<1> HIDE DEF p
<1>4. x \in Nat /\ x + MicroBatch <= BucketSize
  BY <1>1, <1>3, ProductOrder
<1> HIDE DEF x
<1>5. x + j \in 0 .. BucketSize - 1
  BY <1>1, <1>4
<1> QED
  BY <1>2, <1>5 DEF x, p

LEMMA DealtOnce ==
  ASSUME NEW sharding, NEW r \in DPRanks, NEW s \in DPRanks, NEW i \in Nat, NEW k \in Nat,
         NEW j \in 0 .. MicroBatch - 1, NEW l \in 0 .. MicroBatch - 1,
         i \div EpochBatches = k \div EpochBatches,
         Position(sharding, r, (i % EpochBatches) * MicroBatch + j)
           = Position(sharding, s, (k % EpochBatches) * MicroBatch + l)
  PROVE  r = s /\ i = k /\ j = l
<1> DEFINE p == i % EpochBatches
           q == k % EpochBatches
<1>1. /\ p \in Nat /\ q \in Nat
      /\ p * MicroBatch + j \in 0 .. BucketSize - 1
      /\ q * MicroBatch + l \in 0 .. BucketSize - 1
  BY PlaceIs
<1>2. EpochBatches \in Nat \ {0} /\ MicroBatch \in Nat \ {0}
  BY EpochConstants
<1>3. /\ i = (i \div EpochBatches) * EpochBatches + p
      /\ k = (k \div EpochBatches) * EpochBatches + q
  BY <1>2, Division
<1>4. Position(sharding, r, p * MicroBatch + j) = Position(sharding, s, q * MicroBatch + l)
  OBVIOUS
<1> HIDE DEF p, q
<1>5. r = s /\ p * MicroBatch + j = q * MicroBatch + l
  BY <1>1, <1>4, PositionInjective
<1>6. p = q /\ j = l
  BY <1>1, <1>2, <1>5, SameDivision
<1> QED
  BY <1>3, <1>5, <1>6

(* A batch has as many samples as it should, and shares none.              *)
LEMMA DealtCount ==
  ASSUME NEW sharding, NEW r \in DPRanks, NEW i \in Nat
  PROVE  IsFiniteSet(Dealt(sharding, r, i)) /\ Cardinality(Dealt(sharding, r, i)) = MicroBatch
<1> DEFINE f == [j \in 0 .. MicroBatch - 1 |->
                   <<i \div EpochBatches,
                     Position(sharding, r, (i % EpochBatches) * MicroBatch + j)>>]
<1>1. MicroBatch \in Nat
  BY EpochConstants
<1>2. f \in [0 .. MicroBatch - 1 -> Dealt(sharding, r, i)]
  BY DEF Dealt
<1>3. ASSUME NEW j \in 0 .. MicroBatch - 1, NEW l \in 0 .. MicroBatch - 1, f[j] = f[l]
      PROVE  j = l
  BY <1>3, DealtOnce
<1>4. \A x \in Dealt(sharding, r, i) : \E j \in 0 .. MicroBatch - 1 : x = f[j]
  BY DEF Dealt
<1> HIDE DEF f
<1> QED
  BY <1>1, <1>2, <1>3, <1>4, CountedByImage

LEMMA DealtDisjoint ==
  ASSUME NEW sharding, NEW r \in DPRanks, NEW s \in DPRanks, NEW i \in Nat, NEW k \in Nat,
         NEW x \in Dealt(sharding, r, i), x \in Dealt(sharding, s, k)
  PROVE  r = s /\ i = k
<1>1. PICK j \in 0 .. MicroBatch - 1 :
        x = <<i \div EpochBatches, Position(sharding, r, (i % EpochBatches) * MicroBatch + j)>>
  BY DEF Dealt
<1>2. PICK l \in 0 .. MicroBatch - 1 :
        x = <<k \div EpochBatches, Position(sharding, s, (k % EpochBatches) * MicroBatch + l)>>
  BY DEF Dealt
<1>3. /\ i \div EpochBatches = k \div EpochBatches
      /\ Position(sharding, r, (i % EpochBatches) * MicroBatch + j)
           = Position(sharding, s, (k % EpochBatches) * MicroBatch + l)
  BY <1>1, <1>2
<1> QED
  BY <1>3, DealtOnce

LEMMA DealtToAllCount ==
  ASSUME NEW sharding, NEW i \in Nat
  PROVE  /\ IsFiniteSet(DealtToAll(sharding, i))
         /\ Cardinality(DealtToAll(sharding, i)) = GlobalMicro
<1> DEFINE f == [r \in DPRanks |-> Dealt(sharding, r, i)]
<1>1. /\ DPRanks = 0 .. DataParallel - 1 /\ DataParallel \in Nat /\ MicroBatch \in Nat
      /\ GlobalMicro = MicroBatch * DataParallel /\ GlobalMicro = DataParallel * MicroBatch
  BY EpochConstants DEF DPRanks
<1>2. \A r \in 0 .. DataParallel - 1 : IsFiniteSet(f[r]) /\ Cardinality(f[r]) = MicroBatch
  BY <1>1, DealtCount
<1>3. \A r, s \in 0 .. DataParallel - 1 : r # s => f[r] \cap f[s] = {}
  BY <1>1, DealtDisjoint
<1>4. DealtToAll(sharding, i) = UNION {f[r] : r \in 0 .. DataParallel - 1}
  BY <1>1 DEF DealtToAll
<1> HIDE DEF f
<1>5. /\ IsFiniteSet(UNION {f[r] : r \in 0 .. DataParallel - 1})
      /\ Cardinality(UNION {f[r] : r \in 0 .. DataParallel - 1}) = DataParallel * MicroBatch
  BY <1>1, <1>2, <1>3, DisjointUnion
<1> QED
  BY <1>1, <1>4, <1>5

(* The samples of the batches from the a-th on, n of them.                 *)
DealtFrom(sharding, a, n) == UNION {DealtToAll(sharding, a + i) : i \in 0 .. n - 1}

LEMMA DealtFromCount ==
  ASSUME NEW sharding, NEW a \in Nat, NEW n \in Nat
  PROVE  /\ IsFiniteSet(DealtFrom(sharding, a, n))
         /\ Cardinality(DealtFrom(sharding, a, n)) = n * GlobalMicro
<1> DEFINE f == [i \in 0 .. n - 1 |-> DealtToAll(sharding, a + i)]
<1>1. \A i \in 0 .. n - 1 : a + i \in Nat
  OBVIOUS
<1>2. \A i \in 0 .. n - 1 : IsFiniteSet(f[i]) /\ Cardinality(f[i]) = GlobalMicro
  BY <1>1, DealtToAllCount
<1>3. ASSUME NEW i \in 0 .. n - 1, NEW k \in 0 .. n - 1, i # k PROVE f[i] \cap f[k] = {}
  <2> SUFFICES ASSUME NEW x \in f[i], x \in f[k] PROVE FALSE
    OBVIOUS
  <2>1. PICK r \in DPRanks : x \in Dealt(sharding, r, a + i)
    BY DEF DealtToAll
  <2>2. PICK s \in DPRanks : x \in Dealt(sharding, s, a + k)
    BY DEF DealtToAll
  <2>3. a + i = a + k
    BY <1>1, <2>1, <2>2, DealtDisjoint
  <2> QED
    BY <1>3, <2>3
<1>4. DealtFrom(sharding, a, n) = UNION {f[i] : i \in 0 .. n - 1}
  BY DEF DealtFrom
<1>5. GlobalMicro \in Nat
  BY EpochConstants
<1> HIDE DEF f
<1>6. /\ IsFiniteSet(UNION {f[i] : i \in 0 .. n - 1})
      /\ Cardinality(UNION {f[i] : i \in 0 .. n - 1}) = n * GlobalMicro
  BY <1>2, <1>3, <1>5, DisjointUnion
<1> QED
  BY <1>4, <1>6

(* What a sampler yields depends only on how many batches there have been. *)
LEMMA BatchIs ==
  ASSUME NEW sharding, NEW r \in DPRanks,
         NEW s \in Samplers, NEW n \in Nat, NEW k \in Nat, At(s, n, k),
         k + s.yielded < EpochBatches
  PROVE  BatchOf(sharding, r, s) = Dealt(sharding, r, n)
<1> DEFINE y == s.yielded
           M == MicroBatch
           D == DataParallel
           G == GlobalMicro
           Q == EpochBatches
           p == n % EpochBatches
           e == n \div EpochBatches
<1>1. /\ y \in Nat /\ Q \in Nat \ {0} /\ G \in Nat \ {0} /\ M \in Nat \ {0} /\ D \in Nat \ {0}
      /\ k \in Nat /\ k + y < Q /\ r \in Nat /\ s.offset = k * G
      /\ G = M * D /\ BucketSize \in Nat
  BY EpochConstants, SamplerConstants DEF At, Samplers, DPRanks
<1>2. s.epoch \in Nat /\ n = s.epoch * Q + (k + y) /\ k + y \in 0 .. Q - 1
  BY <1>1 DEF At, Samplers
<1>3. e = s.epoch /\ p = k + y
  BY <1>1, <1>2, QuotientIs
<1>4. (k * G) \div D = k * M
  <2>1. k * G = (k * M) * D + 0 /\ k * M \in Nat /\ 0 \in 0 .. D - 1
    BY <1>1
  <2> HIDE DEF M, D, G
  <2> QED
    BY <1>1, <2>1, QuotientIs
<1>5. ASSUME NEW j \in Nat
      PROVE  IndexAt(sharding, r, k * G, y * M + j) = Position(sharding, r, p * M + j)
  <2>1. CASE sharding
    <3>1. IndexAt(sharding, r, k * G, y * M + j) = r * BucketSize + k * M + (y * M + j)
      BY <1>4, <2>1 DEF IndexAt
    <3>2. Position(sharding, r, p * M + j) = r * BucketSize + (p * M + j)
      BY <2>1 DEF Position
    <3>3. p * M = k * M + y * M
      <4> HIDE DEF p, M, y
      <4> QED
        BY <1>1, <1>3
    <3>4. k * M \in Nat /\ y * M \in Nat /\ r * BucketSize \in Nat
      BY <1>1, Products
    <3> HIDE DEF p, M, G, y
    <3> QED
      BY <3>1, <3>2, <3>3, <3>4
  <2>2. CASE ~ sharding
    <3>1. IndexAt(sharding, r, k * G, y * M + j) = k * G + r + (y * M + j) * D
      BY <2>2 DEF IndexAt
    <3>2. Position(sharding, r, p * M + j) = (p * M + j) * D + r
      BY <2>2 DEF Position
    <3>3. (p * M + j) * D = k * G + (y * M + j) * D
      <4>1. p \in Nat
        BY <1>1, <1>3
      <4> HIDE DEF M, G, y, D, p
      <4> QED
        BY <1>1, <1>3, <4>1
    <3>4. k * G \in Nat /\ (y * M + j) * D \in Nat
      <4>1. y * M + j \in Nat
        BY <1>1
      <4> HIDE DEF M, G, y, D
      <4> QED
        BY <1>1, <4>1, Products
    <3> DEFINE a == k * G
               b == (y * M + j) * D
    <3>5. /\ IndexAt(sharding, r, k * G, y * M + j) = a + r + b
          /\ Position(sharding, r, p * M + j) = a + b + r
      BY <3>1, <3>2, <3>3
    <3>6. a \in Nat /\ b \in Nat /\ r \in Nat
      BY <1>1, <3>4
    <3> HIDE DEF a, b
    <3> QED
      BY <3>5, <3>6
  <2> QED
    BY <2>1, <2>2
<1> DEFINE from == y * M
           to == (y + 1) * M - 1
<1>6. from \in Nat /\ to = from + M - 1
  BY <1>1
<1>7. BatchOf(sharding, r, s) = {<<e, IndexAt(sharding, r, k * G, i)>> : i \in from .. to}
  BY <1>1, <1>3 DEF BatchOf
<1>8. Dealt(sharding, r, n) = {<<e, Position(sharding, r, p * M + j)>> : j \in 0 .. M - 1}
  BY DEF Dealt
<1>9. \A j \in Nat : IndexAt(sharding, r, k * G, from + j) = Position(sharding, r, p * M + j)
  BY <1>5
<1> HIDE DEF p, e, from, to, y, M, G
<1>10. \A i \in from .. to : i - from \in 0 .. M - 1 /\ from + (i - from) = i
  BY <1>1, <1>6
<1>11. \A j \in 0 .. M - 1 : from + j \in from .. to /\ j \in Nat
  BY <1>1, <1>6
<1>12. ASSUME NEW x \in BatchOf(sharding, r, s) PROVE x \in Dealt(sharding, r, n)
  <2>1. PICK i \in from .. to : x = <<e, IndexAt(sharding, r, k * G, i)>>
    BY <1>7
  <2>2. PICK j \in 0 .. M - 1 : i = from + j
    BY <1>10
  <2>3. x = <<e, Position(sharding, r, p * M + j)>>
    BY <1>9, <1>11, <2>1, <2>2
  <2> QED
    BY <1>8, <2>3
<1>13. ASSUME NEW x \in Dealt(sharding, r, n) PROVE x \in BatchOf(sharding, r, s)
  <2>1. PICK j \in 0 .. M - 1 : x = <<e, Position(sharding, r, p * M + j)>>
    BY <1>8
  <2>2. x = <<e, IndexAt(sharding, r, k * G, from + j)>>
    BY <1>9, <1>11, <2>1
  <2> QED
    BY <1>7, <1>11, <2>2
<1> QED
  BY <1>12, <1>13

(* A step of a sampler: the next batch of its rank, whichever pass.        *)
LEMMA NextBatchIs ==
  ASSUME NEW sharding, sharding \/ RanksDropAlike, NEW r \in DPRanks,
         NEW s \in Samplers, NEW n \in Nat, Follows(s, n)
  PROVE  /\ BatchOf(sharding, r, Turned(sharding, r, s)) = Dealt(sharding, r, n)
         /\ Follows(Yielded(Turned(sharding, r, s)), n + 1)
<1> DEFINE t == Turned(sharding, r, s)
<1>0. EpochBatches \in Nat \ {0} /\ GlobalMicro \in Nat \ {0}
  BY EpochConstants
<1>1. PICK k \in Nat : At(s, n, k)
  BY DEF Follows
<1>2. t \in Samplers /\ \E l \in Nat : At(t, n, l) /\ l + t.yielded < EpochBatches
  <2>1. CASE HasBatch(sharding, r, s)
    <3>1. t = s
      BY <2>1 DEF Turned
    <3>2. k + s.yielded < EpochBatches
      BY <1>1, <2>1, HasBatchIs
    <3> QED
      BY <1>1, <3>1, <3>2
  <2>2. CASE ~ HasBatch(sharding, r, s)
    <3>1. s.consumed = n * GlobalMicro
      BY <1>1 DEF At
    <3>2. t = NewPass(n * GlobalMicro)
      BY <2>2, <3>1 DEF Turned
    <3>3. n % EpochBatches \in 0 .. EpochBatches - 1 /\ n % EpochBatches \in Nat
      BY <1>0, Quotients
    <3>4. At(t, n, n % EpochBatches)
      BY <3>2, NewPassFollows
    <3>5. t.yielded = 0
      BY <3>2 DEF NewPass
    <3>6. t \in Samplers
      BY <1>0, <3>2, NewPassType, CountsAre
    <3> DEFINE p == n % EpochBatches
    <3>7. p \in 0 .. EpochBatches - 1 /\ p \in Nat /\ At(t, n, p)
      BY <3>3, <3>4
    <3> HIDE DEF p, t
    <3>8. p + t.yielded < EpochBatches
      BY <1>0, <3>5, <3>7
    <3> QED
      BY <3>6, <3>7, <3>8
  <2> QED
    BY <2>1, <2>2
<1>3. PICK l \in Nat : At(t, n, l) /\ l + t.yielded < EpochBatches
  BY <1>2
<1> HIDE DEF t
<1>4. BatchOf(sharding, r, t) = Dealt(sharding, r, n)
  BY <1>2, <1>3, BatchIs
<1>5. At(Yielded(t), n + 1, l)
  <2> DEFINE u == Yielded(t)
  <2>1. /\ u.consumed = t.consumed + GlobalMicro /\ u.yielded = t.yielded + 1
        /\ u.offset = t.offset /\ u.epoch = t.epoch
    BY <1>2 DEF Yielded, Samplers
  <2>2. /\ l \in 0 .. EpochBatches - 1 /\ t.consumed = n * GlobalMicro
        /\ t.offset = l * GlobalMicro /\ n = t.epoch * EpochBatches + (l + t.yielded)
        /\ t.yielded \in Nat /\ t.epoch \in Nat /\ l + t.yielded < EpochBatches
    BY <1>2, <1>3 DEF At, Samplers
  <2> HIDE DEF u
  <2>3. u.consumed = (n + 1) * GlobalMicro
    BY <1>0, <2>1, <2>2
  <2>4. l + u.yielded <= EpochBatches
    BY <1>0, <2>1, <2>2
  <2>5. n + 1 = u.epoch * EpochBatches + (l + u.yielded)
    <3> DEFINE a == t.epoch * EpochBatches
    <3>1. a \in Nat /\ n = a + (l + t.yielded)
      BY <1>0, <2>2, Products
    <3>2. u.epoch * EpochBatches = a
      BY <2>1
    <3> HIDE DEF a
    <3> QED
      BY <2>1, <2>2, <3>1, <3>2
  <2>6. At(u, n + 1, l)
    BY <2>1, <2>2, <2>3, <2>4, <2>5 DEF At
  <2> QED
    BY <2>6 DEF u
<1>6. Follows(Yielded(t), n + 1)
  BY <1>5 DEF Follows
<1> QED
  BY <1>4, <1>6 DEF t
LEMMA DealtAfter ==
  ASSUME NEW sharding, NEW r, NEW n \in Nat, NEW m \in Nat
  PROVE  UNION {Dealt(sharding, r, n + i) : i \in 0 .. (m + 1) - 1}
           = (UNION {Dealt(sharding, r, n + i) : i \in 0 .. m - 1}) \cup Dealt(sharding, r, n + m)
<1>1. 0 .. (m + 1) - 1 = (0 .. m - 1) \cup {m}
  OBVIOUS
<1> QED
  BY <1>1

(* A step takes the next NumMicro batches of the rank.                     *)
LEMMA DrawsFollow ==
  ASSUME mode.sharding \/ RanksDropAlike, sampler \in [DPRanks -> Samplers],
         NEW r \in DPRanks, NEW n \in Nat, Follows(sampler[r], n)
  PROVE  /\ Follows(Draws(r).sampler, n + NumMicro)
         /\ Draws(r).got = UNION {Dealt(mode.sharding, r, n + i) : i \in 0 .. NumMicro - 1}
<1>1. PICK draw : Drawing(r, draw)
  BY DrawsAre
<1> DEFINE Got(m) == UNION {Dealt(mode.sharding, r, n + i) : i \in 0 .. m - 1}
           Good(m) == /\ draw[m].sampler \in Samplers
                      /\ Follows(draw[m].sampler, n + m)
                      /\ draw[m].got = Got(m)
           U == {m \in Nat : m <= NumMicro => Good(m)}
<1>2. 0 \in U
  <2>1. draw[0].sampler = sampler[r] /\ draw[0].got = {} /\ n + 0 = n
    BY <1>1 DEF Drawing, Begun
  <2>2. Got(0) = {}
    OBVIOUS
  <2> HIDE DEF Got
  <2> QED
    BY <2>1, <2>2
<1>3. ASSUME NEW m \in Nat, m \in U PROVE m + 1 \in U
  <2> SUFFICES ASSUME m + 1 <= NumMicro PROVE Good(m + 1)
    OBVIOUS
  <2>0. m <= NumMicro /\ m + 1 \in 1 .. NumMicro /\ (m + 1) - 1 = m /\ (n + m) + 1 = n + (m + 1)
        /\ n + m \in Nat
    BY TrainerAssumption
  <2>1. Good(m)
    BY <1>3, <2>0
  <2>2. draw[m + 1] = OneMore(r, draw[m])
    BY <1>1, <2>0 DEF Drawing
  <2> DEFINE s == draw[m].sampler
             t == Turned(mode.sharding, r, s)
  <2>3. s \in Samplers /\ Follows(s, n + m) /\ draw[m].got = Got(m)
    BY <2>1
  <2>4. draw[m + 1].sampler = Yielded(t) /\ draw[m + 1].got = Got(m) \cup BatchOf(mode.sharding, r, t)
    BY <2>2, <2>3 DEF OneMore
  <2> HIDE DEF s, Got
  <2>5. BatchOf(mode.sharding, r, t) = Dealt(mode.sharding, r, n + m) /\ Follows(Yielded(t), (n + m) + 1)
    BY <2>0, <2>3, NextBatchIs
  <2>6. Yielded(t) \in Samplers
    BY <2>3, TurnedType, YieldedType
  <2>7. Got(m + 1) = Got(m) \cup Dealt(mode.sharding, r, n + m)
    BY DealtAfter DEF Got
  <2> HIDE DEF t
  <2> QED
    BY <2>0, <2>4, <2>5, <2>6, <2>7
<1> HIDE DEF U
<1>4. NumMicro \in U
  BY <1>2, <1>3, Induction, TrainerAssumption
<1>5. Good(NumMicro)
  BY <1>4, TrainerAssumption DEF U
<1> QED
  BY <1>1, <1>5 DEF Drawing

(* The first n batches of all ranks and the m after them.                  *)
LEMMA DealtFromSum ==
  ASSUME NEW sharding, NEW n \in Nat, NEW m \in Nat
  PROVE  DealtFrom(sharding, 0, n) \cup UNION {UNION {Dealt(sharding, r, n + i) : i \in 0 .. m - 1} : r \in DPRanks}
           = DealtFrom(sharding, 0, n + m)
<1> DEFINE A == DealtFrom(sharding, 0, n)
           B == UNION {UNION {Dealt(sharding, r, n + i) : i \in 0 .. m - 1} : r \in DPRanks}
           C == DealtFrom(sharding, 0, n + m)
<1>1. \A i \in Nat : 0 + i = i
  OBVIOUS
<1>2. ASSUME NEW x \in A PROVE x \in C
  <2>1. PICK i \in 0 .. n - 1 : x \in DealtToAll(sharding, 0 + i)
    BY DEF DealtFrom
  <2>2. i \in 0 .. (n + m) - 1
    OBVIOUS
  <2> QED
    BY <2>1, <2>2 DEF DealtFrom
<1>3. ASSUME NEW x \in B PROVE x \in C
  <2>1. PICK r \in DPRanks : x \in UNION {Dealt(sharding, r, n + i) : i \in 0 .. m - 1}
    OBVIOUS
  <2>2. PICK i \in 0 .. m - 1 : x \in Dealt(sharding, r, n + i)
    BY <2>1
  <2>3. n + i \in 0 .. (n + m) - 1 /\ 0 + (n + i) = n + i
    OBVIOUS
  <2>4. x \in DealtToAll(sharding, n + i)
    BY <2>2 DEF DealtToAll
  <2> QED
    BY <2>3, <2>4 DEF DealtFrom
<1>4. ASSUME NEW x \in C PROVE x \in A \cup B
  <2>1. PICK i \in 0 .. (n + m) - 1 : x \in DealtToAll(sharding, 0 + i)
    BY DEF DealtFrom
  <2>2. CASE i \in 0 .. n - 1
    BY <2>1, <2>2 DEF DealtFrom
  <2>3. CASE ~ (i \in 0 .. n - 1)
    <3>1. i - n \in 0 .. m - 1 /\ n + (i - n) = i /\ 0 + i = i
      BY <2>3
    <3>2. PICK r \in DPRanks : x \in Dealt(sharding, r, i)
      BY <2>1, <3>1 DEF DealtToAll
    <3>3. x \in UNION {Dealt(sharding, r, n + j) : j \in 0 .. m - 1}
      BY <3>1, <3>2
    <3> QED
      BY <3>3
  <2> QED
    BY <2>2, <2>3
<1> QED
  BY <1>2, <1>3, <1>4

(* Weights that have been trained on n batches of every rank: the first n. *)
Trained(c, t, n) == c = n * GlobalMicro /\ t = DealtFrom(mode.sharding, 0, n)

(* The weights in memory and the samplers agree on the batches so far, and *)
(* so do the two halves of every checkpoint.                               *)
Progressed ==
  /\ \E n \in Nat : Trained(consumed, trained, n) /\ \A r \in DPRanks : Follows(sampler[r], n)
  /\ phase = "weights" => argConsumed = consumed
  /\ \A i \in Iterations : \E n \in Nat : Trained(saved[i].consumed, saved[i].trained, n)

(* What the samplers need to stay in step.                                 *)
Dropping == mode.sharding \/ RanksDropAlike

(* The start of a job, and of a pass.                                      *)
LEMMA Nothing ==
  /\ Trained(0, {}, 0)
  /\ \A n \in Nat : Follows(NewPass(n * GlobalMicro), n)
<1>1. DealtFrom(mode.sharding, 0, 0) = {}
  BY DEF DealtFrom
<1>2. 0 * GlobalMicro = 0
  BY EpochConstants
<1>3. ASSUME NEW n \in Nat PROVE Follows(NewPass(n * GlobalMicro), n)
  <2>1. n % EpochBatches \in Nat
    BY EpochConstants, Quotients
  <2> QED
    BY <2>1, NewPassFollows DEF Follows
<1> QED
  BY <1>1, <1>2, <1>3 DEF Trained

(* Every action keeps it.                                                  *)
LEMMA ProgressedInit == Init => Progressed
<1> SUFFICES ASSUME Init PROVE Progressed
  OBVIOUS
<1>1. consumed = 0 /\ trained = {} /\ \A r \in DPRanks : sampler[r] = NewPass(0)
  BY DEF Init
<1>2. \A i \in Iterations : saved[i].consumed = 0 /\ saved[i].trained = {}
  BY DEF Init, Empty
<1>3. 0 * GlobalMicro = 0 /\ 0 \in Nat
  BY EpochConstants
<1>4. Follows(NewPass(0), 0)
  BY <1>3, Nothing
<1>5. phase # "weights"
  BY DEF Init
<1> QED
  BY <1>1, <1>2, <1>3, <1>4, <1>5, Nothing DEF Progressed

LEMMA ProgressedTrain == TypeOK /\ Dropping /\ Progressed /\ TrainStep => Progressed'
<1> SUFFICES ASSUME TypeOK, Dropping, Progressed, TrainStep PROVE Progressed'
  OBVIOUS
<1>1. /\ trained' = trained \cup UNION {Draws(r).got : r \in DPRanks}
      /\ sampler' = [r \in DPRanks |-> Draws(r).sampler]
      /\ consumed' = consumed + GlobalBatch
      /\ phase' # "weights" /\ mode' = mode /\ saved' = saved
  BY DEF TrainStep
<1>2. PICK n \in Nat : Trained(consumed, trained, n) /\ \A r \in DPRanks : Follows(sampler[r], n)
  BY DEF Progressed
<1> DEFINE m == n + NumMicro
<1>3. \A r \in DPRanks :
        /\ Follows(Draws(r).sampler, m)
        /\ Draws(r).got = UNION {Dealt(mode.sharding, r, n + i) : i \in 0 .. NumMicro - 1}
  BY <1>2, DrawsFollow DEF TypeOK, Dropping
<1>4. trained' = DealtFrom(mode.sharding, 0, m)
  <2>1. trained = DealtFrom(mode.sharding, 0, n)
    BY <1>2 DEF Trained
  <2>2. UNION {Draws(r).got : r \in DPRanks}
          = UNION {UNION {Dealt(mode.sharding, r, n + i) : i \in 0 .. NumMicro - 1} : r \in DPRanks}
    BY <1>3
  <2> QED
    BY <1>1, <2>1, <2>2, DealtFromSum, TrainerAssumption
<1>5. consumed' = m * GlobalMicro
  <2>1. consumed = n * GlobalMicro /\ GlobalBatch = GlobalMicro * NumMicro
    BY <1>2 DEF Trained, GlobalBatch
  <2>2. NumMicro \in Nat /\ GlobalMicro \in Nat
    BY TrainerAssumption, EpochConstants
  <2> QED
    BY <1>1, <2>1, <2>2
<1>6. m \in Nat
  BY TrainerAssumption
<1> HIDE DEF m
<1>7. \A r \in DPRanks : Follows(sampler[r]', m)
  BY <1>1, <1>3
<1>8. Trained(consumed, trained, m)'
  BY <1>1, <1>4, <1>5 DEF Trained
<1>9. \A i \in Iterations : \E k \in Nat : Trained(saved[i].consumed, saved[i].trained, k)'
  BY <1>1 DEF Progressed, Trained
<1> QED
  BY <1>1, <1>6, <1>7, <1>8, <1>9 DEF Progressed

(* Whatever leaves the memory as it is, and the checkpoints' contents.     *)
LEMMA ProgressedFrame ==
  ASSUME Progressed, UNCHANGED <<mode, consumed, trained, sampler, saved>>,
         phase' = "weights" => argConsumed' = consumed'
  PROVE  Progressed'
<1>1. PICK n \in Nat : Trained(consumed, trained, n) /\ \A r \in DPRanks : Follows(sampler[r], n)
  BY DEF Progressed
<1>2. Trained(consumed, trained, n)' /\ \A r \in DPRanks : Follows(sampler[r]', n)
  BY <1>1 DEF Trained
<1>3. \A i \in Iterations : \E k \in Nat : Trained(saved[i].consumed, saved[i].trained, k)'
  BY DEF Progressed, Trained
<1> QED
  BY <1>2, <1>3 DEF Progressed

LEMMA ProgressedForget ==
  ASSUME Progressed, Forget, phase' # "weights", UNCHANGED <<mode, saved>>
  PROVE  Progressed'
<1>1. consumed' = 0 /\ trained' = {} /\ \A r \in DPRanks : sampler[r]' = NewPass(0)
  BY DEF Forget
<1>2. 0 * GlobalMicro = 0 /\ 0 \in Nat
  BY EpochConstants
<1>3. Follows(NewPass(0), 0)
  BY <1>2, Nothing
<1>4. Trained(consumed, trained, 0)'
  BY <1>1, Nothing DEF Trained
<1>5. \A i \in Iterations : \E k \in Nat : Trained(saved[i].consumed, saved[i].trained, k)'
  BY DEF Progressed, Trained
<1>6. \A r \in DPRanks : Follows(sampler[r]', 0)
  BY <1>1, <1>3
<1> QED
  BY <1>2, <1>4, <1>5, <1>6 DEF Progressed

LEMMA ProgressedLoad == TypeOK /\ Progressed /\ LoadCheckpoint => Progressed'
<1> SUFFICES ASSUME TypeOK, Progressed, LoadCheckpoint PROVE Progressed'
  OBVIOUS
<1> DEFINE from == IF link = NoIteration THEN Empty ELSE saved[link]
<1>1. /\ consumed' = from.consumed /\ trained' = from.trained
      /\ sampler' = [r \in DPRanks |-> NewPass(from.consumed)]
      /\ phase' # "weights" /\ mode' = mode /\ saved' = saved
  BY DEF LoadCheckpoint, disk
<1>2. PICK n \in Nat : Trained(from.consumed, from.trained, n)
  <2>1. CASE link = NoIteration
    <3>1. from.consumed = 0 /\ from.trained = {}
      BY <2>1 DEF Empty
    <3> HIDE DEF from
    <3> QED
      BY <3>1, Nothing
  <2>2. CASE link # NoIteration
    <3>1. link \in Iterations /\ from = saved[link]
      BY <2>2 DEF TypeOK, NoIteration, Iterations
    <3> HIDE DEF from
    <3> QED
      BY <3>1 DEF Progressed
  <2> QED
    BY <2>1, <2>2
<1> HIDE DEF from
<1>3. Follows(NewPass(from.consumed), n)
  BY <1>2, Nothing DEF Trained
<1>4. Trained(consumed, trained, n)' /\ \A r \in DPRanks : Follows(sampler[r]', n)
  BY <1>1, <1>2, <1>3 DEF Trained
<1>5. \A i \in Iterations : \E k \in Nat : Trained(saved[i].consumed, saved[i].trained, k)'
  BY <1>1 DEF Progressed, Trained
<1> QED
  BY <1>1, <1>4, <1>5 DEF Progressed

LEMMA ProgressedWrite == TypeOK /\ Progressed /\ WriteWeights => Progressed'
<1> SUFFICES ASSUME TypeOK, Progressed, WriteWeights PROVE Progressed'
  OBVIOUS
<1>1. /\ saved' = [saved EXCEPT ![iteration] = [consumed |-> argConsumed, trained |-> trained]]
      /\ phase = "weights" /\ phase' # "weights"
      /\ UNCHANGED <<mode, consumed, trained, sampler>>
  BY DEF WriteWeights, memory
<1>2. PICK n \in Nat : Trained(consumed, trained, n) /\ \A r \in DPRanks : Follows(sampler[r], n)
  BY DEF Progressed
<1>3. argConsumed = consumed /\ saved \in [Iterations -> Snapshots]
  BY <1>1 DEF Progressed, TypeOK
<1>4. ASSUME NEW i \in Iterations
      PROVE  \E k \in Nat : Trained(saved[i].consumed, saved[i].trained, k)'
  <2>1. CASE i = iteration
    <3>1. saved'[i].consumed = consumed /\ saved'[i].trained = trained
      BY <1>1, <1>3, <2>1
    <3> QED
      BY <1>1, <1>2, <3>1 DEF Trained
  <2>2. CASE i # iteration
    <3>1. saved'[i] = saved[i]
      BY <1>1, <1>3, <2>2
    <3> QED
      BY <1>1, <3>1 DEF Progressed, Trained
  <2> QED
    BY <2>1, <2>2
<1>5. Trained(consumed, trained, n)' /\ \A r \in DPRanks : Follows(sampler[r]', n)
  BY <1>1, <1>2 DEF Trained
<1> QED
  BY <1>1, <1>4, <1>5 DEF Progressed

LEMMA ProgressedStep == TypeOK /\ Dropping /\ Progressed /\ [Next]_vars => Progressed'
<1> SUFFICES ASSUME TypeOK, Dropping, Progressed, [Next]_vars PROVE Progressed'
  OBVIOUS
<1>1. CASE TrainStep
  BY <1>1, ProgressedTrain
<1>2. CASE LoadCheckpoint
  BY <1>2, ProgressedLoad
<1>3. CASE WriteWeights
  BY <1>3, ProgressedWrite
<1>4. CASE ScoreNotANumber \/ Crash \/ \E v \in Iterations : CrashWhileRemoving(v)
  <2>1. Forget /\ phase' # "weights" /\ UNCHANGED <<mode, saved>>
    BY <1>4 DEF ScoreNotANumber, Crash, CrashWhileRemoving, Die, disk
  <2> QED
    BY <2>1, ProgressedForget
<1>5. CASE MakeDir
  <2>1. UNCHANGED <<mode, consumed, trained, sampler, saved>> /\ argConsumed' = consumed
    BY <1>5 DEF MakeDir
  <2> QED
    BY <2>1, ProgressedFrame
<1>6. CASE \/ \E score \in Scores : DetermineBest(score)
           \/ WriteTracker
           \/ WriteSafetensors
           \/ UpdateLink
           \/ \E v \in Iterations : RemoveOldest(v)
           \/ EndRotation
           \/ FinalizeTraining
  <2>1. /\ UNCHANGED <<mode, consumed, trained, sampler, saved>> /\ phase' # "weights"
    BY <1>6 DEF DetermineBest, WriteTracker, WriteSafetensors, UpdateLink, RemoveOldest,
         EndRotation, FinalizeTraining, memory, disk
  <2> QED
    BY <2>1, ProgressedFrame
<1>7. CASE (\E i \in Iterations : Land(i)) \/ UNCHANGED vars
  <2>1. UNCHANGED <<mode, consumed, trained, sampler, saved, phase, argConsumed>>
    BY <1>7 DEF Land, memory, disk, vars
  <2>2. phase' = "weights" => argConsumed' = consumed'
    BY <2>1 DEF Progressed
  <2> QED
    BY <2>1, <2>2, ProgressedFrame
<1> QED
  BY <1>1, <1>2, <1>3, <1>4, <1>5, <1>6, <1>7 DEF Next, Progress

(* The samples of a finished epoch are those of its batches.               *)
LEMMA EpochOf ==
  ASSUME NEW sharding, NEW e \in Nat, NEW n \in Nat, (e + 1) * EpochBatches <= n
  PROVE  {s \in DealtFrom(sharding, 0, n) : s[1] = e}
           = DealtFrom(sharding, e * EpochBatches, EpochBatches)
<1> DEFINE Q == EpochBatches
           a == e * Q
<1>1. Q \in Nat \ {0} /\ a \in Nat /\ a + Q <= n
  <2>1. Q \in Nat \ {0}
    BY EpochConstants
  <2>2. (e + 1) * Q = e * Q + Q
    BY <2>1
  <2> QED
    BY <2>1, <2>2, Products
<1>2. \A i \in Nat : i = (i \div Q) * Q + (i % Q) /\ i % Q \in 0 .. Q - 1 /\ i \div Q \in Nat
  BY <1>1, Division, Quotients
<1>3. \A j \in 0 .. Q - 1 : (a + j) \div Q = e
  BY <1>1, QuotientIs
<1>4. ASSUME NEW i \in Nat, NEW x \in DealtToAll(sharding, i) PROVE x[1] = i \div Q
  BY DEF DealtToAll, Dealt
<1> HIDE DEF Q
<1>5. ASSUME NEW x \in DealtFrom(sharding, 0, n), x[1] = e PROVE x \in DealtFrom(sharding, a, Q)
  <2>1. PICK i \in 0 .. n - 1 : x \in DealtToAll(sharding, 0 + i)
    BY DEF DealtFrom
  <2>2. 0 + i = i /\ i \in Nat
    OBVIOUS
  <2>3. i \div Q = e
    BY <1>4, <1>5, <2>1, <2>2
  <2>4. i = a + (i % Q) /\ i % Q \in 0 .. Q - 1
    BY <1>2, <2>2, <2>3
  <2> HIDE DEF a
  <2> QED
    BY <2>1, <2>2, <2>4 DEF DealtFrom
<1>6. ASSUME NEW x \in DealtFrom(sharding, a, Q)
      PROVE  x \in DealtFrom(sharding, 0, n) /\ x[1] = e
  <2>1. PICK j \in 0 .. Q - 1 : x \in DealtToAll(sharding, a + j)
    BY DEF DealtFrom
  <2>2. (a + j) \div Q = e
    BY <1>3
  <2> HIDE DEF a
  <2>3. a + j \in 0 .. n - 1 /\ 0 + (a + j) = a + j /\ a + j \in Nat
    BY <1>1
  <2> QED
    BY <1>4, <2>1, <2>2, <2>3 DEF DealtFrom
<1> QED
  BY <1>5, <1>6 DEF Q

LEMMA ProgressedIsWhole == (Dropping => Progressed) => EpochsWhole
<1> SUFFICES ASSUME Dropping => Progressed PROVE EpochsWhole
  OBVIOUS
<1> SUFFICES ASSUME Progressed
             PROVE  /\ Cardinality(trained) = consumed
                    /\ \A e \in 0 .. (consumed \div ActiveTotal) - 1 :
                         Cardinality(EpochSamples(e)) = ActiveTotal
  BY DEF Dropping, EpochsWhole
<1>1. PICK n \in Nat : consumed = n * GlobalMicro /\ trained = DealtFrom(mode.sharding, 0, n)
  BY DEF Progressed, Trained
<1>2. Cardinality(trained) = consumed
  BY <1>1, DealtFromCount
<1>3. ASSUME NEW e \in 0 .. (consumed \div ActiveTotal) - 1
      PROVE  Cardinality(EpochSamples(e)) = ActiveTotal
  <2>0. /\ EpochBatches \in Nat \ {0} /\ GlobalMicro \in Nat \ {0}
        /\ ActiveTotal = EpochBatches * GlobalMicro /\ ActiveTotal \in Nat \ {0} /\ consumed \in Nat
    BY <1>1, EpochConstants, SamplerConstants, Products
  <2> DEFINE m == e + 1
  <2>1. m \in Nat /\ m <= consumed \div ActiveTotal
    BY <2>0, Quotients
  <2> HIDE DEF m
  <2>2. m * ActiveTotal <= n * GlobalMicro
    BY <1>1, <2>0, <2>1, QuotientBound
  <2>3. m * ActiveTotal = (m * EpochBatches) * GlobalMicro /\ m * EpochBatches \in Nat
    BY <2>0, <2>1
  <2>4. m * EpochBatches <= n
    BY <2>0, <2>2, <2>3, ProductMonotone
  <2>5. EpochSamples(e) = DealtFrom(mode.sharding, e * EpochBatches, EpochBatches)
    BY <1>1, <2>4, EpochOf DEF EpochSamples, m
  <2>6. e * EpochBatches \in Nat
    BY <2>0, Products
  <2> QED
    BY <2>0, <2>5, <2>6, DealtFromCount
<1> QED
  BY <1>2, <1>3
-----------------------------------------------------------------------------
(* The theorems                                                            *)

LEMMA Inductive == IInv /\ [Next]_vars => IInv'
<1> SUFFICES ASSUME IInv, [Next]_vars PROVE IInv'
  OBVIOUS
<1>1. TypeOK'
  BY TypesStep
<1>2. ASSUME Progress PROVE Kept'
  BY <1>2, LoadKeeps, TrainKeeps, ScoreKeeps, MakeDirKeeps, WritesKeep, UpdateLinkKeeps,
     RemoveKeeps, EndRotationKeeps, FinalizeKeeps DEF Progress
<1>3. ASSUME NEW i \in Iterations, Land(i) \/ CrashWhileRemoving(i) PROVE Kept'
  BY <1>3, LandKeeps, CrashWhileRemovingKeeps
<1>4. ASSUME UNCHANGED vars PROVE Kept'
  <2>1. UNCHANGED <<mode, phase, iteration, best, bestDir, mtime, parts, link, pending>>
    BY <1>4 DEF vars, memory, disk
  <2>2. Dirs' = Dirs /\ \A d : (Newest(d)' <=> Newest(d)) /\ (NextSave(d)' <=> NextSave(d))
    BY <2>1 DEF Dirs, Newest, NextSave
  <2>3. Ahead' /\ InFlight' /\ Written' /\ LinkedIsComplete'
    BY <2>1, <2>2 DEF IInv, Ahead, InFlight, Written, LinkedIsComplete, LinkNeverDangles, LinkIsKept, Saving, SavePhases
  <2>4. Rotation' /\ Best'
    BY <2>1, <2>2 DEF IInv, Rotation, Best, Saving, SavePhases
  <2> QED
    BY <2>3, <2>4 DEF Kept
<1>5. ASSUME Next PROVE Kept'
  <2>1. CASE \E i \in Iterations : Land(i) \/ CrashWhileRemoving(i)
    BY <1>3, <2>1
  <2>2. CASE ScoreNotANumber \/ Crash
    BY <2>2, CrashKeeps
  <2> QED
    BY <1>2, <1>5, <2>1, <2>2 DEF Next
<1>6. Kept'
  BY <1>4, <1>5
<1> QED
  BY <1>1, <1>6 DEF IInv, Kept

LEMMA Invariance == Spec => []IInv
<1> QED
  BY InitInv, Inductive, PTL DEF Spec

(* Every variable keeps its type: what a rank draws is an index of the     *)
(* data set, counts are of whole batches of all ranks, and a directory     *)
(* that is not there holds nothing.                                        *)
THEOREM TypeCorrect == Spec => []TypeOK
<1>1. IInv => TypeOK
  BY DEF IInv
<1> QED
  BY <1>1, Invariance, PTL

(* Whenever the job dies, `last-checkpoint' names a checkpoint that is     *)
(* there in full, however the saves, their landing, the rotation and the   *)
(* crashes before interleaved, and whichever updates of the link failed    *)
(* when no directory is removed.                                           *)
THEOREM AlwaysResumable == Spec => []LinkedIsComplete
<1>1. IInv => LinkedIsComplete
  BY DEF IInv
<1> QED
  BY <1>1, Invariance, PTL

(* No rotation removes the checkpoint with the best score since the start  *)
(* of the process.                                                         *)
THEOREM BestSurvives == Spec => []KeepsBest
<1>1. IInv => KeepsBest
  BY DEF IInv, Best, KeepsBest
<1> QED
  BY <1>1, Invariance, PTL

(* The link never names an earlier iteration than before: neither a late   *)
(* asynchronous save nor a resumed job moves it back.                      *)
THEOREM NeverBack == Spec => LinkAdvances
<1>1. IInv /\ [Next]_vars => [link' > link]_link
  <2> SUFFICES ASSUME IInv, [Next]_vars, link' # link PROVE link' > link
    OBVIOUS
  <2>1. CASE TrainStep \/ FinalizeTraining
    BY <2>1, FinalisesFirst, Ranges DEF IInv, Finalises
  <2>2. CASE UpdateLink
    <3>1. link' = iteration /\ link < iteration /\ link \in Nat /\ iteration \in Nat
      BY <2>2, SavedIteration, Ranges DEF IInv, UpdateLink, Linked, Saving, SavePhases
    <3> QED
      BY <3>1
  <2>3. TrainStep \/ FinalizeTraining \/ UpdateLink
    BY DEF Next, Progress, LoadCheckpoint, DetermineBest, MakeDir, WriteWeights, WriteTracker,
           WriteSafetensors, RemoveOldest, EndRotation, Land, CrashWhileRemoving,
           ScoreNotANumber, Crash, vars, disk
  <2> QED
    BY <2>1, <2>2, <2>3
<1> QED
  BY <1>1, Invariance, PTL DEF Spec, LinkAdvances

(* Over all crashes the weights have been trained on as many distinct      *)
(* samples as they count, and every finished epoch used all of its active  *)
(* samples: with data sharding always, without it whenever the incomplete  *)
(* last batch of the dataset is too small to give any rank a micro-batch.  *)
THEOREM SamplesTrainedOnce == Spec => []EpochsWhole
<1>1. Init => (Dropping => Progressed)
  BY ProgressedInit
<1>2. IInv /\ (Dropping => Progressed) /\ [Next]_vars => (Dropping => Progressed)'
  <2>1. [Next]_vars => mode' = mode
    BY DEF Next, Progress, LoadCheckpoint, TrainStep, DetermineBest, MakeDir, WriteWeights, WriteTracker,
           WriteSafetensors, UpdateLink, RemoveOldest, EndRotation, FinalizeTraining, Land, CrashWhileRemoving,
           ScoreNotANumber, Crash, vars
  <2>2. mode' = mode => (Dropping' <=> Dropping)
    BY DEF Dropping
  <2>3. IInv => TypeOK
    BY DEF IInv
  <2> QED
    BY <2>1, <2>2, <2>3, ProgressedStep
<1>3. (Dropping => Progressed) => EpochsWhole
  BY ProgressedIsWhole
<1> QED
  BY <1>1, <1>2, <1>3, Invariance, PTL DEF Spec
=============================================================================
