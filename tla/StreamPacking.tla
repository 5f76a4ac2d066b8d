---------------------------- MODULE StreamPacking ----------------------------
(***************************************************************************)
(* Streamed training data with packing: IterablePackingDataset             *)
(* (swift/dataset/packing.py) feeds numbered samples to encoding processes *)
(* over two queues and packs what comes back, a DataLoader cuts the packs  *)
(* into batches, and rank 0 scatters one batch to each rank                *)
(* (swift/dataloader/dispatcher.py).                                       *)
(*                                                                         *)
(* A sample is the lengths of the pieces its encoding yields (several with *)
(* truncation_strategy=split) and what goes wrong in encoding it.          *)
(***************************************************************************)
EXTENDS Integers, Sequences, FiniteSets, SequencesExt

CONSTANTS
  Workers,        \* the encoding processes, num_proc of them
  NumRanks,       \* world_size; rank 1 stands for rank 0 of the code
  Jobs,           \* the arguments to try
  PackingLength,  \* packing_length
  Interval,       \* packing_interval
  Prefetch,       \* packs the data loader asks for ahead of the training
  Epochs          \* num_train_epochs

Troubles == {"none", "tooLong", "invalid", "kills"}   \* MaxLengthError, another exception, a crash
Ranks    == 1 .. NumRanks

ASSUME PackingAssumption ==
  /\ NumRanks \in Nat \ {0} /\ PackingLength \in Nat /\ Interval \in Nat \ {0}
  /\ Prefetch \in Nat /\ Epochs \in Nat
  /\ \A j \in Jobs : /\ j.strategy \in {"binpack", "sequential"} /\ j.strict \in BOOLEAN
                     /\ j.batchSize \in 1 .. Prefetch /\ j.skip \in Nat
                     /\ j.stream \in Seq([lengths : Seq(Nat), trouble : Troubles])

VARIABLES
  job,       \* one of Jobs: stream, strategy, strict, batchSize, skip (skip_batches)
  \* ---- the dataset's generator ----
  at,        \* where it is
  read,      \* samples taken from the stream in this epoch
  num,       \* num_samples: those of this round
  fetched,   \* results of this round that have come back
  res,       \* those results, by number
  open,      \* data: what is left over for the next round
  made,      \* the packs yielded in this epoch
  taken,     \* how many of them the data loader has put into batches
  \* ---- the encoding processes and their queues ----
  inq, outq, busy, dead,
  \* ---- the ranks ----
  phase, epoch,
  toSkip,    \* batches rank 0 still has to skip
  group,     \* what it has collected for the next scatter
  got        \* history: the batches each rank has trained on

generatorVars == <<at, read, num, fetched, res, open, made>>
workerVars    == <<inq, outq, busy, dead>>
rankVars      == <<phase, epoch, toSkip, group, got, taken>>
vars == <<job, generatorVars, workerVars, rankVars>>

Nobody == << >>

-----------------------------------------------------------------------------
(* Packing (calculate_matched_group)                                       *)

(* Step applied to the elements in turn.  The value so far is bound so     *)
(* that it is computed once, however often Step uses it.                   *)
Fold(Step(_, _), base, seq) ==
  LET f[n \in 0 .. Len(seq)] ==
        IF n = 0 THEN base ELSE CHOOSE v \in {Step(s, seq[n]) : s \in {f[n - 1]}} : TRUE
  IN  f[Len(seq)]

(* A piece is <<sample, number>>.                                          *)
Weight(j, p) == j.stream[p[1]].lengths[p[2]]
Load(j, pack) == Fold(LAMBDA n, p : n + Weight(j, p), 0, pack)

FitsOneMore(n) == n <= PackingLength + 1   \* mutant of Fits

Fits(n) == n <= PackingLength

(* Next-fit: the open pack is closed when the next piece does not fit, or  *)
(* it is full.                                                             *)
NextFit(j, pieces) ==
  LET Full(s, p) == s.cur # << >> /\ ~Fits(Load(j, s.cur) + Weight(j, p))
      Closed(s)  == [packs |-> Append(s.packs, s.cur), cur |-> << >>]
      Put(s, p)  == IF Load(j, s.cur) + Weight(j, p) >= PackingLength
                      THEN [packs |-> Append(s.packs, Append(s.cur, p)), cur |-> << >>]
                      ELSE [s EXCEPT !.cur = Append(@, p)]
      Step(s, p) == IF Full(s, p) THEN Put(Closed(s), p) ELSE Put(s, p)
  IN  Fold(Step, [packs |-> << >>, cur |-> << >>], pieces)

(* binpacking.to_constant_volume: the heaviest piece first, each into the  *)
(* fullest bin that it fits.                                               *)
HeaviestFirst(j, pieces) ==
  LET Insert(s, p) ==
        InsertAt(s, Cardinality({i \in DOMAIN s : Weight(j, s[i]) >= Weight(j, p)}) + 1, p)
  IN  Fold(Insert, << >>, pieces)

BestFit(j, pieces) ==
  LET Step(bins, p) ==
        LET fitting == {b \in DOMAIN bins : Fits(Load(j, bins[b]) + Weight(j, p))}
            Fullest(b) == \A c \in fitting : \/ Load(j, bins[c]) < Load(j, bins[b])
                                             \/ Load(j, bins[c]) = Load(j, bins[b]) /\ b <= c
        IN  IF fitting = {} THEN Append(bins, <<p>>)
            ELSE LET b == CHOOSE b \in fitting : Fullest(b) IN [bins EXCEPT ![b] = Append(@, p)]
  IN  Fold(Step, << >>, HeaviestFirst(j, pieces))

Result(packs, rest) == [packs |-> packs, rest |-> rest]

(* The packs, after those of earlier rounds, and what is kept for the next *)
(* round: the open pack, or the last bin.                                  *)
MatchedGroup(j, earlier, pieces, finished) ==
  IF j.strategy = "binpack"
    THEN LET bins == BestFit(j, pieces)
         IN  IF finished \/ bins = << >> THEN Result(earlier \o bins, << >>)
                                         ELSE Result(earlier \o Front(bins), Last(bins))
    ELSE LET s == NextFit(j, pieces)
         IN  IF finished /\ s.cur # << >> THEN Result(earlier \o Append(s.packs, s.cur), << >>)
                                          ELSE Result(earlier \o s.packs, s.cur)

(* What _processor sends back for a sample: {} if encode raises.           *)
Encoded(j, s) ==
  IF j.stream[s].trouble # "none" THEN << >>
  ELSE [k \in DOMAIN j.stream[s].lengths |-> <<s, k>>]

(* The exceptions _processor does not catch.                               *)
Fatal(s) ==
  \/ job.stream[s].trouble = "kills"
  \/ job.stream[s].trouble = "invalid" /\ job.strict

-----------------------------------------------------------------------------
Init ==
  /\ job \in Jobs
  /\ at = "over" /\ read = 0 /\ num = 0 /\ fetched = 0 /\ res = << >>
  /\ open = << >> /\ made = << >> /\ taken = 0
  /\ inq = << >> /\ outq = << >> /\ busy = [w \in Workers |-> Nobody] /\ dead = {}
  /\ phase = [r \in Ranks |-> "start"] /\ epoch = [r \in Ranks |-> 0]
  /\ toSkip = 0 /\ group = << >> /\ got = [r \in Ranks |-> << >>]

-----------------------------------------------------------------------------
(* The generator (__iter__ of IterablePackingDataset)                      *)

(* _put_data_in_queue, one sample at a time.                               *)
PutSample ==
  /\ at = "put" /\ num < Interval /\ read < Len(job.stream)
  /\ inq' = Append(inq, <<num + 1, read + 1>>)
  /\ read' = read + 1 /\ num' = num + 1
  /\ UNCHANGED <<job, at, fetched, res, open, made, outq, busy, dead, rankVars>>

PutEnd ==
  /\ at = "put" /\ (num = Interval \/ read = Len(job.stream))
  /\ at' = "fetch" /\ fetched' = 0 /\ res' = [i \in 1 .. num |-> << >>]
  /\ UNCHANGED <<job, read, num, open, made, workerVars, rankVars>>

ByArrival(i) == fetched + 1   \* mutant of Place

(* Where a result belongs: results come back in any order.                 *)
Place(i) == i

(* _fetch_data_out_queue                                                   *)
Fetch ==
  /\ at = "fetch" /\ fetched < num /\ outq # << >>
  /\ res' = [res EXCEPT ![Place(Head(outq)[1])] = Head(outq)[2]]
  /\ outq' = Tail(outq) /\ fetched' = fetched + 1
  /\ UNCHANGED <<job, at, read, num, open, made, inq, busy, dead, rankVars>>

NeverLooked == FALSE   \* mutant of WorkerExited

(* wait(sentinels, timeout=0), after a second without a result.            *)
WorkerExited == dead # {}

FetchFails ==
  /\ at = "fetch" /\ fetched < num /\ outq = << >> /\ WorkerExited
  /\ at' = "failed"
  /\ UNCHANGED <<job, read, num, fetched, res, open, made, workerVars, rankVars>>

(* calculate_matched_group over what was left and what has come back.      *)
Match ==
  /\ at = "fetch" /\ fetched = num
  /\ LET finished == num # Interval
         matched  == MatchedGroup(job, made, open \o FlattenSeq(res), finished)
     IN  /\ made' = matched.packs
         /\ open' = matched.rest
         /\ at' = IF finished THEN "over" ELSE "yield"
  /\ num' = 0
  /\ UNCHANGED <<job, read, fetched, res, workerVars, rankVars>>

(* The packs of the round have been yielded and another one is asked for.  *)
Resume ==
  /\ at = "yield" /\ Len(made) - taken < Prefetch
  /\ at' = "put"
  /\ UNCHANGED <<job, read, num, fetched, res, open, made, workerVars, rankVars>>

-----------------------------------------------------------------------------
(* The encoding processes (_processor)                                     *)

Take(w) ==
  /\ w \notin dead /\ busy[w] = Nobody /\ inq # << >>
  /\ busy' = [busy EXCEPT ![w] = Head(inq)]
  /\ inq' = Tail(inq)
  /\ UNCHANGED <<job, generatorVars, outq, dead, rankVars>>

Encode(w) ==
  /\ busy[w] # Nobody
  /\ busy' = [busy EXCEPT ![w] = Nobody]
  /\ LET s == busy[w][2] IN
       IF Fatal(s) THEN dead' = dead \cup {w} /\ UNCHANGED outq
                   ELSE outq' = Append(outq, <<busy[w][1], Encoded(job, s)>>) /\ UNCHANGED dead
  /\ UNCHANGED <<job, generatorVars, inq, rankVars>>

-----------------------------------------------------------------------------
(* The ranks (DataLoaderDispatcher)                                        *)

(* A rank starts an epoch; rank 0 also starts the generator, which yields  *)
(* nothing for an empty stream.                                            *)
StartEpoch(r) ==
  /\ phase[r] = "start" /\ epoch[r] < Epochs
  /\ epoch' = [epoch EXCEPT ![r] = @ + 1]
  /\ phase' = [phase EXCEPT ![r] = IF r = 1 THEN "collect" ELSE "scatter"]
  /\ IF r = 1
       THEN /\ at' = IF job.stream = << >> THEN "over" ELSE "put"
            /\ read' = 0 /\ num' = 0 /\ open' = << >> /\ made' = << >> /\ taken' = 0
            /\ toSkip' = IF epoch[r] = 0 THEN job.skip * NumRanks ELSE 0
       ELSE UNCHANGED <<at, read, num, open, made, taken, toSkip>>
  /\ UNCHANGED <<job, fetched, res, workerVars, group, got>>

Finish(r) ==
  /\ phase[r] = "start" /\ epoch[r] = Epochs
  /\ phase' = [phase EXCEPT ![r] = "done"]
  /\ UNCHANGED <<job, generatorVars, workerVars, epoch, toSkip, group, got, taken>>

Upto(n, s) == IF n > Len(s) THEN Len(s) ELSE n

(* The next batch of the data loader, the last one perhaps incomplete.     *)
NextBatch == SubSeq(made, taken + 1, Upto(taken + job.batchSize, made))
HasBatch  == \/ Len(made) - taken >= job.batchSize
             \/ at = "over" /\ taken < Len(made)

Collect ==
  /\ phase[1] = "collect" /\ HasBatch
  /\ taken' = taken + Len(NextBatch)
  /\ IF toSkip > 0
       THEN toSkip' = toSkip - 1 /\ UNCHANGED <<group, phase>>
       ELSE /\ group' = Append(group, NextBatch)
            /\ phase' = [phase EXCEPT ![1] = IF Len(group') = NumRanks THEN "scatter" ELSE @]
            /\ UNCHANGED toSkip
  /\ UNCHANGED <<job, generatorVars, workerVars, epoch, got>>

(* StopIteration: every rank is sent None, and what was collected is       *)
(* dropped; while batches are skipped it ends the job instead.             *)
Exhausted ==
  /\ phase[1] = "collect" /\ at = "over" /\ taken = Len(made)
  /\ IF toSkip > 0
       THEN at' = "failed" /\ UNCHANGED <<group, phase>>
       ELSE group' = << >> /\ phase' = [phase EXCEPT ![1] = "scatter"] /\ UNCHANGED at
  /\ UNCHANGED <<job, read, num, fetched, res, open, made, workerVars, epoch, toSkip, got, taken>>

(* _scatter_object_list is a collective.                                   *)
Scatter ==
  /\ \A r \in Ranks : phase[r] = "scatter"
  /\ phase' = [r \in Ranks |-> IF group = << >> THEN "start" ELSE "train"]
  /\ got' = [r \in Ranks |-> IF group = << >> THEN got[r] ELSE Append(got[r], group[r])]
  /\ group' = << >>
  /\ UNCHANGED <<job, generatorVars, workerVars, epoch, toSkip, taken>>

Train(r) ==
  /\ phase[r] = "train"
  /\ phase' = [phase EXCEPT ![r] = IF r = 1 THEN "collect" ELSE "scatter"]
  /\ UNCHANGED <<job, generatorVars, workerVars, epoch, toSkip, group, got, taken>>

Next ==
  \/ PutSample \/ PutEnd \/ Fetch \/ FetchFails \/ Match \/ Resume
  \/ Collect \/ Exhausted \/ Scatter
  \/ \E w \in Workers : Take(w) \/ Encode(w)
  \/ \E r \in Ranks : StartEpoch(r) \/ Finish(r) \/ Train(r)

Spec == Init /\ [][Next]_vars

(* Every process goes on as long as it can; all of them together make      *)
(* finitely many steps.                                                    *)
FairSpec == Spec /\ WF_vars(Next)

-----------------------------------------------------------------------------
(* Properties *)

Pieces(n) == FlattenSeq([s \in 1 .. n |-> Encoded(job, s)])

(* Packing loses and repeats nothing: the packs of an epoch and what is    *)
(* left over hold every piece of the samples of the finished rounds once,  *)
(* in the order of the stream with the sequential strategy; a pack is      *)
(* longer than packing_length only for one piece that is; and nothing is   *)
(* left over at the end.                                                   *)
PacksWhole ==
  LET packed == FlattenSeq(made) \o open
      due    == Pieces(read - num)
  IN  /\ Len(packed) = Len(due) /\ ToSet(packed) = ToSet(due)
      /\ job.strategy = "sequential" => packed = due
      /\ \A i \in DOMAIN made : Load(job, made[i]) <= PackingLength \/ Len(made[i]) = 1
      /\ at = "over" => open = << >>

(* What one process would pack that encodes the samples itself.            *)
LonePacks(j) ==
  LET n == Len(j.stream)
      Round(k) == FlattenSeq([i \in 1 .. (IF k <= n \div Interval THEN Interval ELSE n % Interval)
                                |-> Encoded(j, (k - 1) * Interval + i)])
      Step(s, k) == MatchedGroup(j, s.packs, s.rest \o Round(k), k > n \div Interval)
  IN  Fold(Step, Result(<< >>, << >>), [k \in 1 .. (n \div Interval) + 1 |-> k]).packs

(* The batches of an epoch for rank r, without the last ones if they are   *)
(* too few for all ranks.                                                  *)
Share(r, packs, b) ==
  [k \in 1 .. ((Len(packs) + b - 1) \div b) \div NumRanks |->
     LET first == ((k - 1) * NumRanks + r - 1) * b
     IN  SubSeq(packs, first + 1, Upto(first + b, packs))]

(* However the encoding processes interleave, rank r trains on exactly the *)
(* batches that a single process would have given it, epoch after epoch,   *)
(* beginning after those it skips when it resumes.                         *)
DeliveredInOrder ==
  \A packs \in {LonePacks(job)}, r \in Ranks :
    LET share == Share(r, packs, job.batchSize)
        all   == FlattenSeq([e \in 1 .. Epochs |->
                               SubSeq(share, (IF e = 1 THEN job.skip ELSE 0) + 1, Len(share))])
    IN  /\ IsPrefix(got[r], all)
        /\ phase[r] = "done" => got[r] = all

(* "a loud error is strictly better than a hang": every rank comes to the  *)
(* end of its epochs, or rank 0 fails; also when an encoding process dies. *)
FeedEnds == <>(at = "failed" \/ \A r \in Ranks : phase[r] = "done")
=============================================================================
