-------------------------- MODULE AsyncRolloutProofs --------------------------
(***************************************************************************)
(* Proofs about asynchronous rollouts (AsyncRollout with RolloutServer)    *)
(* for any number of ranks, workers, buckets, steps and evaluations,       *)
(* whichever rollouts and submissions fail.                                *)
(***************************************************************************)
EXTENDS AsyncRollout, DataLemmas, TLAPS

(* The settings whose evaluations the queues are made for: each starts on  *)
(* a step of its own, as two in a row do not (eval_strategy=epoch up to    *)
(* the last step, or max_epochs where an evaluation by steps falls on the  *)
(* end of the epoch), and after training has begun (eval_on_start).        *)
Scheduled ==
  ~EvalOnStart /\ \A s \in 1 .. LastStep : ~(EvaluatesOnStep(s) /\ EvaluatesOnEpoch(s))

Steps ==
  [op : Ops, q : Modes, data : Modes]
    \cup [op : SyncOps, q : {"train"}, data : {"train"}, bucket : 0 .. NumBuckets]
Insides == {Outside, "empty", "ready", "error", "inputs", "results", "train"}
Tasks == [q : Modes, no : Nat, data : Modes, at : 0 .. LastStep]
Commands ==
  [op : Requests, from : Callers, bucket : 0 .. NumBuckets, version : 0 .. LastStep]
Replies == [op : Requests, from : Callers, value : SUBSET (-1 .. LastStep)]
Calls ==
  [op : Requests \cup {"none"}, bucket : 0 .. NumBuckets, version : 0 .. LastStep,
   asked : SUBSET Workers, at : {"idle", "sent", "accepted", "receiving", "answered", "failed"},
   got : UNION {[V -> Replies] : V \in SUBSET Workers}]

Types ==
  /\ step \in 0 .. LastStep /\ resampled \in 0 .. MaxResample
  /\ todo \in [Ranks -> Seq(Steps)] /\ inside \in [Ranks -> Insides]
  /\ queue \in [Ranks -> [Modes -> Seq(DataCaches)]] /\ tasks \in [Ranks -> Seq(Tasks)]
  /\ sent \in [Ranks -> [Modes -> Nat]] /\ took \in [Ranks -> DataCaches]
  /\ lastLoaded \in [Ranks -> -1 .. LastStep]
  /\ raised \in [Ranks -> {"no", "alone", "together"}]

ServerTypes ==
  /\ call \in [Callers -> Calls] /\ serving \in Callers \cup {"nobody"}
  /\ pipe \in [Workers -> Seq(Commands)] /\ reply \in [Workers -> Seq(Replies)]
  /\ received \in [Workers -> BOOLEAN] /\ processed \in [Workers -> BOOLEAN]
  /\ weights \in [Workers -> [Buckets -> 0 .. LastStep]]
  /\ cache \in [Workers -> SUBSET (-1 .. LastStep)]

-----------------------------------------------------------------------------
(* The server: one call at a time                                          *)

Active(c) == call[c].at # "idle"
Handled(c) == call[c].at \in {"accepted", "receiving"}
Loading(w) == received[w] /\ pipe[w] # << >> /\ Head(pipe[w]).op = "update_flattened_params"

(* A worker has nothing to do but to load the bucket it has received.      *)
Trailing(w) ==
  /\ reply[w] = << >>
  /\ \/ ~received[w] /\ pipe[w] = << >>
     \/ Loading(w) /\ Tail(pipe[w]) = << >>

(* The command of c waits in the pipe, perhaps behind that bucket.         *)
Queued(w, c) ==
  /\ reply[w] = << >>
  /\ \/ ~received[w] /\ pipe[w] = <<Command(c)>>
     \/ Loading(w) /\ Tail(pipe[w]) = <<Command(c)>>

Answered(w, c) ==
  /\ ~received[w] /\ pipe[w] = << >>
  /\ IF w \in DOMAIN call[c].got
       THEN reply[w] = << >>
       ELSE Len(reply[w]) = 1 /\ Head(reply[w]).op = call[c].op /\ Head(reply[w]).from = c

Exclusive == \A c, d \in Callers : Active(c) /\ Active(d) => c = d

CallServed(c) ==
  /\ call[c].at = "idle" => call[c] = Idle
  /\ Active(c) => call[c].op \in Requests
  /\ call[c].at \in {"sent", "accepted"} => DOMAIN call[c].got = {}
  /\ call[c].at = "accepted" => c = "trainer" /\ call[c].op \notin Answering
  /\ call[c].at = "receiving" => call[c].op \in Answering
  /\ call[c].at = "failed" => call[c].op = "infer"
  /\ serving = c <=> call[c].at = "receiving" /\ call[c].op \in Blocking
  /\ \A w \in DOMAIN call[c].got : call[c].got[w].from = c /\ call[c].got[w].op = call[c].op

WorkerServed(w) ==
  /\ (\A c \in Callers : ~Handled(c)) => Trailing(w)
  /\ \A c \in Callers :
       /\ call[c].at = "accepted" => Queued(w, c)
       /\ call[c].at = "receiving" =>
            Answered(w, c) \/ (Queued(w, c) /\ w \notin DOMAIN call[c].got)
       /\ call[c].at \in {"answered", "failed"} /\ call[c].op \in Answering =>
            ~received[w] /\ DOMAIN call[c].got = Workers

Serving ==
  /\ Exclusive
  /\ \A c \in Callers : CallServed(c)
  /\ \A w \in Workers : WorkerServed(w)

-----------------------------------------------------------------------------
(* The weights: what they are at each call of a synchronisation            *)

NextOp == IF todo[Main] = << >> THEN "none" ELSE Head(todo[Main]).op
Synchronising == NextOp \in SyncOps
Uniform(w, v) ==
  /\ ~received[w] /\ processed[w] /\ cache[w] \subseteq {v}
  /\ \A b \in Buckets : weights[w][b] = v
Written(w, b) == weights[w][b] = step \/ (received[w] /\ Head(pipe[w]).bucket = b)
Completed(w) ==
  \/ call["trainer"].at = "answered"
  \/ call["trainer"].at = "receiving" /\ pipe[w] = << >>

WorkerWeights(w) ==
  /\ ~Synchronising => ~received[w]
  /\ ~Synchronising /\ lastLoaded[Main] # -1 => Uniform(w, lastLoaded[Main])
  /\ received[w] => Head(pipe[w]).version = step /\ Head(pipe[w]).bucket \in Buckets
  /\ NextOp = "update_flattened_params" =>
       \A b \in Buckets :
         \/ b < Head(todo[Main]).bucket
         \/ b = Head(todo[Main]).bucket /\ call["trainer"].at = "answered"
         => Written(w, b)
  /\ NextOp = "process_weights_after_loading" =>
       /\ \A b \in Buckets : Written(w, b)
       /\ Completed(w) => processed[w]
  /\ NextOp = "reset_prefix_cache" =>
       /\ ~received[w] /\ processed[w] /\ \A b \in Buckets : weights[w][b] = step
       /\ Completed(w) => cache[w] = {}

Weights ==
  /\ Synchronising => lastLoaded[Main] = step
  /\ \A w \in Workers : WorkerWeights(w)

(* Who calls: the main rank in its program, or its executor; and a rollout *)
(* is answered by the weights loaded last.                                 *)
RolloutCalls == Active("rollout") => tasks[Main] # << >> /\ call["rollout"].op = "infer"
TrainerCalls ==
  Active("trainer") =>
    /\ raised[Main] = "no" /\ inside[Main] = Outside
    /\ call["trainer"].op = NextOp
    /\ Synchronising => /\ call["trainer"].version = step
                        /\ call["trainer"].bucket = Head(todo[Main]).bucket
Genuine(value) == value \in {Failed, {lastLoaded[Main]}}
WorkerInfers(c, w) ==
  /\ reply[w] # << >> => Genuine(Head(reply[w]).value)
  /\ w \in DOMAIN call[c].got => Genuine(call[c].got[w].value)
Infers(c) ==
  Active(c) /\ call[c].op = "infer" =>
    /\ call[c].asked # {} /\ lastLoaded[Main] # -1
    /\ \A w \in Workers : WorkerInfers(c, w)
    /\ call[c].at = "answered" => ~Fails(c)

Calling == RolloutCalls /\ TrainerCalls /\ \A c \in Callers : Infers(c)

-----------------------------------------------------------------------------
(* The queues: where the result of the last rollout is                     *)

(* at is the last generation step up to m.                                 *)
Recent(at, m) == at % GenerateEvery = 0 /\ \A j \in at + 1 .. m : j % GenerateEvery # 0

Good(r, x, d, m) ==
  /\ d.data = x /\ d.no = sent[r][x] /\ d.at \in 0 .. step
  /\ r = Main => d.versions = {d.at}
  /\ x = "train" => Recent(d.at, m)

None(r, x)    == queue[r][x] = << >>
One(r, x, m)  == Len(queue[r][x]) = 1 /\ Good(r, x, Head(queue[r][x]), m)
NoTask(r)     == tasks[r] = << >>
UnderWay(r, x, t, m) ==
  /\ t.q = x /\ t.data = x /\ t.no = sent[r][x] /\ t.at \in 0 .. step
  /\ r = Main => t.at = lastLoaded[Main]
  /\ x = "train" => Recent(t.at, m)

(* One result of queue x is in the queue or under way, or has failed.      *)
Failure(r, x) == Len(queue[r][x]) = 1 /\ Head(queue[r][x]) = Error
Due(r, x, m) ==
  \/ NoTask(r) /\ (One(r, x, m) \/ Failure(r, x))
  \/ None(r, x) /\ Len(tasks[r]) = 1 /\ UnderWay(r, x, Head(tasks[r]), m)

(* The other queue, whose result has been waited for.                      *)
Other(q) == IF q = "train" THEN "eval" ELSE "train"
Stored(r, x) == One(r, x, step - 1) \/ (x = "eval" /\ None(r, x))

(* The result that has been taken and not yet used.                        *)
InHand(r, q, no) ==
  /\ took[r].data = q /\ took[r].no = no
  /\ q = "train" => took[r].at \in 0 .. step /\ Recent(took[r].at, step - 1)

-----------------------------------------------------------------------------
(* The programs: the steps from one place of a generation call on, where X *)
(* is what follows it                                                      *)

ToResults(q, X)  == <<Step("results", q, q)>> \o X
ToSubmit(q, X)   == <<Step("submit", q, q)>> \o ToResults(q, X)
ToTake(q, X)     == <<Step("take", q, q)>> \o ToSubmit(q, X)
ToSync(q, X)     == <<Step("sync", q, q)>> \o ToTake(q, X)
ToWait(q, X)     == <<Step("wait", q, "train")>> \o ToSync(q, X)
ToInfer(q, X)    == <<Step("infer", q, q)>> \o ToWait(q, X)
ToFill(q, X)     == <<Step("sync", q, q)>> \o ToInfer(q, X)
ToInputs(q, X)   == <<Step("inputs", q, q)>> \o ToFill(q, X)
ToPrefetch(q, X) == <<Step("prefetchIfEmpty", q, q)>> \o ToWait(q, X)
SyncsLeft(i)     == SubSeq(SyncCalls, i, NumBuckets + 2)

Kont(q, k, s) ==
  IF q = "train" THEN <<Plain("train")>>
                 ELSE Times(FastInfer("eval", "eval"), k) \o TrainingStep(s, TRUE)
ToEvaluate(s) == Wait("train") \o ToPrefetch("eval", Kont("eval", EvalBatches - 1, s))

-----------------------------------------------------------------------------
(* The phases of the training, each up to a collective, and where a rank   *)
(* may be in them                                                          *)

Synced(r) == r = Main => lastLoaded[r] = step
MainSyncs(r, program) ==
  r = Main /\ lastLoaded[r] = step /\ \E i \in 1 .. NumBuckets + 2 : todo[r] = SyncsLeft(i) \o program

Looking(r, q, X) ==
  /\ NoTask(r) /\ took[r] = Nothing
  /\ \/ todo[r] = ToPrefetch(q, X) /\ (None(r, q) \/ One(r, q, step - 1))
     \/ todo[r] = ToInputs(q, X) /\ None(r, q)
     \/ todo[r] = ToWait(q, X) /\ One(r, q, step - 1)

Filling(r, q, X) ==
  /\ NoTask(r) /\ took[r] = Nothing
  /\ \/ todo[r] = ToFill(q, X) /\ None(r, q)
     \/ MainSyncs(r, ToInfer(q, X)) /\ None(r, q)
     \/ todo[r] = ToInfer(q, X) /\ None(r, q) /\ Synced(r)
     \/ todo[r] = ToWait(q, X) /\ One(r, q, step - 1)

Waiting(r, q, X) == took[r] = Nothing /\ Due(r, q, step - 1) /\ todo[r] = ToWait(q, X)

Holding(r, q) == took[r] = Nothing /\ One(r, q, step - 1) /\ inside[r] = Outside
Taking(r, q, X) ==
  /\ NoTask(r)
  /\ \/ todo[r] = ToSync(q, X) /\ Holding(r, q)
     \/ MainSyncs(r, ToTake(q, X)) /\ Holding(r, q)
     \/ todo[r] = ToTake(q, X) /\ Synced(r) /\ Holding(r, q)
     \/ /\ todo[r] = ToTake(q, X) /\ Synced(r)
        /\ InHand(r, q, sent[r][q]) /\ None(r, q) /\ inside[r] = "inputs"

Submitting(r, q, X) ==
  \/ /\ todo[r] = ToSubmit(q, X) /\ NoTask(r) /\ None(r, q) /\ Synced(r)
     /\ InHand(r, q, sent[r][q])
  \/ /\ todo[r] = ToResults(q, X) /\ Due(r, q, step)
     /\ InHand(r, q, sent[r][q] - 1)

Evaluated(r) ==
  took[r] = Nothing /\ Due(r, "eval", step - 1) /\ todo[r] = TrainingStep(step, TRUE)
Training(r) ==
  took[r] = Nothing /\ Due(r, "train", step) /\ todo[r] = <<Plain("train")>>
Evaluating(r) ==
  took[r] = Nothing /\ Due(r, "train", step - 1) /\ todo[r] = ToEvaluate(step)
Over(r) == took[r] = Nothing /\ Due(r, "train", step - 1) /\ todo[r] = << >>

Generating == {"look", "fill", "wait", "take", "submit"}
Phases == Generating \cup {"evaluated", "train", "evaluate", "over"}

Local(r, phase, q, X) ==
  /\ Stored(r, Other(q))
  /\ phase = "look" => Looking(r, q, X)
  /\ phase = "fill" => Filling(r, q, X)
  /\ phase = "wait" => Waiting(r, q, X)
  /\ phase = "take" => Taking(r, q, X)
  /\ phase = "submit" => Submitting(r, q, X)
  /\ phase = "evaluated" => Evaluated(r)
  /\ phase = "train" => Training(r)
  /\ phase = "evaluate" => Evaluating(r)
  /\ phase = "over" => Over(r)

(* Ranks have started as many rollouts, but for the one of this phase, and *)
(* their queues are empty together where that decides what they do.        *)
Counted(r, x, phase, q) ==
  IF x = q /\ (\/ phase = "submit" /\ Head(todo[r]).op = "results"
               \/ phase = "fill" /\ Head(todo[r]).op = "wait")
    THEN sent[r][x] - 1 ELSE sent[r][x]
Known(phase, q) == IF phase = "look" THEN Modes ELSE {Other(q)}
Alike(phase, q) ==
  \A r, s \in Ranks :
    /\ \A x \in Modes : Counted(r, x, phase, q) = Counted(s, x, phase, q)
    /\ \A x \in Known(phase, q) : None(r, x) <=> None(s, x)

Bounds(phase, q) ==
  /\ phase = "evaluated" => q = "eval"
  /\ phase \in {"train", "evaluate", "over"} => q = "train"
  /\ phase = "train" => step < LastStep
  /\ phase \in Generating /\ q = "train" => step < LastStep /\ step % GenerateEvery = 0

Round(phase, q, k) ==
  /\ \A r \in Ranks : Local(r, phase, q, Kont(q, k, step))
  /\ Alike(phase, q) /\ Bounds(phase, q)
Rounds == \E phase \in Phases, q \in Modes, k \in 0 .. EvalBatches - 1 : Round(phase, q, k)

(* A rank is in a collective only at the step that is one.                 *)
Inside(r) ==
  /\ raised[r] # "no" => inside[r] = Outside
  /\ inside[r] # Outside => todo[r] # << >>
  /\ inside[r] \in {"empty", "ready", "error"} => Head(todo[r]).op = "wait"
  /\ inside[r] = "inputs" => Head(todo[r]).op \in {"inputs", "take"}
  /\ inside[r] \in {"results", "train"} => Head(todo[r]).op = inside[r]
  /\ inside[r] = "ready" => LET s == queue[r][Head(todo[r]).q] IN s # << >> /\ Head(s) # Error

Sound == ServerTypes /\ Serving /\ Weights /\ Calling
IInv == Types /\ Sound /\ Rounds /\ \A r \in Ranks : Inside(r)

-----------------------------------------------------------------------------
(* Programs                                                                *)

(* The first step of a program and the rest of it.                         *)
LEMMA Consed ==
  ASSUME NEW S, NEW a \in S, NEW s \in Seq(S)
  PROVE  /\ <<a>> \o s \in Seq(S) /\ <<a>> \o s # << >>
         /\ Head(<<a>> \o s) = a /\ Tail(<<a>> \o s) = s
<1> DEFINE u == <<a>> \o s
<1>1. u \in Seq(S) /\ Len(u) = 1 + Len(s) /\ u[1] = a /\ Len(s) \in Nat
  OBVIOUS
<1>2. \A i \in 1 .. Len(s) : u[i + 1] = s[i]
  OBVIOUS
<1>3. u # << >> /\ Head(u) = a
  BY <1>1
<1>4. Tail(u) \in Seq(S) /\ Len(Tail(u)) = Len(s) /\ \A i \in 1 .. Len(s) : Tail(u)[i] = u[i + 1]
  BY <1>1, <1>3
<1>5. Tail(u) = s
  BY <1>2, <1>4
<1> QED
  BY <1>1, <1>3, <1>5

(* The steps are well formed, and are what they are made of.               *)
LEMMA StepsAre ==
  /\ \A op \in Ops, q, d \in Modes :
       Step(op, q, d) \in Steps /\ Step(op, q, d).op = op /\ Step(op, q, d).q = q
         /\ Step(op, q, d).data = d
  /\ \A op \in SyncOps, b \in 0 .. NumBuckets :
       CallStep(op, b) \in Steps /\ CallStep(op, b).op = op /\ CallStep(op, b).bucket = b
  /\ Plain("train") = Step("train", "train", "train")
  /\ \A s \in Steps : s.op \in Ops /\ s.q \in Modes /\ s.data \in Modes
BY DEF Step, CallStep, Steps, Ops, Modes, SyncOps, Requests, Answering, Blocking, Plain

(* The operations and the two queues, spelled out.                         *)
LEMMA OpsAre ==
  /\ SyncOps = {"update_flattened_params", "process_weights_after_loading", "reset_prefix_cache"}
  /\ Ops = {"wait", "sync", "take", "submit", "results", "inputs", "infer", "train",
            "prefetchIfEmpty", "update_flattened_params", "process_weights_after_loading",
            "reset_prefix_cache"}
  /\ Requests = SyncOps \cup {"infer"} /\ Modes = {"train", "eval"}
  /\ Other("train") = "eval" /\ Other("eval") = "train"
  /\ \A q \in Modes : Other(q) \in Modes /\ Other(q) # q
BY DEF SyncOps, Ops, Requests, Answering, Blocking, Modes, Other
(* Each remainder of a generation call is its first step and a shorter     *)
(* one.                                                                    *)
LEMMA Programs ==
  ASSUME NEW q \in Modes, NEW X \in Seq(Steps)
  PROVE  /\ ToResults(q, X) \in Seq(Steps) /\ ToResults(q, X) # << >>
         /\ Head(ToResults(q, X)) = Step("results", q, q) /\ Tail(ToResults(q, X)) = X
         /\ ToSubmit(q, X) \in Seq(Steps) /\ ToSubmit(q, X) # << >>
         /\ Head(ToSubmit(q, X)) = Step("submit", q, q) /\ Tail(ToSubmit(q, X)) = ToResults(q, X)
         /\ ToTake(q, X) \in Seq(Steps) /\ ToTake(q, X) # << >>
         /\ Head(ToTake(q, X)) = Step("take", q, q) /\ Tail(ToTake(q, X)) = ToSubmit(q, X)
         /\ ToSync(q, X) \in Seq(Steps) /\ ToSync(q, X) # << >>
         /\ Head(ToSync(q, X)) = Step("sync", q, q) /\ Tail(ToSync(q, X)) = ToTake(q, X)
         /\ ToWait(q, X) \in Seq(Steps) /\ ToWait(q, X) # << >>
         /\ Head(ToWait(q, X)) = Step("wait", q, "train") /\ Tail(ToWait(q, X)) = ToSync(q, X)
         /\ ToInfer(q, X) \in Seq(Steps) /\ ToInfer(q, X) # << >>
         /\ Head(ToInfer(q, X)) = Step("infer", q, q) /\ Tail(ToInfer(q, X)) = ToWait(q, X)
         /\ ToFill(q, X) \in Seq(Steps) /\ ToFill(q, X) # << >>
         /\ Head(ToFill(q, X)) = Step("sync", q, q) /\ Tail(ToFill(q, X)) = ToInfer(q, X)
         /\ ToInputs(q, X) \in Seq(Steps) /\ ToInputs(q, X) # << >>
         /\ Head(ToInputs(q, X)) = Step("inputs", q, q) /\ Tail(ToInputs(q, X)) = ToFill(q, X)
         /\ ToPrefetch(q, X) \in Seq(Steps) /\ ToPrefetch(q, X) # << >>
         /\ Head(ToPrefetch(q, X)) = Step("prefetchIfEmpty", q, q)
         /\ Tail(ToPrefetch(q, X)) = ToWait(q, X)
<1>0. /\ \A op \in Ops, d \in Modes : Step(op, q, d) \in Steps
      /\ {"results", "submit", "take", "sync", "wait", "infer", "inputs", "prefetchIfEmpty"} \subseteq Ops
      /\ "train" \in Modes
  BY StepsAre, OpsAre
<1>1. /\ ToResults(q, X) \in Seq(Steps) /\ ToResults(q, X) # << >>
      /\ Head(ToResults(q, X)) = Step("results", q, q) /\ Tail(ToResults(q, X)) = X
  BY <1>0, Consed DEF ToResults
<1>2. /\ ToSubmit(q, X) \in Seq(Steps) /\ ToSubmit(q, X) # << >>
      /\ Head(ToSubmit(q, X)) = Step("submit", q, q) /\ Tail(ToSubmit(q, X)) = ToResults(q, X)
  BY <1>0, <1>1, Consed DEF ToSubmit
<1>3. /\ ToTake(q, X) \in Seq(Steps) /\ ToTake(q, X) # << >>
      /\ Head(ToTake(q, X)) = Step("take", q, q) /\ Tail(ToTake(q, X)) = ToSubmit(q, X)
  BY <1>0, <1>2, Consed DEF ToTake
<1>4. /\ ToSync(q, X) \in Seq(Steps) /\ ToSync(q, X) # << >>
      /\ Head(ToSync(q, X)) = Step("sync", q, q) /\ Tail(ToSync(q, X)) = ToTake(q, X)
  BY <1>0, <1>3, Consed DEF ToSync
<1>5. /\ ToWait(q, X) \in Seq(Steps) /\ ToWait(q, X) # << >>
      /\ Head(ToWait(q, X)) = Step("wait", q, "train") /\ Tail(ToWait(q, X)) = ToSync(q, X)
  BY <1>0, <1>4, Consed DEF ToWait
<1>6. /\ ToInfer(q, X) \in Seq(Steps) /\ ToInfer(q, X) # << >>
      /\ Head(ToInfer(q, X)) = Step("infer", q, q) /\ Tail(ToInfer(q, X)) = ToWait(q, X)
  BY <1>0, <1>5, Consed DEF ToInfer
<1>7. /\ ToFill(q, X) \in Seq(Steps) /\ ToFill(q, X) # << >>
      /\ Head(ToFill(q, X)) = Step("sync", q, q) /\ Tail(ToFill(q, X)) = ToInfer(q, X)
  BY <1>0, <1>6, Consed DEF ToFill
<1>8. /\ ToInputs(q, X) \in Seq(Steps) /\ ToInputs(q, X) # << >>
      /\ Head(ToInputs(q, X)) = Step("inputs", q, q) /\ Tail(ToInputs(q, X)) = ToFill(q, X)
  BY <1>0, <1>7, Consed DEF ToInputs
<1>9. /\ ToPrefetch(q, X) \in Seq(Steps) /\ ToPrefetch(q, X) # << >>
      /\ Head(ToPrefetch(q, X)) = Step("prefetchIfEmpty", q, q)
      /\ Tail(ToPrefetch(q, X)) = ToWait(q, X)
  BY <1>0, <1>5, Consed DEF ToPrefetch
<1> QED
  BY <1>1, <1>2, <1>3, <1>4, <1>5, <1>6, <1>7, <1>8, <1>9, Zenon

(* The tuples of the code, as one step before the others.                  *)
LEMMA Pair ==
  ASSUME NEW S, NEW X \in Seq(S), NEW b \in S, NEW c \in S
  PROVE  <<b, c>> \o X = <<b>> \o (<<c>> \o X)
<1>1. <<b>> \in Seq(S) /\ <<c>> \in Seq(S)
  OBVIOUS
<1>2. <<b, c>> = <<b>> \o <<c>>
  BY <1>1, AppendToOne, AppendIsConcat
<1>3. (<<b>> \o <<c>>) \o X = <<b>> \o (<<c>> \o X)
  BY <1>1, ConcatAssociative
<1> QED
  BY <1>2, <1>3

(* A generation call of five steps, as a chain of single steps.            *)
LEMMA Tuples ==
  ASSUME NEW S, NEW X \in Seq(S), NEW a \in S, NEW b \in S, NEW c \in S, NEW d \in S, NEW e \in S
  PROVE  /\ (<<a>> \o <<b, c, d, e>>) \o X = <<a>> \o (<<b>> \o (<<c>> \o (<<d>> \o (<<e>> \o X))))
         /\ Len(<<a>> \o <<b, c, d, e>>) = 5 /\ <<a>> \o <<b, c, d, e>> \in Seq(S)
<1> DEFINE e1 == <<e>> \o X
           d1 == <<d>> \o e1
           c1 == <<c>> \o d1
           b1 == <<b>> \o c1
<1>0. /\ <<a>> \in Seq(S) /\ <<b>> \in Seq(S) /\ <<c>> \in Seq(S) /\ <<d>> \in Seq(S)
      /\ <<e>> \in Seq(S) /\ <<b, c, d, e>> \in Seq(S) /\ <<c, d, e>> \in Seq(S)
      /\ <<d, e>> \in Seq(S)
  OBVIOUS
<1>1. /\ e1 \in Seq(S) /\ d1 \in Seq(S) /\ c1 \in Seq(S) /\ b1 \in Seq(S)
  <2>1. e1 \in Seq(S)
    BY <1>0, ConcatProperties
  <2> HIDE DEF e1
  <2>2. d1 \in Seq(S)
    BY <1>0, <2>1, ConcatProperties
  <2> HIDE DEF d1
  <2>3. c1 \in Seq(S)
    BY <1>0, <2>2, ConcatProperties
  <2> HIDE DEF c1
  <2> QED
    BY <1>0, <2>1, <2>2, <2>3, ConcatProperties
<1>2. /\ <<b, c, d, e>> = <<b>> \o <<c, d, e>> /\ <<c, d, e>> = <<c>> \o <<d, e>>
      /\ <<d, e>> = <<d>> \o <<e>>
  <2>1. <<b, c, d, e>> = <<b>> \o <<c, d, e>>
    OBVIOUS
  <2>2. <<c, d, e>> = <<c>> \o <<d, e>>
    OBVIOUS
  <2>3. <<d, e>> = <<d>> \o <<e>>
    BY <1>0, AppendToOne, AppendIsConcat
  <2> QED
    BY <2>1, <2>2, <2>3
<1>3. <<d, e>> \o X = d1
  BY <1>0, <1>2, ConcatAssociative
<1>4. <<c, d, e>> \o X = c1
  BY <1>0, <1>2, <1>3, ConcatAssociative
<1>5. <<b, c, d, e>> \o X = b1
  BY <1>0, <1>2, <1>4, ConcatAssociative
<1>8. (<<a>> \o <<b, c, d, e>>) \o X = <<a>> \o b1
  BY <1>0, <1>5, ConcatAssociative
<1>9. Len(<<a>> \o <<b, c, d, e>>) = 5 /\ <<a>> \o <<b, c, d, e>> \in Seq(S)
  OBVIOUS
<1> QED
  BY <1>8, <1>9

(* The calls of _fast_infer and of the prefetch as remainders of programs. *)
LEMMA Generation ==
  ASSUME NEW q \in Modes, NEW X \in Seq(Steps)
  PROVE  /\ FastInfer(q, q) \o X = ToWait(q, X)
         /\ FastInfer(q, q) \in Seq(Steps) /\ Len(FastInfer(q, q)) = 5
         /\ Prefetch(q, q) \o ToWait(q, X) = ToInputs(q, X)
<1>0. /\ Step("wait", q, "train") \in Steps /\ Step("sync", q, q) \in Steps
      /\ Step("take", q, q) \in Steps /\ Step("submit", q, q) \in Steps
      /\ Step("results", q, q) \in Steps /\ Step("inputs", q, q) \in Steps
      /\ Step("infer", q, q) \in Steps
  BY StepsAre, OpsAre
<1>1. /\ FastInfer(q, q) \o X = ToWait(q, X)
      /\ FastInfer(q, q) \in Seq(Steps) /\ Len(FastInfer(q, q)) = 5
  <2>1. PICK w \in Steps : w = Step("wait", q, "train")
    BY <1>0
  <2>2. PICK y \in Steps : y = Step("sync", q, q)
    BY <1>0
  <2>3. PICK t \in Steps : t = Step("take", q, q)
    BY <1>0
  <2>4. PICK u \in Steps : u = Step("submit", q, q)
    BY <1>0
  <2>5. PICK v \in Steps : v = Step("results", q, q)
    BY <1>0
  <2>6. FastInfer(q, q) = <<w>> \o <<y, t, u, v>>
    BY <2>1, <2>2, <2>3, <2>4, <2>5 DEF FastInfer, Wait
  <2>7. ToWait(q, X) = <<w>> \o (<<y>> \o (<<t>> \o (<<u>> \o (<<v>> \o X))))
    BY <2>1, <2>2, <2>3, <2>4, <2>5 DEF ToWait, ToSync, ToTake, ToSubmit, ToResults
  <2>8. /\ (<<w>> \o <<y, t, u, v>>) \o X = <<w>> \o (<<y>> \o (<<t>> \o (<<u>> \o (<<v>> \o X))))
        /\ Len(<<w>> \o <<y, t, u, v>>) = 5 /\ <<w>> \o <<y, t, u, v>> \in Seq(Steps)
    <3>1. \A a, b, c, d, e \in Steps :
            /\ (<<a>> \o <<b, c, d, e>>) \o X = <<a>> \o (<<b>> \o (<<c>> \o (<<d>> \o (<<e>> \o X))))
            /\ Len(<<a>> \o <<b, c, d, e>>) = 5 /\ <<a>> \o <<b, c, d, e>> \in Seq(Steps)
      BY Tuples
    <3> QED
      BY <3>1
  <2> QED
    BY <2>6, <2>7, <2>8
<1>2. PICK Y \in Seq(Steps) : Y = ToWait(q, X)
  BY Programs
<1>3. Prefetch(q, q) \o Y = ToInputs(q, X)
  <2>1. PICK a \in Steps : a = Step("inputs", q, q)
    BY <1>0
  <2>2. PICK b \in Steps : b = Step("sync", q, q)
    BY <1>0
  <2>3. PICK c \in Steps : c = Step("infer", q, q)
    BY <1>0
  <2>4. Prefetch(q, q) = <<a, b, c>> /\ ToInputs(q, X) = <<a>> \o (<<b>> \o (<<c>> \o Y))
    BY <1>2, <2>1, <2>2, <2>3 DEF Prefetch, ToInputs, ToFill, ToInfer
  <2>5. <<a, b, c>> \o Y = <<a>> \o (<<b>> \o (<<c>> \o Y))
    <3>1. /\ <<a>> \in Seq(Steps) /\ <<b>> \in Seq(Steps) /\ <<c>> \in Seq(Steps)
          /\ <<b, c>> \in Seq(Steps)
      OBVIOUS
    <3>2. <<b, c>> \o Y = <<b>> \o (<<c>> \o Y)
      BY Pair
    <3>3. <<a, b, c>> = <<a>> \o <<b, c>>
      OBVIOUS
    <3>4. (<<a>> \o <<b, c>>) \o Y = <<a>> \o (<<b, c>> \o Y)
      BY <3>1, ConcatAssociative
    <3> QED
      BY <3>2, <3>3, <3>4
  <2> QED
    BY <2>4, <2>5
<1> QED
  BY <1>1, <1>2, <1>3
(* Programs are chained in any order.                                      *)
LEMMA Chained == \A s, t, u \in Seq(Steps) : (s \o t) \o u = s \o (t \o u)
  BY ConcatAssociative

(* A synchronisation sends each bucket, then processes, then resets the    *)
(* cache.                                                                  *)
LEMMA SyncSteps ==
  /\ NumBuckets \in Nat \ {0} /\ SyncCalls \in Seq(Steps) /\ Len(SyncCalls) = NumBuckets + 2
  /\ \A i \in 1 .. NumBuckets : SyncCalls[i] = CallStep("update_flattened_params", i)
  /\ SyncCalls[NumBuckets + 1] = CallStep("process_weights_after_loading", 0)
  /\ SyncCalls[NumBuckets + 2] = CallStep("reset_prefix_cache", 0)
<1> DEFINE u == [b \in Buckets |-> CallStep("update_flattened_params", b)]
           v == <<CallStep("process_weights_after_loading", 0), CallStep("reset_prefix_cache", 0)>>
<1>0. NumBuckets \in Nat \ {0}
  BY ServerAssumption
<1>1. /\ \A b \in 0 .. NumBuckets : CallStep("update_flattened_params", b) \in Steps
      /\ CallStep("process_weights_after_loading", 0) \in Steps
      /\ CallStep("reset_prefix_cache", 0) \in Steps
  BY <1>0, StepsAre, OpsAre
<1>2. /\ u \in Seq(Steps) /\ Len(u) = NumBuckets
      /\ \A i \in 1 .. NumBuckets : u[i] = CallStep("update_flattened_params", i)
  BY <1>0, <1>1 DEF Buckets
<1>3. /\ v \in Seq(Steps) /\ Len(v) = 2 /\ v[1] = CallStep("process_weights_after_loading", 0)
      /\ v[2] = CallStep("reset_prefix_cache", 0)
  BY <1>1
<1>4. SyncCalls = u \o v
  BY DEF SyncCalls
<1> HIDE DEF u, v
<1>5. /\ u \o v \in Seq(Steps) /\ Len(u \o v) = NumBuckets + 2
      /\ \A i \in 1 .. NumBuckets : (u \o v)[i] = u[i]
      /\ (u \o v)[NumBuckets + 1] = v[1] /\ (u \o v)[NumBuckets + 2] = v[2]
  <2>1. /\ u \o v \in Seq(Steps) /\ Len(u \o v) = NumBuckets + 2
        /\ \A i \in 1 .. NumBuckets + 2 :
             (u \o v)[i] = IF i <= NumBuckets THEN u[i] ELSE v[i - NumBuckets]
    <3>1. /\ u \o v \in Seq(Steps) /\ Len(u \o v) = Len(u) + Len(v)
          /\ \A i \in 1 .. Len(u) + Len(v) :
               (u \o v)[i] = IF i <= Len(u) THEN u[i] ELSE v[i - Len(u)]
      BY <1>2, <1>3, ConcatProperties
    <3> QED
      BY <1>2, <1>3, <3>1
  <2> QED
    BY <1>0, <2>1
<1> QED
  BY <1>0, <1>2, <1>3, <1>4, <1>5

(* What is left of a synchronisation is its next call and a shorter        *)
(* remainder.                                                              *)
LEMMA SyncPrograms ==
  ASSUME NEW X \in Seq(Steps)
  PROVE  /\ \A i \in 1 .. NumBuckets + 2 :
              /\ SyncsLeft(i) \o X \in Seq(Steps) /\ SyncsLeft(i) \o X # << >>
              /\ Head(SyncsLeft(i) \o X) = SyncCalls[i]
              /\ Tail(SyncsLeft(i) \o X) = SyncsLeft(i + 1) \o X
         /\ SyncsLeft(NumBuckets + 3) \o X = X
         /\ SyncCalls \o X = SyncsLeft(1) \o X
<1>0. NumBuckets \in Nat \ {0} /\ SyncCalls \in Seq(Steps) /\ Len(SyncCalls) = NumBuckets + 2
  BY SyncSteps
<1>1. ASSUME NEW i \in 1 .. NumBuckets + 2
      PROVE  /\ SyncsLeft(i) \o X \in Seq(Steps) /\ SyncsLeft(i) \o X # << >>
             /\ Head(SyncsLeft(i) \o X) = SyncCalls[i]
             /\ Tail(SyncsLeft(i) \o X) = SyncsLeft(i + 1) \o X
  <2>1. SyncCalls[i] \in Steps /\ <<SyncCalls[i]>> \in Seq(Steps)
    BY <1>0
  <2>2. SyncsLeft(i) = <<SyncCalls[i]>> \o SyncsLeft(i + 1)
    BY <1>0, SubSeqRecursiveFirst DEF SyncsLeft
  <2>3. SyncsLeft(i + 1) \in Seq(Steps)
    <3>1. i + 1 \in Int /\ NumBuckets + 2 \in Int /\ \A j \in i + 1 .. NumBuckets + 2 : SyncCalls[j] \in Steps
      BY <1>0
    <3> QED
      BY <3>1, SubSeqProperties DEF SyncsLeft
  <2>4. PICK Y \in Seq(Steps) : Y = SyncsLeft(i + 1) \o X
    BY <2>3, ConcatProperties
  <2>5. SyncsLeft(i) \o X = <<SyncCalls[i]>> \o Y
    <3>1. PICK u \in Seq(Steps), v \in Seq(Steps) : u = <<SyncCalls[i]>> /\ v = SyncsLeft(i + 1)
      BY <2>1, <2>3
    <3>2. (u \o v) \o X = u \o (v \o X)
      BY Chained, Zenon
    <3>3. SyncsLeft(i) = u \o v /\ v \o X = Y
      BY <2>2, <2>4, <3>1, Zenon
    <3>4. SyncsLeft(i) \o X = u \o Y
      BY <3>2, <3>3, Zenon
    <3> QED
      BY <3>1, <3>4, Zenon
  <2> QED
    BY <2>1, <2>4, <2>5, Consed
<1>2. SyncsLeft(NumBuckets + 3) = << >>
  BY <1>0, SubSeqEmpty DEF SyncsLeft
<1>3. SyncsLeft(1) = SyncCalls
  BY <1>0, SubSeqFull DEF SyncsLeft
<1>4. << >> \o X = X
  BY ConcatEmptySeq
<1> QED
  BY <1>1, <1>2, <1>3, <1>4

(* A program of five steps repeated: its length, and one repetition peeled *)
(* off.                                                                    *)
LEMMA TimesAre ==
  ASSUME NEW S, NEW s \in Seq(S), Len(s) = 5, NEW k \in Nat
  PROVE  /\ Times(s, k) \in Seq(S) /\ Len(Times(s, k)) = 5 * k
         /\ Times(s, k + 1) = s \o Times(s, k)
         /\ Times(s, 0) = << >>
<1>1. \A n \in Nat : Times(s, n) \in Seq(S) /\ Len(Times(s, n)) = 5 * n
  <2> TAKE n \in Nat
  <2>1. n * Len(s) = 5 * n /\ 5 * n \in Nat
    OBVIOUS
  <2>2. \A i \in 1 .. 5 * n : 1 + ((i - 1) % Len(s)) \in 1 .. 5
    <3>1. \A m \in Nat : m % 5 \in 0 .. 4
      OBVIOUS
    <3>2. \A i \in 1 .. 5 * n : i - 1 \in Nat
      BY <2>1
    <3>3. \A a \in 0 .. 4 : 1 + a \in 1 .. 5
      OBVIOUS
    <3> QED
      BY <3>1, <3>2, <3>3
  <2>3. Times(s, n) = [i \in 1 .. 5 * n |-> s[1 + ((i - 1) % Len(s))]]
    BY <2>1 DEF Times
  <2>4. \A i \in 1 .. 5 * n : s[1 + ((i - 1) % Len(s))] \in S
    <3>1. \A j \in 1 .. 5 : s[j] \in S
      OBVIOUS
    <3> QED
      BY <2>2, <3>1
  <2>5. [i \in 1 .. 5 * n |-> s[1 + ((i - 1) % Len(s))]] \in [1 .. 5 * n -> S]
    BY <2>4
  <2>6. \A f \in [1 .. 5 * n -> S] : f \in Seq(S) /\ Len(f) = 5 * n
    BY <2>1
  <2> QED
    BY <2>3, <2>5, <2>6, Zenon
<1>2. \A n \in Nat : \A i \in 1 .. 5 * n : Times(s, n)[i] = s[1 + ((i - 1) % 5)]
  <2> TAKE n \in Nat
  <2>1. n * Len(s) = 5 * n
    OBVIOUS
  <2> QED
    BY <2>1 DEF Times
<1> DEFINE t == Times(s, k)
           u == Times(s, k + 1)
<1>3. t \in Seq(S) /\ Len(t) = 5 * k /\ u \in Seq(S) /\ Len(u) = 5 * k + 5
  <2>1. k + 1 \in Nat /\ 5 * (k + 1) = 5 * k + 5
    OBVIOUS
  <2> QED
    BY <1>1, <2>1
<1>4. \A i \in 1 .. 5 * k : t[i] = s[1 + ((i - 1) % 5)]
  BY <1>2
<1>5. \A i \in 1 .. 5 * k + 5 : u[i] = s[1 + ((i - 1) % 5)]
  <2>1. k + 1 \in Nat /\ 5 * (k + 1) = 5 * k + 5
    OBVIOUS
  <2> QED
    BY <1>2, <2>1
<1> HIDE DEF t, u
<1>6. /\ s \o t \in Seq(S) /\ Len(s \o t) = 5 * k + 5
      /\ \A i \in 1 .. 5 : (s \o t)[i] = s[i]
      /\ \A i \in 6 .. 5 * k + 5 : (s \o t)[i] = t[i - 5]
  <2>1. /\ s \o t \in Seq(S) /\ Len(s \o t) = 5 + 5 * k
        /\ \A i \in 1 .. 5 + 5 * k : (s \o t)[i] = IF i <= 5 THEN s[i] ELSE t[i - 5]
    <3>1. /\ s \o t \in Seq(S) /\ Len(s \o t) = Len(s) + Len(t)
          /\ \A i \in 1 .. Len(s) + Len(t) : (s \o t)[i] = IF i <= Len(s) THEN s[i] ELSE t[i - Len(s)]
      BY <1>3, ConcatProperties
    <3> QED
      BY <1>3, <3>1
  <2>2. 5 + 5 * k = 5 * k + 5 /\ \A i \in 1 .. 5 : i \in 1 .. 5 + 5 * k
    OBVIOUS
  <2>3. \A i \in 6 .. 5 * k + 5 : i \in 1 .. 5 + 5 * k /\ ~(i <= 5)
    OBVIOUS
  <2>4. \A i \in 1 .. 5 : (s \o t)[i] = s[i]
    BY <2>1, <2>2
  <2>5. \A i \in 6 .. 5 * k + 5 : (s \o t)[i] = t[i - 5]
    BY <2>1, <2>3
  <2> QED
    BY <2>1, <2>2, <2>4, <2>5, Zenon
<1>7. \A i \in 1 .. 5 * k + 5 : u[i] = (s \o t)[i]
  <2> TAKE i \in 1 .. 5 * k + 5
  <2>1. CASE i \in 1 .. 5
    <3>1. 1 + ((i - 1) % 5) = i
      BY <2>1
    <3> QED
      BY <1>5, <1>6, <2>1, <3>1
  <2>2. CASE i \in 6 .. 5 * k + 5
    <3>1. (i - 1) % 5 = ((i - 5) - 1) % 5 /\ i - 5 \in 1 .. 5 * k
      BY <2>2
    <3> QED
      BY <1>4, <1>5, <1>6, <2>2, <3>1
  <2>3. i \in 1 .. 5 \/ i \in 6 .. 5 * k + 5
    OBVIOUS
  <2> QED
    BY <2>1, <2>2, <2>3
<1>8. u = s \o t
  <2>1. Len(u) = Len(s \o t) /\ \A i \in 1 .. Len(u) : u[i] = (s \o t)[i]
    BY <1>3, <1>6, <1>7
  <2> QED
    BY <1>3, <1>6, <2>1, SeqEqual
<1>9. Times(s, 0) \in Seq(S) /\ Len(Times(s, 0)) = 0
  <2>1. 0 \in Nat /\ 5 * 0 = 0
    OBVIOUS
  <2> QED
    BY <1>1, <2>1
<1>10. Times(s, 0) = << >>
  BY <1>9
<1> QED
  BY <1>3, <1>8, <1>10 DEF t, u

(* The training ends with LastStep and not before.                         *)
LEMMA LastStepIs ==
  /\ LastStep \in Nat \ {0}
  /\ LastStep = NumSteps \/ Exhausted(LastStep)
  /\ \A s \in 0 .. LastStep : s # LastStep => ~(s = NumSteps \/ Exhausted(s))
<1>1. PICK n \in Nat \ {0}, e \in Nat \ {0}, m \in Nat : n = NumSteps /\ e = StepsPerEpoch /\ m = MaxEpochs
  BY AsyncAssumption
<1>2. PICK p \in Nat : p = m * e /\ (m # 0 => p # 0)
  BY Products
<1>3. LastStep = IF m # 0 /\ p < n THEN p ELSE n
  BY <1>1, <1>2 DEF LastStep
<1>4. \A s : Exhausted(s) <=> m # 0 /\ (s = n \/ s % e = 0) /\ p < s + e
  BY <1>1, <1>2 DEF Exhausted, EpochEnds
<1>5. p % e = 0
  <2>1. 0 \in 0 .. e - 1 /\ m * e + 0 = p
    BY <1>2
  <2> QED
    BY <2>1, QuotientIs
<1>6. ASSUME NEW s \in 0 .. LastStep, s # LastStep PROVE ~(s = n \/ Exhausted(s))
  <2>1. s \in Nat /\ s < n /\ (m # 0 => s < p)
    BY <1>2, <1>3, <1>6
  <2>2. ASSUME m # 0, s % e = 0 PROVE s + e <= p
    <3>1. PICK q \in Nat : q * e = s
      <4>1. s \div e \in Nat /\ s = (s \div e) * e + (s % e)
        BY <2>1, Division, Quotients
      <4>2. PICK q \in Nat : q = s \div e
        BY <4>1
      <4>3. PICK d \in Nat : d = q * e
        BY Products
      <4>4. d = s
        BY <4>1, <4>2, <4>3, <2>1, <2>2
      <4> QED
        BY <4>3, <4>4
    <3>2. q < m
      BY <1>2, <2>1, <2>2, <3>1, ProductMonotone
    <3> QED
      BY <1>2, <3>1, <3>2, ProductOrder
  <2> QED
    BY <1>4, <2>1, <2>2
<1>7. LastStep # n => Exhausted(LastStep)
  BY <1>3, <1>4, <1>5
<1> QED
  BY <1>1, <1>2, <1>3, <1>6, <1>7

(* What follows a generation call, an evaluation and an optimizer step.    *)
LEMMA TrainingSteps ==
  ASSUME NEW s \in 0 .. LastStep
  PROVE  /\ s = LastStep => TrainingStep(s, TRUE) = << >> /\ TrainingStep(s, FALSE) = << >>
         /\ s # LastStep => /\ TrainingStep(s, FALSE) \in Seq(Steps)
                            /\ TrainingStep(s, TRUE) = Wait("eval") \o TrainingStep(s, FALSE)
         /\ s # LastStep /\ s % GenerateEvery = 0 =>
              TrainingStep(s, FALSE) = ToWait("train", <<Plain("train")>>)
         /\ s # LastStep /\ s % GenerateEvery # 0 => TrainingStep(s, FALSE) = <<Plain("train")>>
         /\ TrainingStep(s, TRUE) \in Seq(Steps)
<1> DEFINE g == s % GenerateEvery = 0
<1>0. (s = NumSteps \/ Exhausted(s)) <=> s = LastStep
  BY LastStepIs
<1>1. PICK p \in Steps : p = Plain("train")
  BY StepsAre, OpsAre
<1>2. PICK w \in Steps : w = Step("wait", "eval", "train")
  BY StepsAre, OpsAre
<1>3. PICK f \in Seq(Steps) : f = FastInfer("train", "train")
  <2>1. "train" \in Modes /\ << >> \in Seq(Steps)
    BY OpsAre
  <2> QED
    BY <2>1, Generation
<1>4. /\ <<p>> \in Seq(Steps) /\ <<w>> \in Seq(Steps) /\ << >> \in Seq(Steps)
      /\ Wait("eval") = <<w>>
  BY <1>2 DEF Wait
<1>5. TrainingStep(s, TRUE) = IF s = LastStep THEN << >>
                              ELSE (<<w>> \o (IF g THEN f ELSE << >>)) \o <<p>>
  <2>1. TrainingStep(s, TRUE) = IF s = NumSteps \/ Exhausted(s) THEN << >>
                                ELSE (<<w>> \o (IF g THEN f ELSE << >>)) \o <<p>>
    BY <1>1, <1>3, <1>4, Zenon DEF TrainingStep
  <2> QED
    BY <1>0, <2>1, Zenon
<1>6. TrainingStep(s, FALSE) = IF s = LastStep THEN << >>
                               ELSE (<< >> \o (IF g THEN f ELSE << >>)) \o <<p>>
  <2>1. TrainingStep(s, FALSE) = IF s = NumSteps \/ Exhausted(s) THEN << >>
                                 ELSE (<< >> \o (IF g THEN f ELSE << >>)) \o <<p>>
    BY <1>1, <1>3 DEF TrainingStep
  <2> QED
    BY <1>0, <2>1, Zenon
<1>7. PICK h \in Seq(Steps) : h = IF g THEN f ELSE << >>
  BY <1>4
<1>8. << >> \o h = h /\ (<<w>> \o h) \o <<p>> = <<w>> \o (h \o <<p>>) /\ h \o <<p>> \in Seq(Steps)
  BY <1>4, ConcatEmptySeq, ConcatAssociative, ConcatProperties
<1>9. f \o <<p>> = ToWait("train", <<p>>)
  <2>1. <<p>> \in Seq(Steps) /\ "train" \in Modes
    BY OpsAre
  <2> QED
    BY <1>3, <2>1, Generation
<1>10. << >> \o <<p>> = <<p>>
  BY <1>4, ConcatEmptySeq
<1>11. s # LastStep => TrainingStep(s, FALSE) = h \o <<p>> /\ TrainingStep(s, TRUE) = <<w>> \o (h \o <<p>>)
  BY <1>5, <1>6, <1>7, <1>8
<1>12. <<w>> \o (h \o <<p>>) \in Seq(Steps)
  BY <1>4, <1>8, ConcatProperties
<1> QED
  BY <1>1, <1>4, <1>5, <1>6, <1>7, <1>8, <1>9, <1>10, <1>11, <1>12

(* What follows a generation call is a program, and unfolds batch by       *)
(* batch.                                                                  *)
LEMMA Continuations ==
  ASSUME NEW s \in 0 .. LastStep
  PROVE  /\ \A q \in Modes, k \in Nat : Kont(q, k, s) \in Seq(Steps)
         /\ \A k \in Nat : Kont("train", k, s) = <<Plain("train")>>
         /\ Kont("eval", 0, s) = TrainingStep(s, TRUE)
         /\ \A k \in Nat : Kont("eval", k + 1, s) = ToWait("eval", Kont("eval", k, s))
<1>1. PICK p \in Steps : p = Plain("train")
  BY StepsAre, OpsAre
<1>2. PICK t \in Seq(Steps) : t = TrainingStep(s, TRUE)
  BY TrainingSteps
<1>3. PICK f \in Seq(Steps) : f = FastInfer("eval", "eval") /\ Len(f) = 5
  BY Generation, OpsAre
<1>4. /\ \A k \in Nat : Kont("eval", k, s) = Times(f, k) \o t
      /\ \A k \in Nat : Kont("train", k, s) = <<p>>
  BY <1>1, <1>2, <1>3 DEF Kont
<1>5. /\ \A k \in Nat : Times(f, k) \in Seq(Steps) /\ Times(f, k + 1) = f \o Times(f, k)
      /\ Times(f, 0) = << >>
  <2>1. \A k \in Nat : Times(f, k) \in Seq(Steps) /\ Times(f, k + 1) = f \o Times(f, k)
    BY <1>3, TimesAre
  <2>2. Times(f, 0) = << >>
    BY <1>3, TimesAre
  <2> QED
    BY <2>1, <2>2
<1>6. \A k \in Nat : Times(f, k) \o t \in Seq(Steps)
  BY <1>5, ConcatProperties
<1>7. << >> \o t = t
  BY ConcatEmptySeq
<1>8. <<p>> \in Seq(Steps)
  OBVIOUS
<1>9. ASSUME NEW k \in Nat PROVE Kont("eval", k + 1, s) = ToWait("eval", Kont("eval", k, s))
  <2>1. PICK u \in Seq(Steps) : u = Times(f, k)
    BY <1>5
  <2>2. (f \o u) \o t = f \o (u \o t)
    BY Chained, Zenon
  <2>3. u \o t \in Seq(Steps)
    BY ConcatProperties
  <2>4. f \o (u \o t) = ToWait("eval", u \o t)
    BY <1>3, <2>3, Generation, OpsAre
  <2>5. Kont("eval", k + 1, s) = (f \o u) \o t
    <3>1. k + 1 \in Nat
      OBVIOUS
    <3> QED
      BY <1>4, <1>5, <2>1, <3>1
  <2> QED
    BY <1>4, <2>1, <2>2, <2>4, <2>5
<1>10. \A q \in Modes : q = "train" \/ q = "eval"
  BY OpsAre
<1>11. \A q \in Modes, k \in Nat : Kont(q, k, s) \in Seq(Steps)
  BY <1>4, <1>6, <1>8, <1>10
<1>12. Kont("eval", 0, s) = t
  BY <1>4, <1>5, <1>7
<1> QED
  BY <1>1, <1>2, <1>4, <1>9, <1>11, <1>12

(* The first program is a prefetch and a generation call of the training.  *)
LEMMA Beginnings ==
  Scheduled => /\ Beginning = ToInputs("train", Kont("train", 0, 0))
               /\ 0 \in 0 .. LastStep /\ 0 # LastStep /\ 0 % GenerateEvery = 0
<1> SUFFICES ASSUME Scheduled
             PROVE  /\ Beginning = ToInputs("train", Kont("train", 0, 0))
                    /\ 0 \in 0 .. LastStep /\ 0 # LastStep /\ 0 % GenerateEvery = 0
  OBVIOUS
<1>1. 0 \in 0 .. LastStep /\ 0 # LastStep /\ 0 % GenerateEvery = 0
  BY AsyncAssumption, LastStepIs
<1>2. /\ TrainingStep(0, FALSE) = ToWait("train", <<Plain("train")>>)
      /\ TrainingStep(0, FALSE) \in Seq(Steps)
  BY <1>1, TrainingSteps
<1>3. Kont("train", 0, 0) = <<Plain("train")>>
  BY DEF Kont
<1>4. Beginning = (Prefetch("train", "train") \o << >>) \o TrainingStep(0, FALSE)
  <2>1. EvalOnStart = FALSE
    BY AsyncAssumption DEF Scheduled
  <2> QED
    BY <2>1 DEF Beginning
<1>5. PICK b \in Seq(Steps) : b = Prefetch("train", "train")
  <2>1. /\ Step("inputs", "train", "train") \in Steps /\ Step("sync", "train", "train") \in Steps
        /\ Step("infer", "train", "train") \in Steps
    BY StepsAre, OpsAre
  <2>2. \A a, c, d \in Steps : <<a, c, d>> \in Seq(Steps)
    OBVIOUS
  <2>3. Prefetch("train", "train") \in Seq(Steps)
    BY <2>1, <2>2, Zenon DEF Prefetch
  <2> QED
    BY <2>3
<1>6. b \o << >> = b
  BY ConcatEmptySeq
<1>7. <<Plain("train")>> \in Seq(Steps) /\ "train" \in Modes
  BY StepsAre, OpsAre
<1>8. Prefetch("train", "train") \o ToWait("train", <<Plain("train")>>) = ToInputs("train", <<Plain("train")>>)
  BY <1>7, Generation
<1> QED
  BY <1>1, <1>2, <1>3, <1>4, <1>5, <1>6, <1>8

(* After a step comes one evaluation or the next training step.            *)
LEMMA AfterSteps ==
  ASSUME Scheduled, NEW s \in 1 .. LastStep
  PROVE  /\ AfterStep(s) \in {ToEvaluate(s), TrainingStep(s, FALSE)}
         /\ ToEvaluate(s) = <<Step("wait", "train", "train")>>
                              \o ToPrefetch("eval", Kont("eval", EvalBatches - 1, s))
         /\ EvalBatches - 1 \in 0 .. EvalBatches - 1
<1>0. s \in 0 .. LastStep /\ EvalBatches - 1 \in Nat /\ (EvalBatches - 1) + 1 = EvalBatches
  BY AsyncAssumption, LastStepIs
<1>1. PICK t \in Seq(Steps) : t = TrainingStep(s, TRUE)
  BY <1>0, TrainingSteps
<1>2. PICK e \in Seq(Steps) : e = Times(FastInfer("eval", "eval"), EvalBatches)
  <2>1. FastInfer("eval", "eval") \in Seq(Steps) /\ Len(FastInfer("eval", "eval")) = 5
    BY Generation, OpsAre, EmptySeq
  <2> QED
    BY <2>1, TimesAre, AsyncAssumption
<1>3. PICK w \in Steps : w = Step("wait", "train", "train")
  BY StepsAre, OpsAre
<1>4. PICK p \in Steps : p = Step("prefetchIfEmpty", "eval", "eval")
  BY StepsAre, OpsAre
<1>5. Evaluation(TRUE) = (<<w>> \o <<p>>) \o e
  BY <1>2, <1>3, <1>4 DEF Evaluation, CurrentQueue, Wait
<1>6. /\ <<w>> \in Seq(Steps) /\ <<p>> \in Seq(Steps) /\ e \o t \in Seq(Steps)
      /\ <<w>> \o <<p>> \in Seq(Steps)
  BY ConcatProperties
<1>7. ((<<w>> \o <<p>>) \o e) \o t = <<w>> \o (<<p>> \o (e \o t))
  <2>1. ((<<w>> \o <<p>>) \o e) \o t = (<<w>> \o <<p>>) \o (e \o t)
    BY <1>6, ConcatAssociative
  <2>2. (<<w>> \o <<p>>) \o (e \o t) = <<w>> \o (<<p>> \o (e \o t))
    BY <1>6, ConcatAssociative
  <2> QED
    BY <2>1, <2>2
<1>8. e \o t = ToWait("eval", Kont("eval", EvalBatches - 1, s))
  <2>1. e \o t = Kont("eval", EvalBatches, s)
    BY <1>1, <1>2 DEF Kont
  <2>2. Kont("eval", (EvalBatches - 1) + 1, s) = ToWait("eval", Kont("eval", EvalBatches - 1, s))
    BY <1>0, Continuations
  <2> QED
    BY <1>0, <2>1, <2>2
<1>9. ToEvaluate(s) = <<w>> \o (<<p>> \o (e \o t))
  BY <1>3, <1>4, <1>8 DEF ToEvaluate, Wait, ToPrefetch
<1>10. Evaluation(TRUE) \in Seq(Steps)
  BY <1>5, <1>6, ConcatProperties
<1>11. /\ (Evaluation(TRUE) \o << >>) \o t = ToEvaluate(s)
       /\ (<< >> \o Evaluation(TRUE)) \o t = ToEvaluate(s)
  BY <1>5, <1>7, <1>9, <1>10, ConcatEmptySeq
<1>12. (<< >> \o << >>) \o TrainingStep(s, FALSE) = TrainingStep(s, FALSE)
  <2>1. TrainingStep(s, FALSE) \in Seq(Steps)
    BY <1>0, TrainingSteps, EmptySeq
  <2> QED
    BY <2>1, ConcatEmptySeq
<1>13. ~(EvaluatesOnStep(s) /\ EvaluatesOnEpoch(s))
  BY DEF Scheduled
<1>14. EvalBatches - 1 \in 0 .. EvalBatches - 1
  BY <1>0
<1>15. ToEvaluate(s) = <<Step("wait", "train", "train")>>
                              \o ToPrefetch("eval", Kont("eval", EvalBatches - 1, s))
  BY DEF ToEvaluate, Wait
<1>16. CASE EvaluatesOnStep(s)
  <2>1. AfterStep(s) = (Evaluation(TRUE) \o << >>) \o t
    BY <1>1, <1>13, <1>16 DEF AfterStep
  <2> QED
    BY <1>11, <1>14, <1>15, <2>1, Zenon
<1>17. CASE EvaluatesOnEpoch(s)
  <2>1. AfterStep(s) = (<< >> \o Evaluation(TRUE)) \o t
    BY <1>1, <1>13, <1>17 DEF AfterStep
  <2> QED
    BY <1>11, <1>14, <1>15, <2>1, Zenon
<1>18. CASE ~EvaluatesOnStep(s) /\ ~EvaluatesOnEpoch(s)
  <2>1. AfterStep(s) = (<< >> \o << >>) \o TrainingStep(s, FALSE)
    BY <1>18 DEF AfterStep
  <2> QED
    BY <1>12, <1>14, <1>15, <2>1, Zenon
<1> QED
  BY <1>16, <1>17, <1>18

-----------------------------------------------------------------------------
(* Recency                                                                 *)

(* A rollout of this round or the last stays within one round of its use.  *)
LEMMA Recency ==
  ASSUME NEW s \in Nat, NEW at \in 0 .. s
  PROVE  /\ s % GenerateEvery = 0 => Recent(s, s)
         /\ Recent(at, s - 1) /\ s % GenerateEvery # 0 => Recent(at, s)
         /\ Recent(at, s) => Recent(at, s - 1)
         /\ Recent(at, s - 1) => s - at <= GenerateEvery
<1>0. GenerateEvery \in Nat \ {0} /\ s \in Int /\ at \in Int
  BY AsyncAssumption
<1>1. s % GenerateEvery = 0 => Recent(s, s)
  <2>1. s + 1 .. s = {}
    OBVIOUS
  <2> QED
    BY <2>1 DEF Recent
<1>2. Recent(at, s - 1) /\ s % GenerateEvery # 0 => Recent(at, s)
  <2>1. \A j \in at + 1 .. s : j \in at + 1 .. s - 1 \/ j = s
    OBVIOUS
  <2> QED
    BY <2>1 DEF Recent
<1>3. Recent(at, s) => Recent(at, s - 1)
  <2>1. \A j \in at + 1 .. s - 1 : j \in at + 1 .. s
    OBVIOUS
  <2> QED
    BY <2>1 DEF Recent
<1>4. ASSUME Recent(at, s - 1), ~(s - at <= GenerateEvery) PROVE FALSE
  <2>1. at + GenerateEvery \in at + 1 .. s - 1
    BY <1>0, <1>4
  <2>2. at % GenerateEvery = 0 /\ (at + GenerateEvery) % GenerateEvery # 0
    BY <1>4, <2>1 DEF Recent
  <2>3. (at + GenerateEvery) % GenerateEvery = 0
    <3>1. \A a \in Nat, g \in Nat \ {0} : a % g = 0 => a = g * (a \div g) /\ a \div g \in Nat
      OBVIOUS
    <3>2. \A q \in Nat, g \in Nat \ {0} : (g * q) % g = 0 /\ g * q + g = g * (q + 1) /\ q + 1 \in Nat
      OBVIOUS
    <3>3. at \in Nat
      OBVIOUS
    <3>4. PICK q \in Nat : at = GenerateEvery * q
      BY <1>0, <2>2, <3>1, <3>3
    <3>5. (GenerateEvery * (q + 1)) % GenerateEvery = 0 /\ at + GenerateEvery = GenerateEvery * (q + 1)
      BY <1>0, <3>2, <3>4
    <3> QED
      BY <3>5
  <2> QED
    BY <2>2, <2>3
<1> QED
  BY <1>1, <1>2, <1>3, <1>4

-----------------------------------------------------------------------------
(* The server                                                              *)

(* The callers and the requests, spelled out.                              *)
LEMMA ServerSets ==
  /\ Callers = {"trainer", "rollout"}
  /\ Blocking = {"infer", "reset_prefix_cache"}
  /\ Answering = {"infer", "reset_prefix_cache", "process_weights_after_loading"}
  /\ Requests = Answering \cup {"update_flattened_params"}
BY DEF Callers, Blocking, Answering, Requests

(* A worker that executes a command with an answer has nothing else in its *)
(* pipes.                                                                  *)
LEMMA ExecutesOne ==
  ASSUME ServerTypes, Serving, NEW w \in Workers, NEW op \in Answering, Executing(w, op)
  PROVE  \E c \in Callers : /\ call[c].at = "receiving" /\ call[c].op = op
                            /\ pipe[w] = <<Command(c)>> /\ reply[w] = << >>
                            /\ ~received[w] /\ w \notin DOMAIN call[c].got
<1>1. /\ pipe[w] # << >> /\ Head(pipe[w]).op = op /\ op # "update_flattened_params"
      /\ ~Loading(w)
  BY ServerSets DEF Executing, Loading
<1>2. ~Trailing(w)
  BY <1>1 DEF Trailing
<1>3. WorkerServed(w)
  BY DEF Serving
<1>4. PICK c \in Callers : Handled(c)
  BY <1>2, <1>3 DEF WorkerServed
<1>5. CallServed(c)
  BY DEF Serving
<1>6. Head(<<Command(c)>>).op = call[c].op
  BY DEF Command
<1>7. Queued(w, c) => reply[w] = << >> /\ ~received[w] /\ pipe[w] = <<Command(c)>> /\ op = call[c].op
  BY <1>1, <1>6 DEF Queued
<1>8. call[c].at # "accepted"
  BY <1>3, <1>5, <1>7 DEF WorkerServed, CallServed
<1>9. call[c].at = "receiving"
  BY <1>4, <1>8 DEF Handled
<1>10. ~Answered(w, c)
  BY <1>1 DEF Answered
<1>11. Queued(w, c) /\ w \notin DOMAIN call[c].got
  BY <1>3, <1>9, <1>10 DEF WorkerServed
<1> QED
  BY <1>7, <1>9, <1>11

(* What a worker knows of the server does not depend on the others.        *)
LEMMA WorkerFrame ==
  ASSUME NEW w \in Workers, WorkerServed(w), call' = call, pipe'[w] = pipe[w],
         reply'[w] = reply[w], received'[w] = received[w]
  PROVE  WorkerServed(w)'
BY DEF WorkerServed, Trailing, Queued, Answered, Loading, Handled, Command

(* A queue of one element.                                                 *)
LEMMA OneReply ==
  ASSUME NEW S, NEW x \in S
  PROVE  /\ Append(<< >>, x) = <<x>> /\ <<x>> \in Seq(S) /\ Len(<<x>>) = 1 /\ Head(<<x>>) = x
         /\ <<x>> # << >> /\ Tail(<<x>>) = << >>
OBVIOUS

(* A worker that answers the command it executes keeps Serving.            *)
LEMMA AnswerServed ==
  ASSUME ServerTypes, Serving, NEW w \in Workers, NEW op \in Answering, Executing(w, op),
         NEW value \in SUBSET (-1 .. LastStep), pipe' = Next1(w), reply' = Answer(w, value),
         UNCHANGED <<call, serving, received>>
  PROVE  /\ Serving'
         /\ pipe' \in [Workers -> Seq(Commands)] /\ reply' \in [Workers -> Seq(Replies)]
         /\ \A v \in Workers : v # w => pipe'[v] = pipe[v] /\ reply'[v] = reply[v]
         /\ pipe[w] # << >> /\ pipe'[w] = << >> /\ ~received[w]
         /\ reply'[w] # << >> /\ Head(reply'[w]).value = value
         /\ \E c \in Callers : call[c].at = "receiving" /\ call[c].op = op
<1>1. PICK c \in Callers : /\ call[c].at = "receiving" /\ call[c].op = op
                           /\ pipe[w] = <<Command(c)>> /\ reply[w] = << >>
                           /\ ~received[w] /\ w \notin DOMAIN call[c].got
  BY ExecutesOne
<1>2. pipe \in [Workers -> Seq(Commands)] /\ reply \in [Workers -> Seq(Replies)] /\ call[c] \in Calls
  BY DEF ServerTypes
<1>3. pipe' = [pipe EXCEPT ![w] = Tail(pipe[w])] /\ Tail(pipe[w]) = << >>
  BY <1>1, <1>2 DEF Next1
<1>4. PICK r \in Replies : r = Reply(Head(pipe[w]), value)
  <2>1. Head(pipe[w]) = Command(c)
    BY <1>1
  <2>2. Reply(Head(pipe[w]), value) = [op |-> op, from |-> c, value |-> value]
    BY <1>1, <2>1 DEF Reply, Command
  <2>3. op \in Requests
    BY ServerSets
  <2> QED
    BY <2>2, <2>3 DEF Replies
<1>5. r.value = value /\ r.op = op /\ r.from = c
  <2>1. Head(pipe[w]) = Command(c)
    BY <1>1
  <2> QED
    BY <1>1, <1>4, <2>1 DEF Reply, Command
<1>6. reply' = [reply EXCEPT ![w] = <<r>>]
  BY <1>1, <1>4, OneReply DEF Answer
<1>7. pipe'[w] = << >> /\ \A v \in Workers : v # w => pipe'[v] = pipe[v]
  BY <1>2, <1>3
<1>8. reply'[w] = <<r>> /\ \A v \in Workers : v # w => reply'[v] = reply[v]
  BY <1>2, <1>6
<1>9. pipe' \in [Workers -> Seq(Commands)] /\ reply' \in [Workers -> Seq(Replies)]
  <2>1. <<r>> \in Seq(Replies) /\ << >> \in Seq(Commands)
    BY OneReply
  <2> QED
    BY <1>2, <1>3, <1>6, <2>1
<1>10. Exclusive' /\ \A d \in Callers : CallServed(d)'
  BY DEF Serving, Exclusive, CallServed, Active
<1>11. ASSUME NEW v \in Workers PROVE WorkerServed(v)'
  <2>1. WorkerServed(v)
    BY DEF Serving
  <2>2. CASE v # w
    BY <1>7, <1>8, <2>1, <2>2, WorkerFrame
  <2>3. CASE v = w
    <3>1. Answered(w, c)'
      BY <1>1, <1>5, <1>7, <1>8, OneReply DEF Answered
    <3>2. \A d \in Callers : d # c => call[d].at = "idle"
      BY <1>1 DEF Serving, Exclusive, Active
    <3>3. Handled(c)'
      BY <1>1 DEF Handled
    <3> QED
      BY <1>1, <2>3, <3>1, <3>2, <3>3 DEF WorkerServed
  <2> QED
    BY <2>2, <2>3
<1>12. Serving'
  BY <1>10, <1>11 DEF Serving
<1> QED
  BY <1>1, <1>5, <1>7, <1>8, <1>9, <1>12, OneReply

(* What the server owes the training, and what the training owes it: no    *)
(* rollout is under way while the main rank calls on its own.              *)
Quiet ==
  /\ tasks[Main] # << >> => ~Synchronising /\ NextOp # "infer"
  /\ Synchronising => Head(todo[Main]).bucket \in 0 .. NumBuckets
  /\ NextOp = "update_flattened_params" => Head(todo[Main]).bucket \in Buckets

(* The weights of a worker that nothing touches keep their invariant.      *)
LEMMA WeightsFrame ==
  ASSUME NEW w \in Workers, WorkerWeights(w), UNCHANGED trainVars, call' = call,
         pipe'[w] = pipe[w], received'[w] = received[w], weights'[w] = weights[w],
         processed'[w] = processed[w], cache'[w] = cache[w]
  PROVE  WorkerWeights(w)'
BY DEF WorkerWeights, Uniform, Written, Completed, NextOp, Synchronising, trainVars

(* Who has asked for the command that a worker executes.                   *)
LEMMA CallerOf ==
  ASSUME Sound, Quiet, NEW c \in Callers, call[c].at = "receiving"
  PROVE  /\ \A d \in Callers : Active(d) => d = c
         /\ call[c].op = "infer" => ~Synchronising /\ lastLoaded[Main] # -1
         /\ call[c].op # "infer" => c = "trainer" /\ NextOp = call[c].op /\ Synchronising
<1>1. Active(c)
  BY DEF Active
<1>2. \A d \in Callers : Active(d) => d = c
  BY <1>1 DEF Sound, Serving, Exclusive
<1>3. c = "trainer" => call[c].op = NextOp
  BY <1>1 DEF Sound, Calling, TrainerCalls
<1>4. c = "rollout" => call[c].op = "infer" /\ ~Synchronising
  BY <1>1 DEF Sound, Calling, RolloutCalls, Quiet
<1>5. c = "trainer" \/ c = "rollout"
  BY DEF Callers
<1>6. call[c].op = "infer" => lastLoaded[Main] # -1
  BY <1>1 DEF Sound, Calling, Infers
<1>7. call[c].op \in Requests
  BY <1>1 DEF Sound, Serving, CallServed
<1> QED
  BY <1>2, <1>3, <1>4, <1>5, <1>6, <1>7, OpsAre DEF Synchronising

(* Post-processing the weights keeps what server and training owe each     *)
(* other.                                                                  *)
LEMMA ProcessSound ==
  ASSUME Sound, Quiet, NEW w \in Workers, ProcessWeights(w), UNCHANGED trainVars
  PROVE  Sound'
<1> DEFINE op == "process_weights_after_loading"
<1>0. /\ ServerTypes /\ Serving /\ Weights /\ Calling /\ op \in Answering /\ op # "infer"
      /\ {0} \in SUBSET (-1 .. LastStep)
  BY ServerSets, AsyncAssumption, LastStepIs DEF Sound
<1>1. /\ Executing(w, op) /\ pipe' = Next1(w) /\ reply' = Answer(w, {0})
      /\ UNCHANGED <<call, serving, received>> /\ UNCHANGED <<weights, cache>>
      /\ processed' = [processed EXCEPT ![w] = TRUE]
  BY DEF ProcessWeights
<1>2. /\ Serving'
      /\ pipe' \in [Workers -> Seq(Commands)] /\ reply' \in [Workers -> Seq(Replies)]
      /\ \A v \in Workers : v # w => pipe'[v] = pipe[v] /\ reply'[v] = reply[v]
      /\ pipe[w] # << >> /\ ~received[w]
      /\ \E c \in Callers : call[c].at = "receiving" /\ call[c].op = op
  BY <1>0, <1>1, AnswerServed, Zenon
<1>3. PICK c \in Callers : call[c].at = "receiving" /\ call[c].op = op
  BY <1>2
<1>4. c = "trainer" /\ NextOp = op /\ Synchronising /\ \A d \in Callers : Active(d) => d = c
  BY <1>0, <1>3, CallerOf
<1>5. ServerTypes'
  BY <1>0, <1>1, <1>2 DEF ServerTypes
<1>6. ASSUME NEW v \in Workers PROVE WorkerWeights(v)'
  <2>1. WorkerWeights(v)
    BY <1>0 DEF Weights
  <2>2. CASE v # w
    BY <1>0, <1>1, <1>2, <2>1, <2>2, WeightsFrame DEF ServerTypes
  <2>3. CASE v = w
    <3>1. processed'[w] = TRUE
      BY <1>0, <1>1 DEF ServerTypes
    <3> QED
      BY <1>1, <1>2, <1>4, <2>1, <2>3, <3>1 DEF WorkerWeights, Written, NextOp, Synchronising, trainVars
  <2> QED
    BY <2>2, <2>3
<1>7. Weights'
  BY <1>0, <1>6 DEF Weights, Synchronising, NextOp, trainVars
<1>8. Calling'
  <2>1. RolloutCalls' /\ TrainerCalls'
    BY <1>0, <1>1 DEF Calling, RolloutCalls, TrainerCalls, Active, NextOp, Synchronising, trainVars
  <2>2. \A d \in Callers : Infers(d)'
    BY <1>0, <1>1, <1>3, <1>4 DEF Infers, Active
  <2> QED
    BY <2>1, <2>2 DEF Calling
<1> QED
  BY <1>2, <1>5, <1>7, <1>8 DEF Sound

(* So does resetting the prefix cache,                                     *)
LEMMA ResetSound ==
  ASSUME Sound, Quiet, NEW w \in Workers, ResetPrefixCache(w), UNCHANGED trainVars
  PROVE  Sound'
<1> DEFINE op == "reset_prefix_cache"
<1>0. /\ ServerTypes /\ Serving /\ Weights /\ Calling /\ op \in Answering /\ op # "infer"
      /\ {0} \in SUBSET (-1 .. LastStep)
  BY ServerSets, AsyncAssumption, LastStepIs DEF Sound
<1>1. /\ Executing(w, op) /\ pipe' = Next1(w) /\ reply' = Answer(w, {0})
      /\ UNCHANGED <<call, serving, received>> /\ UNCHANGED <<weights, processed>>
      /\ cache' = [cache EXCEPT ![w] = {}]
  BY DEF ResetPrefixCache
<1>2. /\ Serving'
      /\ pipe' \in [Workers -> Seq(Commands)] /\ reply' \in [Workers -> Seq(Replies)]
      /\ \A v \in Workers : v # w => pipe'[v] = pipe[v] /\ reply'[v] = reply[v]
      /\ pipe[w] # << >> /\ ~received[w]
      /\ \E c \in Callers : call[c].at = "receiving" /\ call[c].op = op
  BY <1>0, <1>1, AnswerServed, Zenon
<1>3. PICK c \in Callers : call[c].at = "receiving" /\ call[c].op = op
  BY <1>2
<1>4. c = "trainer" /\ NextOp = op /\ Synchronising /\ \A d \in Callers : Active(d) => d = c
  BY <1>0, <1>3, CallerOf
<1>5. ServerTypes'
  BY <1>0, <1>1, <1>2 DEF ServerTypes
<1>6. ASSUME NEW v \in Workers PROVE WorkerWeights(v)'
  <2>1. WorkerWeights(v)
    BY <1>0 DEF Weights
  <2>2. CASE v # w
    BY <1>0, <1>1, <1>2, <2>1, <2>2, WeightsFrame DEF ServerTypes
  <2>3. CASE v = w
    <3>1. cache'[w] = {}
      BY <1>0, <1>1 DEF ServerTypes
    <3> QED
      BY <1>1, <1>2, <1>4, <2>1, <2>3, <3>1 DEF WorkerWeights, Written, NextOp, Synchronising, trainVars
  <2> QED
    BY <2>2, <2>3
<1>7. Weights'
  BY <1>0, <1>6 DEF Weights, Synchronising, NextOp, trainVars
<1>8. Calling'
  <2>1. RolloutCalls' /\ TrainerCalls'
    BY <1>0, <1>1 DEF Calling, RolloutCalls, TrainerCalls, Active, NextOp, Synchronising, trainVars
  <2>2. \A d \in Callers : Infers(d)'
    BY <1>0, <1>1, <1>3, <1>4 DEF Infers, Active
  <2> QED
    BY <2>1, <2>2 DEF Calling
<1> QED
  BY <1>2, <1>5, <1>7, <1>8 DEF Sound

(* An answer to infer, of a worker or of one that has raised.              *)
LEMMA InferSound ==
  ASSUME Sound, Quiet, NEW w \in Workers, Infer(w) \/ InferRaises(w), UNCHANGED trainVars
  PROVE  Sound'
<1>0. /\ ServerTypes /\ Serving /\ Weights /\ Calling /\ "infer" \in Answering
      /\ Failed \in SUBSET (-1 .. LastStep)
  BY ServerSets DEF Sound, Failed
<1>1. /\ Executing(w, "infer") /\ pipe' = Next1(w)
      /\ UNCHANGED <<call, serving, received>> /\ UNCHANGED <<weights, processed>>
  BY DEF Infer, InferRaises
<1>2. PICK c \in Callers : call[c].at = "receiving" /\ call[c].op = "infer"
  BY <1>0, <1>1, ExecutesOne
<1>3. /\ ~Synchronising /\ lastLoaded[Main] # -1
      /\ \A d \in Callers : Active(d) => d = c
  BY <1>2, CallerOf
<1>4. WorkerWeights(w) /\ Uniform(w, lastLoaded[Main])
  BY <1>0, <1>3 DEF Weights, WorkerWeights
<1>5. Computed(w) = {lastLoaded[Main]}
  <2>1. 1 \in Buckets
    BY ServerAssumption DEF Buckets
  <2>2. {weights[w][b] : b \in Buckets} = {lastLoaded[Main]}
    BY <1>4, <2>1 DEF Uniform
  <2> QED
    BY <1>4, <2>2 DEF Uniform, Computed
<1>6. Uniform(w, lastLoaded[Main]) => weights[w][1] = lastLoaded[Main] /\ weights[w][1] \in 0 .. LastStep
  <2>1. 1 \in Buckets
    BY ServerAssumption DEF Buckets
  <2> QED
    BY <1>0, <2>1 DEF Uniform, ServerTypes
<1>7. {lastLoaded[Main]} \in SUBSET (-1 .. LastStep)
  BY <1>4, <1>6
<1>8. PICK value \in SUBSET (-1 .. LastStep) :
        /\ reply' = Answer(w, value) /\ value \in {Failed, {lastLoaded[Main]}}
        /\ cache' = cache \/ cache' = [cache EXCEPT ![w] = {lastLoaded[Main]}]
  BY <1>0, <1>5, <1>7 DEF Infer, InferRaises
<1>9. /\ Serving'
      /\ pipe' \in [Workers -> Seq(Commands)] /\ reply' \in [Workers -> Seq(Replies)]
      /\ \A v \in Workers : v # w => pipe'[v] = pipe[v] /\ reply'[v] = reply[v]
      /\ ~received[w] /\ reply'[w] # << >> /\ Head(reply'[w]).value = value
  BY <1>0, <1>1, <1>8, AnswerServed, Zenon
<1>10. /\ cache' \in [Workers -> SUBSET (-1 .. LastStep)]
       /\ \A v \in Workers : cache'[v] = cache[v] \/ (v = w /\ cache'[v] = {lastLoaded[Main]})
  BY <1>0, <1>7, <1>8 DEF ServerTypes
<1>11. ServerTypes'
  BY <1>0, <1>1, <1>9, <1>10 DEF ServerTypes
<1>12. ASSUME NEW v \in Workers PROVE WorkerWeights(v)'
  <2>1. WorkerWeights(v)
    BY <1>0 DEF Weights
  <2>2. CASE v # w
    BY <1>1, <1>9, <1>10, <2>1, <2>2, WeightsFrame
  <2>3. CASE v = w
    <3>1. Uniform(w, lastLoaded[Main])'
      BY <1>1, <1>4, <1>10 DEF Uniform, trainVars
    <3>2. ~Synchronising' /\ ~received'[w] /\ lastLoaded' = lastLoaded
      BY <1>1, <1>3, <1>9 DEF Synchronising, NextOp, trainVars
    <3>3. ~(NextOp' \in SyncOps)
      BY <3>2 DEF Synchronising
    <3> QED
      BY <2>3, <3>1, <3>2, <3>3, OpsAre DEF WorkerWeights
  <2> QED
    BY <2>2, <2>3
<1>13. Weights'
  BY <1>0, <1>12 DEF Weights, Synchronising, NextOp, trainVars
<1>14. Calling'
  <2>1. RolloutCalls' /\ TrainerCalls'
    BY <1>0, <1>1 DEF Calling, RolloutCalls, TrainerCalls, Active, NextOp, Synchronising, trainVars
  <2>2. ASSUME NEW d \in Callers PROVE Infers(d)'
    <3>1. Infers(d)
      BY <1>0 DEF Calling
    <3>2. \A v \in Workers : WorkerInfers(d, v) => WorkerInfers(d, v)'
      BY <1>1, <1>8, <1>9 DEF WorkerInfers, Genuine, trainVars
    <3> QED
      BY <1>1, <3>1, <3>2 DEF Infers, Active, Fails, trainVars
  <2> QED
    BY <2>1, <2>2 DEF Calling
<1> QED
  BY <1>9, <1>11, <1>13, <1>14 DEF Sound

(* So does loading a bucket,                                               *)
LEMMA LoadSound ==
  ASSUME Sound, Quiet, NEW w \in Workers, Load(w), UNCHANGED trainVars
  PROVE  Sound'
<1>0. ServerTypes /\ Serving /\ Weights /\ Calling
  BY DEF Sound
<1>1. /\ received[w] /\ pipe' = Next1(w) /\ received' = [received EXCEPT ![w] = FALSE]
      /\ processed' = [processed EXCEPT ![w] = FALSE]
      /\ weights' = [weights EXCEPT ![w][Head(pipe[w]).bucket] = Head(pipe[w]).version]
      /\ UNCHANGED <<call, serving, reply, cache>>
  BY DEF Load
<1>2. WorkerServed(w) /\ WorkerWeights(w)
  BY <1>0 DEF Serving, Weights
<1>3. Loading(w) /\ reply[w] = << >>
  <2>1. (\A c \in Callers : ~Handled(c)) \/ \E c \in Callers : Handled(c)
    OBVIOUS
  <2>2. ASSUME NEW c \in Callers, Handled(c) PROVE Queued(w, c)
    BY <1>1, <1>2, <2>2 DEF WorkerServed, Handled, Answered
  <2> QED
    BY <1>1, <1>2, <2>1, <2>2 DEF WorkerServed, Trailing, Queued
<1>4. /\ Synchronising /\ NextOp # "reset_prefix_cache" /\ lastLoaded[Main] = step
      /\ Head(pipe[w]).version = step /\ Head(pipe[w]).bucket \in Buckets
  BY <1>0, <1>1, <1>2 DEF WorkerWeights, Weights
<1>5. /\ pipe' = [pipe EXCEPT ![w] = Tail(pipe[w])]
      /\ pipe[w] \in Seq(Commands) /\ pipe[w] # << >> /\ Tail(pipe[w]) \in Seq(Commands)
      /\ Head(pipe[w]) \in Commands
  BY <1>0, <1>1, <1>3 DEF Next1, Loading, ServerTypes
<1>6. ServerTypes'
  <2>1. pipe' \in [Workers -> Seq(Commands)]
    BY <1>0, <1>5 DEF ServerTypes
  <2>2. received' \in [Workers -> BOOLEAN] /\ processed' \in [Workers -> BOOLEAN]
    BY <1>0, <1>1 DEF ServerTypes
  <2>3. weights' \in [Workers -> [Buckets -> 0 .. LastStep]]
    <3>1. Head(pipe[w]).version \in 0 .. LastStep
      BY <1>5 DEF Commands
    <3> QED
      BY <1>0, <1>1, <1>4, <3>1 DEF ServerTypes
  <2> QED
    BY <1>0, <1>1, <2>1, <2>2, <2>3 DEF ServerTypes
<1>7. /\ pipe'[w] = Tail(pipe[w]) /\ received'[w] = FALSE /\ processed'[w] = FALSE
      /\ \A b \in Buckets : weights'[w][b] = IF b = Head(pipe[w]).bucket THEN step ELSE weights[w][b]
      /\ \A v \in Workers : v # w => /\ pipe'[v] = pipe[v] /\ received'[v] = received[v]
                                     /\ processed'[v] = processed[v] /\ weights'[v] = weights[v]
  BY <1>0, <1>1, <1>4, <1>5 DEF ServerTypes
<1>8. Serving'
  <2>1. Exclusive' /\ \A d \in Callers : CallServed(d)'
    BY <1>0, <1>1 DEF Serving, Exclusive, CallServed, Active
  <2>2. ASSUME NEW v \in Workers PROVE WorkerServed(v)'
    <3>1. WorkerServed(v)
      BY <1>0 DEF Serving
    <3>2. CASE v # w
      BY <1>1, <1>7, <3>1, <3>2, WorkerFrame
    <3>3. CASE v = w
      <4>1. (\A c \in Callers : ~Handled(c)) => Trailing(w)'
        BY <1>1, <1>2, <1>3, <1>7 DEF WorkerServed, Trailing
      <4>2. ASSUME NEW c \in Callers, call[c].at = "accepted" PROVE Queued(w, c)'
        BY <1>1, <1>2, <1>3, <1>7, <4>2 DEF WorkerServed, Queued, Command
      <4>3. ASSUME NEW c \in Callers, call[c].at = "receiving"
            PROVE  Queued(w, c)' /\ w \notin DOMAIN call[c].got
        BY <1>1, <1>2, <1>3, <1>7, <4>3 DEF WorkerServed, Queued, Command, Answered
      <4>4. ASSUME NEW c \in Callers, call[c].at \in {"answered", "failed"}, call[c].op \in Answering
            PROVE  FALSE
        BY <1>1, <1>2, <4>4 DEF WorkerServed
      <4>5. \A c \in Callers : Handled(c)' <=> Handled(c)
        BY <1>1 DEF Handled
      <4> QED
        BY <1>1, <3>3, <4>1, <4>2, <4>3, <4>4, <4>5 DEF WorkerServed
    <3> QED
      BY <3>2, <3>3
  <2> QED
    BY <2>1, <2>2 DEF Serving
<1>9. Weights'
  <2>1. ASSUME NEW v \in Workers PROVE WorkerWeights(v)'
    <3>1. WorkerWeights(v)
      BY <1>0 DEF Weights
    <3>2. CASE v # w
      BY <1>1, <1>7, <3>1, <3>2, WeightsFrame
    <3>3. CASE v = w
      <4>1. ASSUME NEW b \in Buckets, Written(w, b) PROVE Written(w, b)'
        BY <1>7, <4>1 DEF Written, trainVars
      <4>2. NextOp = "process_weights_after_loading" => ~Completed(w)'
        <5>1. SUFFICES ASSUME NextOp = "process_weights_after_loading", Completed(w)' PROVE FALSE
          OBVIOUS
        <5>2. "trainer" \in Callers /\ CallServed("trainer")
          BY <1>0 DEF Serving, Callers
        <5>3. call["trainer"].at \in {"answered", "receiving"}
          BY <1>1, <5>1 DEF Completed
        <5>4. call["trainer"].op = NextOp
          BY <1>0, <5>2, <5>3 DEF Calling, TrainerCalls, Active
        <5>5. call["trainer"].at = "receiving" /\ pipe'[w] = << >>
          BY <1>1, <1>2, <5>1, <5>2, <5>3, <5>4, ServerSets DEF WorkerServed, Completed
        <5>6. Queued(w, "trainer")
          BY <1>1, <1>2, <5>2, <5>5 DEF WorkerServed, Answered
        <5>7. Tail(pipe[w]) = <<Command("trainer")>>
          BY <1>1, <5>6 DEF Queued
        <5> QED
          BY <1>7, <5>5, <5>7, OneReply
      <4>3. UNCHANGED <<NextOp, todo, step, lastLoaded, call>> /\ Synchronising'
        BY <1>1, <1>4 DEF NextOp, Synchronising, trainVars
      <4>4. NextOp = "update_flattened_params" \/ NextOp = "process_weights_after_loading"
        BY <1>4, OpsAre DEF Synchronising
      <4> QED
        BY <1>2, <1>7, <3>3, <4>1, <4>2, <4>3, <4>4 DEF WorkerWeights
    <3> QED
      BY <3>2, <3>3
  <2> QED
    BY <1>0, <2>1 DEF Weights, Synchronising, NextOp, trainVars
<1>10. Calling'
  BY <1>0, <1>1 DEF Calling, RolloutCalls, TrainerCalls, Infers, WorkerInfers, Genuine, Active,
                    Fails, NextOp, Synchronising, trainVars
<1> QED
  BY <1>6, <1>8, <1>9, <1>10 DEF Sound

(* A caller whose request is at another stage keeps its type.              *)
LEMMA CallsAre ==
  ASSUME NEW x \in Calls, NEW at \in {"idle", "sent", "accepted", "receiving", "answered", "failed"}
  PROVE  /\ [x EXCEPT !.at = at] \in Calls /\ [x EXCEPT !.at = at].at = at
         /\ [x EXCEPT !.at = at].op = x.op /\ [x EXCEPT !.at = at].bucket = x.bucket
         /\ [x EXCEPT !.at = at].version = x.version /\ [x EXCEPT !.at = at].asked = x.asked
         /\ [x EXCEPT !.at = at].got = x.got
BY DEF Calls

(* So does putting a command into the pipes of the workers,                *)
LEMMA BroadcastSound ==
  ASSUME Sound, Quiet, Broadcast, UNCHANGED trainVars
  PROVE  Sound'
<1> DEFINE t == "trainer"
<1>0. ServerTypes /\ Serving /\ Weights /\ Calling /\ t \in Callers
  BY DEF Sound, Callers
<1>1. /\ call[t].at = "accepted" /\ received' = [w \in Workers |-> TRUE]
      /\ \A w \in Workers : Executing(w, "update_flattened_params") /\ ~received[w]
      /\ call' = [call EXCEPT ![t].at = "answered"]
      /\ UNCHANGED <<serving, pipe, reply, weights, processed, cache>>
  BY DEF Broadcast
<1>2. /\ call[t] \in Calls /\ call' = [call EXCEPT ![t] = [call[t] EXCEPT !.at = "answered"]]
      /\ call \in [Callers -> Calls]
  BY <1>0, <1>1 DEF ServerTypes
<1>3. /\ call' \in [Callers -> Calls] /\ call'[t].at = "answered" /\ call'[t].op = call[t].op
      /\ call'[t].got = call[t].got /\ call'[t].version = call[t].version
      /\ call'[t].bucket = call[t].bucket /\ call'[t].asked = call[t].asked
      /\ \A c \in Callers : c # t => call'[c] = call[c]
  BY <1>0, <1>2, CallsAre
<1>4. CallServed(t) /\ Active(t)
  BY <1>0, <1>1 DEF Serving, Active
<1>5. \A c \in Callers : c # t => ~Active(c) /\ call[c].at = "idle"
  BY <1>0, <1>4 DEF Serving, Exclusive, Active
<1>6. call[t].op = "update_flattened_params" /\ NextOp = call[t].op /\ Synchronising
  BY <1>0, <1>1, <1>4, ServerSets, OpsAre DEF CallServed, Calling, TrainerCalls, Synchronising
<1>7. call[t].version = step /\ call[t].bucket = Head(todo[Main]).bucket /\ call[t].bucket \in Buckets
  BY <1>0, <1>4, <1>6 DEF Calling, TrainerCalls, Quiet
<1>8. \A w \in Workers : /\ WorkerServed(w) /\ WorkerWeights(w)
                         /\ reply[w] = << >> /\ pipe[w] = <<Command(t)>>
  <2> TAKE w \in Workers
  <2>1. WorkerServed(w) /\ WorkerWeights(w)
    BY <1>0 DEF Serving, Weights
  <2>2. Queued(w, t)
    BY <1>0, <1>1, <2>1 DEF WorkerServed
  <2> QED
    BY <1>1, <2>1, <2>2 DEF Queued, Loading
<1>9. /\ Command(t).op = "update_flattened_params" /\ Command(t).version = step
      /\ Command(t).bucket = Head(todo[Main]).bucket
  BY <1>6, <1>7 DEF Command
<1>10. \A w \in Workers : /\ pipe'[w] # << >> /\ Head(pipe'[w]).op = "update_flattened_params"
                          /\ Tail(pipe'[w]) = << >> /\ Head(pipe[w]).bucket = Head(todo[Main]).bucket
                          /\ Head(pipe[w]).version = step
  BY <1>1, <1>8, <1>9, OneReply
<1>11. ServerTypes'
  BY <1>0, <1>1, <1>3 DEF ServerTypes
<1>12. Serving'
  <2>1. Exclusive'
    BY <1>3, <1>5 DEF Exclusive, Active
  <2>2. ASSUME NEW c \in Callers PROVE CallServed(c)'
    <3>1. CallServed(c)
      BY <1>0 DEF Serving
    <3>2. CASE c = t
      BY <1>1, <1>3, <1>4, <3>2, ServerSets DEF CallServed, Active
    <3>3. CASE c # t
      BY <1>1, <1>3, <3>1, <3>3 DEF CallServed, Active
    <3> QED
      BY <3>2, <3>3
  <2>3. ASSUME NEW w \in Workers PROVE WorkerServed(w)'
    <3>1. Trailing(w)'
      BY <1>1, <1>8, <1>10 DEF Trailing, Loading
    <3>2. \A c \in Callers : call'[c].at # "accepted" /\ call'[c].at # "receiving"
      BY <1>3, <1>5
    <3>3. \A c \in Callers : call'[c].at \in {"answered", "failed"} => call'[c].op \notin Answering
      BY <1>3, <1>5, <1>6, ServerSets
    <3> QED
      BY <3>1, <3>2, <3>3 DEF WorkerServed
  <2> QED
    BY <2>1, <2>2, <2>3 DEF Serving
<1>13. Weights'
  <2>1. ASSUME NEW w \in Workers PROVE WorkerWeights(w)'
    <3>1. UNCHANGED <<NextOp, todo, step, lastLoaded>> /\ Synchronising'
      BY <1>6 DEF NextOp, Synchronising, trainVars
    <3>2. NextOp' = "update_flattened_params" /\ received'[w] = TRUE
      BY <1>1, <1>6, <3>1
    <3>3. Head(pipe'[w]).version = step /\ Head(pipe'[w]).bucket \in Buckets
      BY <1>1, <1>7, <1>10
    <3>4. ASSUME NEW b \in Buckets, b < Head(todo[Main]).bucket \/ b = Head(todo[Main]).bucket
          PROVE  Written(w, b)'
      <4>1. CASE b = Head(todo[Main]).bucket
        BY <1>1, <1>10, <3>2, <4>1 DEF Written
      <4>2. CASE b < Head(todo[Main]).bucket
        <5>1. Written(w, b) /\ ~received[w]
          BY <1>1, <1>6, <1>8, <4>2 DEF WorkerWeights
        <5> QED
          BY <1>1, <3>1, <5>1 DEF Written
      <4> QED
        BY <3>4, <4>1, <4>2
    <3> QED
      BY <3>1, <3>2, <3>3, <3>4 DEF WorkerWeights
  <2> QED
    BY <1>0, <2>1 DEF Weights, Synchronising, NextOp, trainVars
<1>14. Calling'
  <2>1. RolloutCalls'
    BY <1>0, <1>3, <1>5 DEF RolloutCalls, Active, Callers
  <2>2. TrainerCalls'
    BY <1>0, <1>3, <1>4 DEF Calling, TrainerCalls, Active, NextOp, Synchronising, trainVars
  <2>3. \A c \in Callers : Infers(c)'
    BY <1>3, <1>5, <1>6 DEF Infers, Active
  <2> QED
    BY <2>1, <2>2, <2>3 DEF Calling
<1> QED
  BY <1>11, <1>12, <1>13, <1>14 DEF Sound

(* A command put behind others leaves the first where it is.               *)
LEMMA AppendBehind ==
  ASSUME NEW S, NEW s \in Seq(S), NEW x \in S
  PROVE  /\ Append(s, x) \in Seq(S) /\ Append(s, x) # << >>
         /\ s # << >> => Head(Append(s, x)) = Head(s) /\ Tail(Append(s, x)) = Append(Tail(s), x)
<1> DEFINE u == Append(s, x)
<1>1. u \in Seq(S) /\ Len(u) = Len(s) + 1 /\ Len(s) \in Nat /\ u # << >>
  OBVIOUS
<1>2. \A i \in 1 .. Len(s) : u[i] = s[i]
  OBVIOUS
<1>3. u[Len(s) + 1] = x
  OBVIOUS
<1> HIDE DEF u
<1>4. ASSUME s # << >> PROVE Head(u) = Head(s) /\ Tail(u) = Append(Tail(s), x)
  <2>1. Len(s) >= 1 /\ Head(u) = u[1] /\ Head(s) = s[1]
    BY <1>1, <1>4
  <2>2. /\ Tail(u) \in Seq(S) /\ Len(Tail(u)) = Len(s)
        /\ \A i \in 1 .. Len(s) : Tail(u)[i] = u[i + 1]
    BY <1>1
  <2>3. /\ Tail(s) \in Seq(S) /\ Len(Tail(s)) = Len(s) - 1
        /\ \A i \in 1 .. Len(s) - 1 : Tail(s)[i] = s[i + 1]
    BY <1>1, <1>4
  <2>4. /\ Append(Tail(s), x) \in Seq(S) /\ Len(Append(Tail(s), x)) = Len(s)
        /\ \A i \in 1 .. Len(s) - 1 : Append(Tail(s), x)[i] = s[i + 1]
        /\ Append(Tail(s), x)[Len(s)] = x
    BY <1>1, <2>1, <2>3
  <2>5. \A i \in 1 .. Len(s) : Tail(u)[i] = Append(Tail(s), x)[i]
    <3> TAKE i \in 1 .. Len(s)
    <3>1. CASE i = Len(s)
      BY <1>3, <2>2, <2>4, <3>1
    <3>2. CASE i # Len(s)
      <4>1. i \in 1 .. Len(s) - 1 /\ i + 1 \in 1 .. Len(s)
        BY <1>1, <3>2
      <4> QED
        BY <1>2, <2>2, <2>4, <4>1
    <3> QED
      BY <3>1, <3>2
  <2>6. Tail(u) = Append(Tail(s), x)
    BY <2>2, <2>4, <2>5, SeqEqual
  <2> QED
    BY <1>1, <1>2, <2>1, <2>6
<1> QED
  BY <1>1, <1>4 DEF u

(* A handler that writes its command to every worker.                      *)
LEMMA HandleSound ==
  ASSUME Sound, Quiet, NEW c \in Callers, Handle(c), UNCHANGED trainVars
  PROVE  Sound'
<1> DEFINE at == IF call[c].op \in Answering THEN "receiving" ELSE "accepted"
<1>0. ServerTypes /\ Serving /\ Weights /\ Calling
  BY DEF Sound
<1>14. /\ at \in {"receiving", "accepted"}
       /\ at = "receiving" <=> call[c].op \in Answering
  OBVIOUS
<1>1. /\ serving = "nobody" /\ call[c].at = "sent"
      /\ pipe' = [w \in Workers |-> Append(pipe[w], Command(c))]
      /\ call' = [call EXCEPT ![c].at = at]
      /\ serving' = IF call[c].op \in Blocking THEN c ELSE serving
      /\ UNCHANGED <<reply, received, weights, processed, cache>>
  BY DEF Handle, LoopFree
<1> HIDE DEF at
<1>2. /\ call[c] \in Calls /\ call' = [call EXCEPT ![c] = [call[c] EXCEPT !.at = at]]
      /\ call \in [Callers -> Calls]
  BY <1>0, <1>1 DEF ServerTypes
<1>3. /\ call' \in [Callers -> Calls] /\ call'[c].at = at /\ call'[c].op = call[c].op
      /\ call'[c].got = call[c].got /\ call'[c].version = call[c].version
      /\ call'[c].bucket = call[c].bucket /\ call'[c].asked = call[c].asked
      /\ \A d \in Callers : d # c => call'[d] = call[d]
  <2>1. PICK a \in {"receiving", "accepted"} : a = at
    BY <1>14
  <2>2. PICK x \in Calls : x = call[c]
    BY <1>2
  <2>3. /\ [x EXCEPT !.at = a] \in Calls /\ [x EXCEPT !.at = a].at = a
        /\ [x EXCEPT !.at = a].op = x.op /\ [x EXCEPT !.at = a].bucket = x.bucket
        /\ [x EXCEPT !.at = a].version = x.version /\ [x EXCEPT !.at = a].asked = x.asked
        /\ [x EXCEPT !.at = a].got = x.got
    <3>1. a \in {"idle", "sent", "accepted", "receiving", "answered", "failed"}
      OBVIOUS
    <3> QED
      BY <3>1, CallsAre, Zenon
  <2>4. call' = [call EXCEPT ![c] = [x EXCEPT !.at = a]]
    BY <1>2, <2>1, <2>2
  <2> QED
    BY <1>2, <2>1, <2>2, <2>3, <2>4
<1>4. CallServed(c) /\ Active(c) /\ call[c].op \in Requests /\ DOMAIN call[c].got = {}
  BY <1>0, <1>1 DEF Serving, CallServed, Active
<1>5. \A d \in Callers : d # c => ~Active(d) /\ call[d].at = "idle"
  BY <1>0, <1>4 DEF Serving, Exclusive, Active
<1>6. call[c].op \notin Answering => c = "trainer"
  BY <1>0, <1>4, ServerSets DEF Calling, RolloutCalls, Callers
<1>7. Command(c) \in Commands /\ Command(c)' = Command(c)
  BY <1>2, <1>3, <1>4 DEF Command, Commands, Calls
<1>8. \A w \in Workers : WorkerServed(w) /\ Trailing(w) /\ pipe[w] \in Seq(Commands)
  <2> TAKE w \in Workers
  <2>1. \A d \in Callers : ~Handled(d)
    BY <1>1, <1>5 DEF Handled
  <2> QED
    BY <1>0, <2>1 DEF Serving, WorkerServed, ServerTypes
<1>9. ASSUME NEW w \in Workers
      PROVE  /\ pipe'[w] \in Seq(Commands) /\ pipe'[w] # << >> /\ Queued(w, c)'
             /\ received[w] => Head(pipe'[w]) = Head(pipe[w])
  <2>1. pipe'[w] = Append(pipe[w], Command(c))
    BY <1>1
  <2>2. \A s \in Seq(Commands), x \in Commands :
          /\ Append(s, x) \in Seq(Commands) /\ Append(s, x) # << >>
          /\ s # << >> => Head(Append(s, x)) = Head(s) /\ Tail(Append(s, x)) = Append(Tail(s), x)
    BY AppendBehind
  <2>3. CASE ~received[w]
    <3>1. pipe[w] = << >> /\ reply[w] = << >>
      BY <1>8, <2>3 DEF Trailing, Loading
    <3>2. pipe'[w] = <<Command(c)>>
      BY <1>7, <2>1, <3>1, OneReply
    <3> QED
      BY <1>1, <1>7, <2>3, <3>1, <3>2, OneReply DEF Queued
  <2>4. CASE received[w]
    <3>1. Loading(w) /\ Tail(pipe[w]) = << >> /\ reply[w] = << >> /\ pipe[w] # << >>
      BY <1>8, <2>4 DEF Trailing, Loading
    <3>2. PICK s \in Seq(Commands), x \in Commands : s = pipe[w] /\ x = Command(c)
      BY <1>7, <1>8
    <3>3. /\ Append(s, x) \in Seq(Commands) /\ Append(s, x) # << >>
          /\ s # << >> => Head(Append(s, x)) = Head(s) /\ Tail(Append(s, x)) = Append(Tail(s), x)
      BY <2>2
    <3>4. Append(<< >>, x) = <<x>>
      BY OneReply
    <3>5. /\ Head(pipe'[w]) = Head(pipe[w]) /\ pipe'[w] # << >> /\ pipe'[w] \in Seq(Commands)
          /\ Tail(pipe'[w]) = <<Command(c)>>
      BY <2>1, <3>1, <3>2, <3>3, <3>4
    <3> QED
      BY <1>1, <1>7, <3>1, <3>5 DEF Queued, Loading
  <2> QED
    BY <2>3, <2>4
<1>10. ServerTypes'
  <2>1. pipe' \in [Workers -> Seq(Commands)]
    BY <1>1, <1>7, <1>8
  <2> QED
    BY <1>0, <1>1, <1>3, <2>1 DEF ServerTypes
<1>11. Serving'
  <2>1. Exclusive'
    BY <1>3, <1>5 DEF Exclusive, Active
  <2>2. ASSUME NEW d \in Callers PROVE CallServed(d)'
    <3>1. CallServed(d)
      BY <1>0 DEF Serving
    <3>2. CASE d = c
      <4>1. serving' = c <=> call[c].op \in Blocking
        BY <1>1, ServerSets
      <4>2. call[c].op \in Blocking => call[c].op \in Answering
        BY ServerSets
      <4> QED
        BY <1>1, <1>3, <1>4, <1>6, <1>14, <3>2, <4>1, <4>2 DEF CallServed, Active
    <3>3. CASE d # c
      <4>1. serving' # d
        BY <1>1, <3>3, ServerSets
      <4> QED
        BY <1>3, <1>5, <3>1, <3>3, <4>1 DEF CallServed, Active
    <3> QED
      BY <3>2, <3>3
  <2>3. ASSUME NEW w \in Workers PROVE WorkerServed(w)'
    <3>1. Handled(c)' /\ Queued(w, c)' /\ w \notin DOMAIN call'[c].got
      BY <1>3, <1>4, <1>9, <1>14 DEF Handled
    <3>2. \A d \in Callers : d # c => call'[d].at = "idle"
      BY <1>3, <1>5
    <3>3. call'[c].at \in {"accepted", "receiving"}
      BY <1>3, <1>14
    <3> QED
      BY <3>1, <3>2, <3>3 DEF WorkerServed
  <2> QED
    BY <2>1, <2>2, <2>3 DEF Serving
<1>12. Weights'
  <2>1. ASSUME NEW w \in Workers PROVE WorkerWeights(w)'
    <3>1. UNCHANGED <<NextOp, todo, step, lastLoaded, Synchronising>>
      BY DEF NextOp, Synchronising, trainVars
    <3>2. WorkerWeights(w) /\ (received[w] => Head(pipe'[w]) = Head(pipe[w])) /\ pipe'[w] # << >>
      BY <1>0, <1>9 DEF Weights
    <3>3. \A b \in Buckets : Written(w, b)' <=> Written(w, b)
      BY <1>1, <3>1, <3>2 DEF Written
    <3>4. Uniform(w, lastLoaded[Main])' <=> Uniform(w, lastLoaded[Main])
      BY <1>1, <3>1 DEF Uniform
    <3>5. call'["trainer"].at # "answered"
      BY <1>3, <1>5, <1>14 DEF Callers
    <3>6. ~Completed(w)'
      BY <3>2, <3>5 DEF Completed
    <3> QED
      BY <1>1, <3>1, <3>2, <3>3, <3>4, <3>5, <3>6 DEF WorkerWeights
  <2> QED
    BY <1>0, <2>1 DEF Weights, Synchronising, NextOp, trainVars
<1>13. Calling'
  <2>1. RolloutCalls'
    BY <1>0, <1>3, <1>4 DEF Calling, RolloutCalls, Active, Callers, trainVars
  <2>2. TrainerCalls'
    BY <1>0, <1>3, <1>4 DEF Calling, TrainerCalls, Active, NextOp, Synchronising, trainVars, Callers
  <2>3. ASSUME NEW d \in Callers PROVE Infers(d)'
    <3>1. CASE d # c
      BY <1>3, <1>5, <3>1 DEF Infers, Active
    <3>2. CASE d = c
      <4>1. Infers(c)
        BY <1>0 DEF Calling
      <4>2. \A w \in Workers : WorkerInfers(c, w) => WorkerInfers(c, w)'
        BY <1>1, <1>3 DEF WorkerInfers, Genuine, trainVars
      <4> QED
        BY <1>3, <1>4, <1>14, <3>2, <4>1, <4>2 DEF Infers, Active, trainVars
    <3> QED
      BY <3>1, <3>2
  <2> QED
    BY <2>1, <2>2, <2>3 DEF Calling
<1> QED
  BY <1>10, <1>11, <1>12, <1>13 DEF Sound

(* A call that moves on changes its place only.                            *)
LEMMA CallerMoves ==
  ASSUME call \in [Callers -> Calls], NEW c \in Callers,
         NEW at \in {"idle", "sent", "accepted", "receiving", "answered", "failed"},
         call' = [call EXCEPT ![c].at = at]
  PROVE  /\ call' \in [Callers -> Calls] /\ call'[c].at = at /\ call'[c].op = call[c].op
         /\ call'[c].got = call[c].got /\ call'[c].version = call[c].version
         /\ call'[c].bucket = call[c].bucket /\ call'[c].asked = call[c].asked
         /\ \A d \in Callers : d # c => call'[d] = call[d]
<1>1. PICK x \in Calls : x = call[c]
  OBVIOUS
<1>2. /\ [x EXCEPT !.at = at] \in Calls /\ [x EXCEPT !.at = at].at = at
      /\ [x EXCEPT !.at = at].op = x.op /\ [x EXCEPT !.at = at].bucket = x.bucket
      /\ [x EXCEPT !.at = at].version = x.version /\ [x EXCEPT !.at = at].asked = x.asked
      /\ [x EXCEPT !.at = at].got = x.got
  BY CallsAre, Zenon
<1>3. call' = [call EXCEPT ![c] = [x EXCEPT !.at = at]]
  BY <1>1
<1> QED
  BY <1>1, <1>2, <1>3

(* A handler, or a thread of it, that receives what a worker has sent.     *)
LEMMA ReceiveSound ==
  ASSUME Sound, Quiet, NEW c \in Callers, NEW w \in Workers, Receive(c, w), UNCHANGED trainVars
  PROVE  Sound'
<1>0. ServerTypes /\ Serving /\ Weights /\ Calling
  BY DEF Sound
<1>1. /\ call[c].at = "receiving" /\ w \notin DOMAIN call[c].got /\ reply[w] # << >>
      /\ call' = [call EXCEPT ![c].got =
                    [v \in DOMAIN call[c].got \cup {w} |->
                       IF v = w THEN Head(reply[w]) ELSE call[c].got[v]]]
      /\ reply' = [reply EXCEPT ![w] = Tail(@)]
      /\ UNCHANGED <<serving, pipe, received, weights, processed, cache>>
  BY DEF Receive
<1>2. CallServed(c) /\ Active(c) /\ \A d \in Callers : d # c => ~Active(d) /\ call[d].at = "idle"
  BY <1>0, <1>1 DEF Serving, Exclusive, Active
<1>3. /\ ~received[w] /\ pipe[w] = << >> /\ Len(reply[w]) = 1
      /\ Head(reply[w]).op = call[c].op /\ Head(reply[w]).from = c
  <2>1. WorkerServed(w)
    BY <1>0 DEF Serving
  <2>2. Answered(w, c)
    BY <1>1, <2>1 DEF WorkerServed, Queued
  <2> QED
    BY <1>1, <2>2 DEF Answered
<1>4. PICK r \in Replies : r = Head(reply[w])
  BY <1>0, <1>1 DEF ServerTypes
<1>5. Tail(reply[w]) = << >> /\ reply'[w] = << >> /\ \A v \in Workers : v # w => reply'[v] = reply[v]
  <2>1. reply[w] \in Seq(Replies) /\ reply \in [Workers -> Seq(Replies)]
    BY <1>0 DEF ServerTypes
  <2>2. \A s \in Seq(Replies) : Len(s) = 1 => Tail(s) = << >>
    <3> TAKE s \in Seq(Replies)
    <3>1. \A u \in Seq(Replies) : u = << >> <=> Len(u) = 0
      BY EmptySeq
    <3>2. Len(s) = 1 => Tail(s) \in Seq(Replies) /\ Len(Tail(s)) = 0
      BY <3>1, TailHolds
    <3> QED
      BY <3>1, <3>2
  <2> QED
    BY <1>1, <1>3, <2>1, <2>2
<1>6. PICK x \in Calls : x = call[c]
  BY <1>0 DEF ServerTypes
<1>7. PICK V \in SUBSET Workers : x.got \in [V -> Replies]
  BY DEF Calls
<1>8. DOMAIN x.got = V /\ w \notin V /\ r.op = x.op /\ r.from = c
  BY <1>1, <1>3, <1>4, <1>6, <1>7
<1> DEFINE g == [v \in V \cup {w} |-> IF v = w THEN r ELSE x.got[v]]
<1>9. g \in [V \cup {w} -> Replies] /\ V \cup {w} \in SUBSET Workers
  BY <1>7
<1>10. call' = [call EXCEPT ![c] = [x EXCEPT !.got = g]]
  <2>1. call' = [call EXCEPT ![c].got = g]
    BY <1>1, <1>4, <1>6, <1>8
  <2> QED
    BY <1>6, <2>1
<1>11. /\ [x EXCEPT !.got = g] \in Calls /\ [x EXCEPT !.got = g].got = g
       /\ [x EXCEPT !.got = g].at = x.at /\ [x EXCEPT !.got = g].op = x.op
       /\ [x EXCEPT !.got = g].bucket = x.bucket /\ [x EXCEPT !.got = g].version = x.version
       /\ [x EXCEPT !.got = g].asked = x.asked
  <2> HIDE DEF g
  <2>1. g \in UNION {[U -> Replies] : U \in SUBSET Workers}
    BY <1>9
  <2> QED
    BY <2>1 DEF Calls
<1>12. /\ DOMAIN g = V \cup {w} /\ g[w] = r /\ \A v \in V : g[v] = x.got[v]
  BY <1>8
<1> HIDE DEF g
<1>13. /\ call' \in [Callers -> Calls] /\ call'[c].got = g /\ call'[c].at = "receiving"
       /\ call'[c].op = call[c].op /\ call'[c].bucket = call[c].bucket
       /\ call'[c].version = call[c].version /\ call'[c].asked = call[c].asked
       /\ \A d \in Callers : d # c => call'[d] = call[d]
  BY <1>0, <1>1, <1>6, <1>10, <1>11 DEF ServerTypes
<1>14. \A d \in Callers : /\ call'[d].at = call[d].at /\ call'[d].op = call[d].op
                          /\ call'[d].bucket = call[d].bucket /\ call'[d].version = call[d].version
                          /\ call'[d].asked = call[d].asked
  BY <1>1, <1>13
<1>15. ServerTypes'
  <2>1. reply' \in [Workers -> Seq(Replies)]
    BY <1>0, <1>1, <1>5 DEF ServerTypes
  <2> QED
    BY <1>0, <1>1, <1>13, <2>1 DEF ServerTypes
<1>16. Serving'
  <2>1. Exclusive'
    BY <1>0, <1>14 DEF Serving, Exclusive, Active
  <2>2. ASSUME NEW d \in Callers PROVE CallServed(d)'
    <3>1. CallServed(d)
      BY <1>0 DEF Serving
    <3>2. CASE d # c
      BY <1>1, <1>13, <3>1, <3>2 DEF CallServed, Active
    <3>3. CASE d = c
      <4>1. \A v \in DOMAIN g : g[v].from = c /\ g[v].op = call[c].op
        BY <1>2, <1>6, <1>8, <1>12 DEF CallServed
      <4> QED
        BY <1>1, <1>2, <1>13, <3>3, <4>1 DEF CallServed, Active
    <3> QED
      BY <3>2, <3>3
  <2>3. ASSUME NEW v \in Workers PROVE WorkerServed(v)'
    <3>1. WorkerServed(v)
      BY <1>0 DEF Serving
    <3>2. Answered(v, c)' \/ (Queued(v, c)' /\ v \notin DOMAIN call'[c].got)
      <4>1. CASE v = w
        BY <1>1, <1>3, <1>5, <1>12, <1>13, <4>1 DEF Answered
      <4>2. CASE v # w
        <5>1. Command(c)' = Command(c)
          BY <1>14 DEF Command
        <5>2. reply'[v] = reply[v] /\ (v \in DOMAIN g <=> v \in DOMAIN call[c].got)
          BY <1>5, <1>6, <1>8, <1>12, <4>2
        <5>3. Answered(v, c) => Answered(v, c)'
          BY <1>1, <1>13, <5>2 DEF Answered
        <5>4. Queued(v, c) => Queued(v, c)'
          BY <1>1, <5>1, <5>2 DEF Queued, Loading
        <5> QED
          BY <1>1, <1>13, <3>1, <5>2, <5>3, <5>4 DEF WorkerServed
      <4> QED
        BY <4>1, <4>2
    <3>3. Handled(c)' /\ call'[c].at = "receiving" /\ \A d \in Callers : d # c => call'[d].at = "idle"
      BY <1>2, <1>13 DEF Handled
    <3> QED
      BY <3>2, <3>3 DEF WorkerServed
  <2> QED
    BY <2>1, <2>2, <2>3 DEF Serving
<1>17. Weights'
  <2>1. "trainer" \in Callers
    BY DEF Callers
  <2> QED
    BY <1>0, <1>1, <1>14, <2>1 DEF Weights, WorkerWeights, Uniform, Written, Completed, NextOp,
                                   Synchronising, trainVars
<1>18. Calling'
  <2>1. RolloutCalls' /\ TrainerCalls'
    BY <1>0, <1>14 DEF Calling, RolloutCalls, TrainerCalls, Active, NextOp, Synchronising, trainVars, Callers
  <2>2. ASSUME NEW d \in Callers, Active(d)', call'[d].op = "infer"
        PROVE  /\ call'[d].asked # {} /\ lastLoaded'[Main] # -1
               /\ \A v \in Workers : WorkerInfers(d, v)'
               /\ call'[d].at = "answered" => ~Fails(d)'
    <3>1. d = c /\ Infers(c) /\ call[c].op = "infer"
      BY <1>0, <1>2, <1>14, <2>2 DEF Calling, Active
    <3>2. \A v \in Workers : WorkerInfers(c, v)
      BY <1>2, <3>1 DEF Infers
    <3>3. Genuine(r.value)
      BY <1>1, <1>4, <3>2 DEF WorkerInfers
    <3>4. ASSUME NEW v \in Workers PROVE WorkerInfers(c, v)'
      <4>1. reply'[v] # << >> => Genuine(Head(reply'[v]).value)
        BY <1>5, <3>2 DEF WorkerInfers
      <4>2. v \in DOMAIN g => Genuine(g[v].value)
        BY <1>6, <1>8, <1>12, <3>2, <3>3 DEF WorkerInfers
      <4> QED
        BY <1>13, <4>1, <4>2 DEF WorkerInfers, Genuine, trainVars
    <3> QED
      BY <1>1, <1>2, <1>13, <3>1, <3>4 DEF Infers, trainVars
  <2> QED
    BY <2>1, <2>2 DEF Calling, Infers
<1> QED
  BY <1>15, <1>16, <1>17, <1>18 DEF Sound

(* So does answering the client,                                           *)
LEMMA RespondSound ==
  ASSUME Sound, Quiet, NEW c \in Callers, Respond(c), UNCHANGED trainVars
  PROVE  Sound'
<1>0. ServerTypes /\ Serving /\ Weights /\ Calling
  BY DEF Sound
<1>1. PICK a \in {"failed", "answered"} : a = IF Fails(c) THEN "failed" ELSE "answered"
  OBVIOUS
<1>2. /\ call[c].at = "receiving" /\ DOMAIN call[c].got = Workers
      /\ call' = [call EXCEPT ![c].at = a]
      /\ serving' = IF serving = c THEN "nobody" ELSE serving
      /\ UNCHANGED <<pipe, reply, received, weights, processed, cache>>
  BY <1>1 DEF Respond
<1>3. /\ call' \in [Callers -> Calls] /\ call'[c].at = a /\ call'[c].op = call[c].op
      /\ call'[c].got = call[c].got /\ call'[c].version = call[c].version
      /\ call'[c].bucket = call[c].bucket /\ call'[c].asked = call[c].asked
      /\ \A d \in Callers : d # c => call'[d] = call[d]
  <2>1. a \in {"idle", "sent", "accepted", "receiving", "answered", "failed"}
    OBVIOUS
  <2>2. call \in [Callers -> Calls]
    BY <1>0 DEF ServerTypes
  <2> QED
    BY <1>2, <2>1, <2>2, CallerMoves, Zenon
<1>4. CallServed(c) /\ Active(c) /\ \A d \in Callers : d # c => ~Active(d) /\ call[d].at = "idle"
  BY <1>0, <1>2 DEF Serving, Exclusive, Active
<1>5. call[c].op \in Answering
  BY <1>2, <1>4 DEF CallServed
<1>6. \A w \in Workers : ~received[w] /\ pipe[w] = << >> /\ reply[w] = << >>
  <2> TAKE w \in Workers
  <2>1. WorkerServed(w)
    BY <1>0 DEF Serving
  <2>2. Answered(w, c)
    BY <1>2, <2>1 DEF WorkerServed
  <2> QED
    BY <1>2, <2>2 DEF Answered
<1>7. ServerTypes'
  BY <1>0, <1>2, <1>3 DEF ServerTypes
<1>8. Serving'
  <2>1. Exclusive'
    BY <1>3, <1>4 DEF Exclusive, Active
  <2>2. ASSUME NEW d \in Callers PROVE CallServed(d)'
    <3>1. CallServed(d) /\ d # "nobody"
      BY <1>0, ServerSets DEF Serving
    <3>2. CASE d # c
      BY <1>2, <1>3, <1>4, <3>1, <3>2 DEF CallServed, Active
    <3>3. CASE d = c
      <4>1. a = "failed" => call[c].op = "infer"
        BY <1>1 DEF Fails
      <4> QED
        BY <1>2, <1>3, <1>4, <3>1, <3>3, <4>1 DEF CallServed, Active
    <3> QED
      BY <3>2, <3>3
  <2>3. ASSUME NEW w \in Workers PROVE WorkerServed(w)'
    <3>1. Trailing(w)'
      BY <1>2, <1>6 DEF Trailing
    <3>2. \A d \in Callers : call'[d].at # "accepted" /\ call'[d].at # "receiving"
      BY <1>3, <1>4
    <3>3. \A d \in Callers : call'[d].at \in {"answered", "failed"} =>
            ~received'[w] /\ DOMAIN call'[d].got = Workers
      BY <1>2, <1>3, <1>4, <1>6
    <3> QED
      BY <3>1, <3>2, <3>3 DEF WorkerServed
  <2> QED
    BY <2>1, <2>2, <2>3 DEF Serving
<1>9. Weights'
  <2>1. ASSUME NEW w \in Workers PROVE WorkerWeights(w)'
    <3>1. UNCHANGED <<NextOp, todo, step, lastLoaded, Synchronising>>
      BY DEF NextOp, Synchronising, trainVars
    <3>2. WorkerWeights(w)
      BY <1>0 DEF Weights
    <3>3. \A b \in Buckets : Written(w, b)' <=> Written(w, b)
      BY <1>2, <3>1 DEF Written
    <3>4. Uniform(w, lastLoaded[Main])' <=> Uniform(w, lastLoaded[Main])
      BY <1>2, <3>1 DEF Uniform
    <3>5. Completed(w)' => Completed(w)
      BY <1>2, <1>3, <1>6, ServerSets DEF Completed
    <3>6. NextOp = "update_flattened_params" => call'["trainer"].at # "answered"
      <4>1. "trainer" \in Callers
        BY DEF Callers
      <4>2. c = "trainer" => NextOp \in Answering
        BY <1>0, <1>4, <1>5 DEF Calling, TrainerCalls
      <4> QED
        BY <1>3, <1>4, <4>1, <4>2, ServerSets
    <3> QED
      BY <1>2, <3>1, <3>2, <3>3, <3>4, <3>5, <3>6 DEF WorkerWeights
  <2> QED
    BY <1>0, <2>1 DEF Weights, Synchronising, NextOp, trainVars
<1>10. Calling'
  <2>1. RolloutCalls' /\ TrainerCalls'
    BY <1>0, <1>3, <1>4 DEF Calling, RolloutCalls, TrainerCalls, Active, NextOp, Synchronising, trainVars, Callers
  <2>2. ASSUME NEW d \in Callers PROVE Infers(d)'
    <3>1. CASE d # c
      BY <1>3, <1>4, <3>1 DEF Infers, Active
    <3>2. CASE d = c
      <4>1. Infers(c)
        BY <1>0 DEF Calling
      <4>2. \A w \in Workers : WorkerInfers(c, w) => WorkerInfers(c, w)'
        BY <1>2, <1>3 DEF WorkerInfers, Genuine, trainVars
      <4>3. a = "answered" => ~Fails(c)'
        BY <1>1, <1>3 DEF Fails
      <4> QED
        BY <1>3, <1>4, <3>2, <4>1, <4>2, <4>3 DEF Infers, Active, trainVars
    <3> QED
      BY <3>1, <3>2
  <2> QED
    BY <2>1, <2>2 DEF Calling
<1> QED
  BY <1>7, <1>8, <1>9, <1>10 DEF Sound

(* hence so does every step of the server.                                 *)
LEMMA ServerSound ==
  ASSUME Sound, Quiet, ServerNext, UNCHANGED trainVars
  PROVE  Sound'
<1>1. ASSUME NEW c \in Callers, Handle(c) \/ Respond(c) PROVE Sound'
  BY <1>1, HandleSound, RespondSound
<1>2. ASSUME NEW c \in Callers, NEW w \in Workers, Receive(c, w) PROVE Sound'
  BY <1>2, ReceiveSound
<1>3. ASSUME NEW w \in Workers, WorkerStep(w) PROVE Sound'
  BY <1>3, LoadSound, ProcessSound, ResetSound, InferSound DEF WorkerStep
<1> QED
  BY <1>1, <1>2, <1>3, BroadcastSound DEF ServerNext

-----------------------------------------------------------------------------
(* The calls of the client                                                 *)

(* A request is well formed when it is posted, and no call is Idle.        *)
LEMMA RequestsAre ==
  /\ \A op \in Requests, b \in 0 .. NumBuckets, v \in 0 .. LastStep, asked \in SUBSET Workers :
       LET q == Request(op, b, v, asked)
       IN  /\ q \in Calls /\ q.op = op /\ q.bucket = b /\ q.version = v /\ q.asked = asked
           /\ q.at = "sent" /\ DOMAIN q.got = {}
  /\ Idle \in Calls /\ Idle.at = "idle" /\ DOMAIN Idle.got = {}
<1>1. [w \in {} |-> 0] \in UNION {[V -> Replies] : V \in SUBSET Workers}
  <2>1. [w \in {} |-> 0] \in [{} -> Replies] /\ {} \in SUBSET Workers
    OBVIOUS
  <2> QED
    BY <2>1
<1>2. DOMAIN [w \in {} |-> 0] = {}
  OBVIOUS
<1>3. PICK g \in UNION {[V -> Replies] : V \in SUBSET Workers} : g = [w \in {} |-> 0] /\ DOMAIN g = {}
  BY <1>1, <1>2
<1>4. 0 \in 0 .. NumBuckets /\ 0 \in 0 .. LastStep /\ {} \in SUBSET Workers
  BY ServerAssumption, AsyncAssumption, LastStepIs
<1>5. Idle = [op |-> "none", bucket |-> 0, version |-> 0, asked |-> {}, at |-> "idle", got |-> g]
  BY <1>3 DEF Idle
<1>6. Idle \in Calls /\ Idle.at = "idle" /\ DOMAIN Idle.got = {}
  BY <1>3, <1>4, <1>5 DEF Calls
<1>7. ASSUME NEW op \in Requests, NEW b \in 0 .. NumBuckets, NEW v \in 0 .. LastStep,
             NEW asked \in SUBSET Workers
      PROVE  LET q == Request(op, b, v, asked)
             IN  /\ q \in Calls /\ q.op = op /\ q.bucket = b /\ q.version = v /\ q.asked = asked
                 /\ q.at = "sent" /\ DOMAIN q.got = {}
  <2>1. Request(op, b, v, asked)
          = [op |-> op, bucket |-> b, version |-> v, asked |-> asked, at |-> "sent", got |-> g]
    <3> DEFINE e(x, y, z, u, a) ==
                 [op |-> x, bucket |-> y, version |-> z, asked |-> u, at |-> a, got |-> g]
               i1 == [Idle EXCEPT !.op = op]
               i2 == [i1 EXCEPT !.bucket = b]
               i3 == [i2 EXCEPT !.version = v]
               i4 == [i3 EXCEPT !.asked = asked]
    <3>1. [e("none", 0, 0, {}, "idle") EXCEPT !.op = op] = e(op, 0, 0, {}, "idle")
      OBVIOUS
    <3>2. [e(op, 0, 0, {}, "idle") EXCEPT !.bucket = b] = e(op, b, 0, {}, "idle")
      OBVIOUS
    <3>3. [e(op, b, 0, {}, "idle") EXCEPT !.version = v] = e(op, b, v, {}, "idle")
      OBVIOUS
    <3>4. [e(op, b, v, {}, "idle") EXCEPT !.asked = asked] = e(op, b, v, asked, "idle")
      OBVIOUS
    <3>5. [e(op, b, v, asked, "idle") EXCEPT !.at = "sent"] = e(op, b, v, asked, "sent")
      OBVIOUS
    <3>6. Request(op, b, v, asked) = [i4 EXCEPT !.at = "sent"]
      BY DEF Request
    <3>7. Idle = e("none", 0, 0, {}, "idle")
      BY <1>5
    <3>8. i1 = e(op, 0, 0, {}, "idle")
      BY <3>1, <3>7, Zenon
    <3> HIDE DEF e, i1
    <3>9. i2 = e(op, b, 0, {}, "idle")
      BY <3>2, <3>8, Zenon
    <3> HIDE DEF i2
    <3>10. i3 = e(op, b, v, {}, "idle")
      BY <3>3, <3>9, Zenon
    <3> HIDE DEF i3
    <3>11. i4 = e(op, b, v, asked, "idle")
      BY <3>4, <3>10, Zenon
    <3> HIDE DEF i4
    <3>12. Request(op, b, v, asked) = e(op, b, v, asked, "sent")
      BY <3>5, <3>6, <3>11, Zenon
    <3> QED
      BY <3>12 DEF e
  <2>2. PICK q \in Calls :
          q = [op |-> op, bucket |-> b, version |-> v, asked |-> asked, at |-> "sent", got |-> g]
    BY DEF Calls
  <2> QED
    BY <1>3, <2>1, <2>2
<1> QED
  BY <1>6, <1>7

(* The client may post a request when no other call is under way.          *)
LEMMA PostSound ==
  ASSUME Sound, UNCHANGED trainVars, NEW c \in Callers,
         NEW op \in Requests, NEW b \in 0 .. NumBuckets, NEW v \in 0 .. LastStep,
         NEW asked \in SUBSET Workers, Post(c, Request(op, b, v, asked)),
         \A d \in Callers : ~Active(d),
         c = "rollout" => tasks[Main] # << >> /\ op = "infer",
         c = "trainer" => /\ raised[Main] = "no" /\ inside[Main] = Outside /\ op = NextOp
                          /\ Synchronising => v = step /\ b = Head(todo[Main]).bucket,
         op = "infer" => asked # {} /\ lastLoaded[Main] # -1
  PROVE  Sound'
<1>0. ServerTypes /\ Serving /\ Weights /\ Calling
  BY DEF Sound
<1>1. PICK q \in Calls : /\ q = Request(op, b, v, asked)
                         /\ q.op = op /\ q.bucket = b /\ q.version = v /\ q.asked = asked
                         /\ q.at = "sent" /\ DOMAIN q.got = {}
  BY RequestsAre
<1>2. /\ call' = [call EXCEPT ![c] = q] /\ call \in [Callers -> Calls]
      /\ UNCHANGED <<serving, pipe, reply, received, weights, processed, cache>>
  BY <1>0, <1>1 DEF Post, ServerTypes
<1>3. call' \in [Callers -> Calls] /\ call'[c] = q /\ \A d \in Callers : d # c => call'[d] = call[d]
  BY <1>2
<1>4. \A d \in Callers : call[d].at = "idle"
  BY DEF Active
<1>5. \A w \in Workers : WorkerServed(w) /\ WorkerWeights(w) /\ Trailing(w) /\ reply[w] = << >>
  <2> TAKE w \in Workers
  <2>1. WorkerServed(w) /\ WorkerWeights(w)
    BY <1>0 DEF Serving, Weights
  <2>2. Trailing(w)
    BY <1>4, <2>1 DEF WorkerServed, Handled
  <2> QED
    BY <2>1, <2>2 DEF Trailing
<1>6. ServerTypes'
  BY <1>0, <1>2, <1>3 DEF ServerTypes
<1>7. Serving'
  <2>1. Exclusive'
    BY <1>3, <1>4 DEF Exclusive, Active
  <2>2. ASSUME NEW d \in Callers PROVE CallServed(d)'
    <3>1. CallServed(d)
      BY <1>0 DEF Serving
    <3>2. CASE d # c
      BY <1>2, <1>3, <3>1, <3>2 DEF CallServed, Active
    <3>3. CASE d = c
      BY <1>1, <1>2, <1>3, <1>4, <3>1, <3>3 DEF CallServed, Active
    <3> QED
      BY <3>2, <3>3
  <2>3. ASSUME NEW w \in Workers PROVE WorkerServed(w)'
    <3>1. Trailing(w)'
      BY <1>2, <1>5 DEF Trailing, Loading
    <3>2. \A d \in Callers : call'[d].at \in {"idle", "sent"}
      BY <1>1, <1>3, <1>4
    <3> QED
      BY <3>1, <3>2 DEF WorkerServed
  <2> QED
    BY <2>1, <2>2, <2>3 DEF Serving
<1>8. Weights'
  <2>1. ASSUME NEW w \in Workers PROVE WorkerWeights(w)'
    <3>1. UNCHANGED <<NextOp, todo, step, lastLoaded, Synchronising>>
      BY DEF NextOp, Synchronising, trainVars
    <3>2. \A x \in Buckets : Written(w, x)' <=> Written(w, x)
      BY <1>2, <3>1 DEF Written
    <3>3. Uniform(w, lastLoaded[Main])' <=> Uniform(w, lastLoaded[Main])
      BY <1>2, <3>1 DEF Uniform
    <3>4. call'["trainer"].at \in {"idle", "sent"}
      <4>1. "trainer" \in Callers
        BY DEF Callers
      <4> QED
        BY <1>1, <1>3, <1>4, <4>1
    <3>5. ~Completed(w)' /\ call'["trainer"].at # "answered"
      BY <3>4 DEF Completed
    <3> QED
      BY <1>2, <1>5, <3>1, <3>2, <3>3, <3>5 DEF WorkerWeights
  <2> QED
    BY <1>0, <2>1 DEF Weights, Synchronising, NextOp, trainVars
<1>9. Calling'
  <2>1. RolloutCalls'
    <3>1. Active("rollout")' => c = "rollout"
      BY <1>3, <1>4 DEF Active, Callers
    <3> QED
      BY <1>1, <1>3, <3>1 DEF RolloutCalls, trainVars
  <2>2. TrainerCalls'
    <3>1. Active("trainer")' => c = "trainer"
      BY <1>3, <1>4 DEF Active, Callers
    <3>2. UNCHANGED <<NextOp, todo, step, Synchronising, raised, inside>>
      BY DEF NextOp, Synchronising, trainVars
    <3> QED
      BY <1>1, <1>3, <3>1, <3>2 DEF TrainerCalls
  <2>3. ASSUME NEW d \in Callers PROVE Infers(d)'
    <3>1. CASE d # c
      BY <1>3, <1>4, <3>1 DEF Infers, Active
    <3>2. CASE d = c
      <4>1. \A w \in Workers : WorkerInfers(c, w)'
        BY <1>1, <1>2, <1>3, <1>5 DEF WorkerInfers
      <4>2. call'[c].at # "answered" /\ call'[c].op = op /\ call'[c].asked = asked /\ lastLoaded' = lastLoaded
        BY <1>1, <1>3 DEF trainVars
      <4> QED
        BY <3>2, <4>1, <4>2 DEF Infers
    <3> QED
      BY <3>1, <3>2
  <2> QED
    BY <2>1, <2>2, <2>3 DEF Calling
<1> QED
  BY <1>6, <1>7, <1>8, <1>9 DEF Sound

(* After a return nobody calls.                                            *)
LEMMA Forgotten ==
  ASSUME Sound, NEW c \in Callers, Returned(c), Forget(c)
  PROVE  /\ ServerTypes' /\ Serving' /\ \A d \in Callers : ~Active(d)'
         /\ UNCHANGED <<serving, pipe, reply, received, weights, processed, cache>>
         /\ call[c].op \in Answering => \A w \in Workers : ~received[w]
<1>0. ServerTypes /\ Serving
  BY DEF Sound
<1>1. /\ call' = [call EXCEPT ![c] = Idle] /\ call \in [Callers -> Calls]
      /\ UNCHANGED <<serving, pipe, reply, received, weights, processed, cache>>
      /\ call[c].at \in {"answered", "failed"}
  BY <1>0 DEF Forget, Returned, ServerTypes
<1>2. call' \in [Callers -> Calls] /\ call'[c] = Idle /\ \A d \in Callers : d # c => call'[d] = call[d]
  BY <1>1, RequestsAre
<1>3. Active(c) /\ CallServed(c) /\ \A d \in Callers : d # c => call[d].at = "idle"
  BY <1>0, <1>1 DEF Serving, Exclusive, Active
<1>4. \A d \in Callers : call'[d].at = "idle" /\ ~Active(d)'
  BY <1>2, <1>3, RequestsAre DEF Active
<1>5. \A w \in Workers : WorkerServed(w) /\ Trailing(w)
  <2> TAKE w \in Workers
  <2>1. WorkerServed(w)
    BY <1>0 DEF Serving
  <2> QED
    BY <1>1, <1>3, <2>1 DEF WorkerServed, Handled
<1>6. ServerTypes'
  BY <1>0, <1>1, <1>2 DEF ServerTypes
<1>7. Serving'
  <2>1. Exclusive'
    BY <1>4 DEF Exclusive
  <2>2. ASSUME NEW d \in Callers PROVE CallServed(d)'
    <3>1. CallServed(d)
      BY <1>0 DEF Serving
    <3>2. CASE d # c
      BY <1>1, <1>2, <3>1, <3>2 DEF CallServed, Active
    <3>3. CASE d = c
      <4>1. serving # c
        BY <1>1, <1>3 DEF CallServed
      <4> QED
        BY <1>1, <1>2, <3>3, <4>1, RequestsAre DEF CallServed, Active
    <3> QED
      BY <3>2, <3>3
  <2>3. ASSUME NEW w \in Workers PROVE WorkerServed(w)'
    <3>1. Trailing(w)'
      BY <1>1, <1>5 DEF Trailing, Loading
    <3> QED
      BY <1>4, <3>1 DEF WorkerServed
  <2> QED
    BY <2>1, <2>2, <2>3 DEF Serving
<1>8. call[c].op \in Answering => \A w \in Workers : ~received[w]
  BY <1>1, <1>5 DEF WorkerServed
<1> QED
  BY <1>1, <1>4, <1>6, <1>7, <1>8

(* Steps of the training that neither synchronise nor change what the      *)
(* server is asked for.                                                    *)
LEMMA Rests ==
  ASSUME Sound, ~Synchronising, ~Synchronising', lastLoaded'[Main] = lastLoaded[Main],
         ServerTypes', Serving', UNCHANGED <<pipe, reply, received, weights, processed, cache>>,
         ~Active("trainer")', RolloutCalls',
         \A c \in Callers : Active(c)' => call'[c] = call[c]
  PROVE  Sound'
<1>0. ServerTypes /\ Serving /\ Weights /\ Calling
  BY DEF Sound
<1>1. ASSUME NEW w \in Workers PROVE WorkerWeights(w)'
  <2>1. WorkerWeights(w) /\ ~received[w]
    BY <1>0 DEF Weights, WorkerWeights
  <2>2. lastLoaded[Main] # -1 => Uniform(w, lastLoaded[Main])
    BY <2>1 DEF WorkerWeights
  <2>3. lastLoaded'[Main] # -1 => Uniform(w, lastLoaded[Main])'
    BY <2>2 DEF Uniform
  <2>4. NextOp' \notin SyncOps
    BY DEF Synchronising
  <2> QED
    BY <2>1, <2>3, <2>4, OpsAre DEF WorkerWeights
<1>2. Weights'
  BY <1>1 DEF Weights
<1>3. ASSUME NEW c \in Callers PROVE Infers(c)'
  <2>1. Infers(c)
    BY <1>0 DEF Calling
  <2>2. CASE ~Active(c)'
    BY <2>2 DEF Infers
  <2>3. CASE Active(c)'
    <3>1. call'[c] = call[c] /\ Active(c)
      BY <2>3 DEF Active
    <3>2. \A w \in Workers : WorkerInfers(c, w) => WorkerInfers(c, w)'
      BY <3>1 DEF WorkerInfers, Genuine
    <3>3. Fails(c)' <=> Fails(c)
      BY <3>1 DEF Fails
    <3> QED
      BY <2>1, <3>1, <3>2, <3>3 DEF Infers
  <2> QED
    BY <2>2, <2>3
<1>4. Calling'
  BY <1>3 DEF Calling, TrainerCalls
<1> QED
  BY <1>2, <1>4 DEF Sound

(* The steps of other ranks do not concern the server.                     *)
LEMMA Elsewhere ==
  ASSUME Sound, UNCHANGED serverVars, step' = step, todo'[Main] = todo[Main],
         lastLoaded'[Main] = lastLoaded[Main], raised'[Main] = raised[Main],
         inside'[Main] = inside[Main], tasks'[Main] = tasks[Main]
  PROVE  Sound'
<1>0. ServerTypes /\ Serving /\ Weights /\ Calling
  BY DEF Sound
<1>1. UNCHANGED <<call, serving, pipe, reply, received, weights, processed, cache>>
  BY DEF serverVars
<1>2. UNCHANGED <<NextOp, Synchronising>>
  BY DEF NextOp, Synchronising
<1>3. ServerTypes'
  BY <1>0, <1>1 DEF ServerTypes
<1>4. Serving'
  <2>1. Exclusive' /\ \A c \in Callers : CallServed(c)'
    BY <1>0, <1>1 DEF Serving, Exclusive, CallServed, Active
  <2>2. \A w \in Workers : WorkerServed(w)'
    BY <1>0, <1>1, WorkerFrame DEF Serving
  <2> QED
    BY <2>1, <2>2 DEF Serving
<1>5. ASSUME NEW w \in Workers PROVE WorkerWeights(w)'
  <2>1. WorkerWeights(w)
    BY <1>0 DEF Weights
  <2>2. \A b \in Buckets : Written(w, b)' <=> Written(w, b)
    BY <1>1 DEF Written
  <2>3. Uniform(w, lastLoaded[Main])' <=> Uniform(w, lastLoaded[Main])
    BY <1>1 DEF Uniform
  <2>4. Completed(w)' <=> Completed(w)
    BY <1>1 DEF Completed
  <2> QED
    BY <1>1, <1>2, <2>1, <2>2, <2>3, <2>4 DEF WorkerWeights
<1>6. Weights'
  BY <1>0, <1>2, <1>5 DEF Weights
<1>7. Calling'
  <2>1. RolloutCalls' /\ TrainerCalls'
    BY <1>0, <1>1, <1>2 DEF Calling, RolloutCalls, TrainerCalls, Active
  <2>2. \A c \in Callers : Infers(c)'
    BY <1>0, <1>1 DEF Calling, Infers, WorkerInfers, Genuine, Active, Fails
  <2> QED
    BY <2>1, <2>2 DEF Calling
<1> QED
  BY <1>3, <1>4, <1>6, <1>7 DEF Sound

-----------------------------------------------------------------------------
(* Where a rank is                                                         *)

(* What a phase says of a rank depends on nothing of the others; only the  *)
(* collective in which the results are taken reads inside.                 *)
LEMMA LocalFrame ==
  ASSUME NEW r \in Ranks, NEW phase \in Phases, NEW q \in Modes, NEW X \in Seq(Steps),
         Local(r, phase, q, X), step' = step, todo'[r] = todo[r], queue'[r] = queue[r],
         tasks'[r] = tasks[r], sent'[r] = sent[r], took'[r] = took[r],
         lastLoaded'[r] = lastLoaded[r], phase = "take" => inside'[r] = inside[r]
  PROVE  Local(r, phase, q, X)'
<1>1. \A x \in Modes : (One(r, x, step - 1) <=> One(r, x, step - 1)') /\ (None(r, x) <=> None(r, x)')
  BY DEF One, Good, None, Recent
<1>2. \A x \in Modes : (Due(r, x, step - 1) <=> Due(r, x, step - 1)') /\ (Due(r, x, step) <=> Due(r, x, step)')
  BY DEF Due, Failure, NoTask, UnderWay, One, Good, None, Recent
<1>3. Stored(r, Other(q)) => Stored(r, Other(q))'
  BY <1>1, OpsAre DEF Stored
<1>4. UNCHANGED <<NoTask(r), Synced(r)>> /\ (took'[r] = Nothing <=> took[r] = Nothing)
  BY DEF NoTask, Synced
<1>5. \A x \in Modes, n \in {sent[r][q], sent[r][q] - 1} : InHand(r, x, n) <=> InHand(r, x, n)'
  BY DEF InHand, Recent
<1>6. \A Y \in Seq(Steps) : MainSyncs(r, Y) <=> MainSyncs(r, Y)'
  BY DEF MainSyncs
<1>7. Looking(r, q, X) => Looking(r, q, X)'
  BY <1>1, <1>4 DEF Looking
<1>8. Filling(r, q, X) => Filling(r, q, X)'
  BY <1>1, <1>4, <1>6, Programs DEF Filling
<1>9. Waiting(r, q, X) => Waiting(r, q, X)'
  BY <1>2, <1>4 DEF Waiting
<1>10. Taking(r, q, X) /\ inside'[r] = inside[r] => Taking(r, q, X)'
  BY <1>1, <1>4, <1>5, <1>6, Programs DEF Taking, Holding
<1>11. Submitting(r, q, X) => Submitting(r, q, X)'
  BY <1>1, <1>2, <1>4, <1>5 DEF Submitting
<1>12. /\ Evaluated(r) => Evaluated(r)'
       /\ Training(r) => Training(r)'
       /\ Evaluating(r) => Evaluating(r)'
       /\ Over(r) => Over(r)'
  BY <1>2, OpsAre DEF Evaluated, Training, Evaluating, Over
<1> QED
  BY <1>3, <1>7, <1>8, <1>9, <1>10, <1>11, <1>12 DEF Local, Phases, Generating

OpOf(s) == IF s = << >> THEN "none" ELSE Head(s).op

(* The operation each remainder starts with.                               *)
LEMMA OpsOfPrograms ==
  ASSUME NEW q \in Modes, NEW X \in Seq(Steps)
  PROVE  /\ OpOf(ToResults(q, X)) = "results" /\ OpOf(ToSubmit(q, X)) = "submit"
         /\ OpOf(ToTake(q, X)) = "take" /\ OpOf(ToSync(q, X)) = "sync"
         /\ OpOf(ToWait(q, X)) = "wait" /\ OpOf(ToInfer(q, X)) = "infer"
         /\ OpOf(ToFill(q, X)) = "sync" /\ OpOf(ToInputs(q, X)) = "inputs"
         /\ OpOf(ToPrefetch(q, X)) = "prefetchIfEmpty"
         /\ \A i \in 1 .. NumBuckets + 2 : OpOf(SyncsLeft(i) \o X) \in SyncOps
<1>1. \A op \in Ops, d \in Modes : Step(op, q, d).op = op
  BY StepsAre
<1>2. "train" \in Modes
  BY OpsAre
<1>3. /\ OpOf(ToResults(q, X)) = "results" /\ OpOf(ToSubmit(q, X)) = "submit"
      /\ OpOf(ToTake(q, X)) = "take" /\ OpOf(ToSync(q, X)) = "sync"
      /\ OpOf(ToWait(q, X)) = "wait" /\ OpOf(ToInfer(q, X)) = "infer"
      /\ OpOf(ToFill(q, X)) = "sync" /\ OpOf(ToInputs(q, X)) = "inputs"
      /\ OpOf(ToPrefetch(q, X)) = "prefetchIfEmpty"
  <2>1. /\ Step("results", q, q).op = "results" /\ Step("submit", q, q).op = "submit"
        /\ Step("take", q, q).op = "take" /\ Step("sync", q, q).op = "sync"
        /\ Step("wait", q, "train").op = "wait" /\ Step("infer", q, q).op = "infer"
        /\ Step("inputs", q, q).op = "inputs"
        /\ Step("prefetchIfEmpty", q, q).op = "prefetchIfEmpty"
    BY DEF Step
  <2>2. /\ ToResults(q, X) # << >> /\ Head(ToResults(q, X)) = Step("results", q, q)
        /\ ToSubmit(q, X) # << >> /\ Head(ToSubmit(q, X)) = Step("submit", q, q)
        /\ ToTake(q, X) # << >> /\ Head(ToTake(q, X)) = Step("take", q, q)
        /\ ToSync(q, X) # << >> /\ Head(ToSync(q, X)) = Step("sync", q, q)
        /\ ToWait(q, X) # << >> /\ Head(ToWait(q, X)) = Step("wait", q, "train")
        /\ ToInfer(q, X) # << >> /\ Head(ToInfer(q, X)) = Step("infer", q, q)
        /\ ToFill(q, X) # << >> /\ Head(ToFill(q, X)) = Step("sync", q, q)
        /\ ToInputs(q, X) # << >> /\ Head(ToInputs(q, X)) = Step("inputs", q, q)
        /\ ToPrefetch(q, X) # << >> /\ Head(ToPrefetch(q, X)) = Step("prefetchIfEmpty", q, q)
    BY Programs
  <2> QED
    BY <2>1, <2>2 DEF OpOf
<1>4. \A i \in 1 .. NumBuckets + 2 : SyncCalls[i].op \in SyncOps
  <2> TAKE i \in 1 .. NumBuckets + 2
  <2>1. NumBuckets \in Nat \ {0}
    BY SyncSteps
  <2>2. i \in 1 .. NumBuckets \/ i = NumBuckets + 1 \/ i = NumBuckets + 2
    BY <2>1
  <2>3. \A op \in SyncOps, b \in 0 .. NumBuckets : CallStep(op, b).op = op
    BY StepsAre
  <2>4. \A j \in 1 .. NumBuckets : j \in 0 .. NumBuckets
    OBVIOUS
  <2>5. 0 \in 0 .. NumBuckets
    BY <2>1
  <2>6. CASE i \in 1 .. NumBuckets
    BY <2>3, <2>4, <2>6, SyncSteps, OpsAre
  <2>7. CASE i = NumBuckets + 1 \/ i = NumBuckets + 2
    BY <2>3, <2>5, <2>7, SyncSteps, OpsAre
  <2> QED
    BY <2>2, <2>6, <2>7
<1>5. \A i \in 1 .. NumBuckets + 2 : OpOf(SyncsLeft(i) \o X) \in SyncOps
  BY <1>4, SyncPrograms DEF OpOf
<1> QED
  BY <1>3, <1>5

(* Where the first step of its program says a rank is.                     *)
Place(r, phase, q, X) ==
  LET op == OpOf(todo[r])
  IN  /\ op = "none" => phase \in {"evaluated", "over"}
      /\ op = "wait" =>
           \/ phase \in {"look", "fill"} /\ todo[r] = ToWait(q, X) /\ One(r, q, step - 1)
                /\ NoTask(r) /\ took[r] = Nothing
           \/ phase = "wait" /\ todo[r] = ToWait(q, X) /\ Due(r, q, step - 1) /\ took[r] = Nothing
           \/ phase = "evaluated" /\ Evaluated(r) /\ step # LastStep
                /\ todo[r] = <<Step("wait", "eval", "train")>> \o TrainingStep(step, FALSE)
           \/ phase = "evaluate" /\ Evaluating(r)
      /\ op = "sync" =>
           \/ phase = "fill" /\ todo[r] = ToFill(q, X) /\ None(r, q) /\ NoTask(r) /\ took[r] = Nothing
           \/ phase = "take" /\ todo[r] = ToSync(q, X) /\ Holding(r, q) /\ NoTask(r)
      /\ op \in SyncOps => r = Main /\ NoTask(r) /\
           (\/ phase = "fill" /\ MainSyncs(r, ToInfer(q, X)) /\ None(r, q) /\ took[r] = Nothing
            \/ phase = "take" /\ MainSyncs(r, ToTake(q, X)) /\ Holding(r, q))
      /\ op = "take" =>
           phase = "take" /\ todo[r] = ToTake(q, X) /\ Synced(r) /\ NoTask(r) /\
             (\/ Holding(r, q)
              \/ InHand(r, q, sent[r][q]) /\ None(r, q) /\ inside[r] = "inputs")
      /\ op = "submit" => phase = "submit" /\ todo[r] = ToSubmit(q, X) /\ NoTask(r) /\ None(r, q)
                            /\ Synced(r) /\ InHand(r, q, sent[r][q])
      /\ op = "results" => phase = "submit" /\ todo[r] = ToResults(q, X) /\ Due(r, q, step)
                             /\ InHand(r, q, sent[r][q] - 1)
      /\ op = "inputs" => phase = "look" /\ todo[r] = ToInputs(q, X) /\ None(r, q) /\ NoTask(r)
                            /\ took[r] = Nothing
      /\ op = "infer" => phase = "fill" /\ todo[r] = ToInfer(q, X) /\ None(r, q) /\ Synced(r)
                           /\ NoTask(r) /\ took[r] = Nothing
      /\ op = "prefetchIfEmpty" => phase = "look" /\ todo[r] = ToPrefetch(q, X) /\ NoTask(r)
                                     /\ took[r] = Nothing /\ (None(r, q) \/ One(r, q, step - 1))
      /\ op = "train" => phase = "train" /\ Training(r)

(* The phase a rank is in says what it executes next.                      *)
LEMMA Places ==
  ASSUME step \in 0 .. LastStep, NEW r \in Ranks, NEW phase \in Phases, NEW q \in Modes,
         NEW X \in Seq(Steps), Local(r, phase, q, X)
  PROVE  Place(r, phase, q, X) /\ OpOf(todo[r]) \in {"none"} \cup Ops
<1> DEFINE op == OpOf(todo[r])
<1>0. /\ "none" \notin Ops
      /\ \A o \in SyncOps : o \in Ops /\ o \notin {"none", "wait", "sync", "take", "submit", "results",
                                       "inputs", "infer", "prefetchIfEmpty", "train"}
      /\ {"wait", "sync", "take", "submit", "results", "inputs", "infer", "prefetchIfEmpty", "train"}
           \subseteq Ops
  BY OpsAre
<1>1. CASE phase = "look"
  <2>1. Looking(r, q, X)
    BY <1>1 DEF Local
  <2> QED
    BY <1>0, <1>1, <2>1, OpsOfPrograms DEF Looking, Place
<1>2. CASE phase = "fill"
  <2>1. Filling(r, q, X)
    BY <1>2 DEF Local
  <2>2. MainSyncs(r, ToInfer(q, X)) => op \in SyncOps /\ r = Main
    BY Programs, OpsOfPrograms DEF MainSyncs
  <2> QED
    BY <1>0, <1>2, <2>1, <2>2, OpsOfPrograms DEF Filling, Place
<1>3. CASE phase = "wait"
  BY <1>0, <1>3, OpsOfPrograms DEF Local, Waiting, Place
<1>4. CASE phase = "take"
  <2>1. Taking(r, q, X)
    BY <1>4 DEF Local
  <2>2. MainSyncs(r, ToTake(q, X)) => op \in SyncOps /\ r = Main
    BY Programs, OpsOfPrograms DEF MainSyncs
  <2> QED
    BY <1>0, <1>4, <2>1, <2>2, OpsOfPrograms DEF Taking, Place
<1>5. CASE phase = "submit"
  <2>1. Submitting(r, q, X)
    BY <1>5 DEF Local
  <2> QED
    BY <1>0, <1>5, <2>1, OpsOfPrograms DEF Submitting, Place
<1>6. CASE phase = "evaluated"
  <2>1. Evaluated(r)
    BY <1>6 DEF Local
  <2>2. CASE step = LastStep
    <3>1. op = "none"
      BY <2>1, <2>2, TrainingSteps DEF Evaluated, OpOf
    <3> QED
      BY <1>0, <1>6, <2>2, <3>1 DEF Place
  <2>3. CASE step # LastStep
    <3>1. PICK w \in Steps : w = Step("wait", "eval", "train") /\ w.op = "wait"
      BY StepsAre, OpsAre
    <3>2. PICK Y \in Seq(Steps) : Y = TrainingStep(step, FALSE)
      BY <2>3, TrainingSteps
    <3>3. todo[r] = <<w>> \o Y
      BY <2>1, <2>3, <3>1, <3>2, TrainingSteps DEF Evaluated, Wait
    <3>4. op = "wait"
      BY <3>1, <3>3, Consed DEF OpOf
    <3> QED
      BY <1>0, <1>6, <2>1, <2>3, <3>1, <3>2, <3>3, <3>4 DEF Place
  <2> QED
    BY <2>2, <2>3
<1>7. CASE phase = "train"
  <2>1. Training(r)
    BY <1>7 DEF Local
  <2>2. op = "train"
    BY <2>1, StepsAre, OpsAre, OneReply DEF Training, OpOf
  <2> QED
    BY <1>0, <1>7, <2>1, <2>2 DEF Place
<1>8. CASE phase = "evaluate"
  <2>1. Evaluating(r)
    BY <1>8 DEF Local
  <2>2. PICK w \in Steps : w = Step("wait", "train", "train") /\ w.op = "wait"
    BY StepsAre, OpsAre
  <2>3. PICK Y \in Seq(Steps) : Y = ToPrefetch("eval", Kont("eval", EvalBatches - 1, step))
    <3>1. EvalBatches - 1 \in Nat
      BY AsyncAssumption
    <3>2. Kont("eval", EvalBatches - 1, step) \in Seq(Steps) /\ "eval" \in Modes
      BY <3>1, Continuations, OpsAre
    <3> QED
      BY <3>2, Programs
  <2>4. todo[r] = <<w>> \o Y
    BY <2>1, <2>2, <2>3 DEF Evaluating, ToEvaluate, Wait
  <2>5. op = "wait"
    BY <2>2, <2>4, Consed DEF OpOf
  <2> QED
    BY <1>0, <1>8, <2>1, <2>5 DEF Place
<1>9. CASE phase = "over"
  <2>1. op = "none"
    BY <1>9 DEF Local, Over, OpOf
  <2> QED
    BY <1>0, <1>9, <2>1 DEF Place
<1> QED
  BY <1>1, <1>2, <1>3, <1>4, <1>5, <1>6, <1>7, <1>8, <1>9 DEF Phases, Generating

(* The operation of the main rank.                                         *)
LEMMA NextOpIs == NextOp = OpOf(todo[Main])
BY DEF NextOp, OpOf

(* While a rollout is under way the main rank does not call.               *)
LEMMA QuietHolds ==
  ASSUME IInv
  PROVE  Quiet
<1>0. Main \in Ranks /\ step \in 0 .. LastStep /\ Rounds
  BY AsyncAssumption DEF IInv, Types
<1>1. PICK phase \in Phases, q \in Modes, k \in 0 .. EvalBatches - 1 : Round(phase, q, k)
  BY <1>0 DEF Rounds
<1>2. PICK X \in Seq(Steps) : X = Kont(q, k, step)
  <2>1. k \in Nat
    BY AsyncAssumption
  <2> QED
    BY <1>0, <2>1, Continuations
<1>3. Place(Main, phase, q, X)
  BY <1>0, <1>1, <1>2, Places DEF Round
<1>4. "infer" \notin SyncOps
  BY OpsAre
<1>5. tasks[Main] # << >> => ~Synchronising /\ NextOp # "infer"
  BY <1>3, <1>4, NextOpIs DEF Place, NoTask, Synchronising
<1>6. ASSUME Synchronising
      PROVE  \E i \in 1 .. NumBuckets + 2 : Head(todo[Main]) = SyncCalls[i]
  <2>1. MainSyncs(Main, ToInfer(q, X)) \/ MainSyncs(Main, ToTake(q, X))
    BY <1>3, <1>6, NextOpIs DEF Place, Synchronising
  <2>2. ToInfer(q, X) \in Seq(Steps) /\ ToTake(q, X) \in Seq(Steps)
    BY Programs
  <2>3. PICK Y \in Seq(Steps) : MainSyncs(Main, Y)
    BY <2>1, <2>2
  <2>4. PICK i \in 1 .. NumBuckets + 2 : todo[Main] = SyncsLeft(i) \o Y
    BY <2>3 DEF MainSyncs
  <2>5. Head(SyncsLeft(i) \o Y) = SyncCalls[i]
    BY SyncPrograms
  <2> QED
    BY <2>4, <2>5
<1>7. /\ NumBuckets \in Nat \ {0} /\ 0 \in 0 .. NumBuckets
      /\ \A op \in SyncOps, b \in 0 .. NumBuckets :
           CallStep(op, b).op = op /\ CallStep(op, b).bucket = b
  BY SyncSteps, StepsAre
<1>8. \A i \in 1 .. NumBuckets + 2 :
        /\ SyncCalls[i].bucket \in 0 .. NumBuckets
        /\ SyncCalls[i].op = "update_flattened_params" => SyncCalls[i].bucket \in Buckets
  <2> TAKE i \in 1 .. NumBuckets + 2
  <2>1. CASE i \in 1 .. NumBuckets
    BY <1>7, <2>1, SyncSteps, OpsAre DEF Buckets
  <2>2. CASE i = NumBuckets + 1
    BY <1>7, <2>2, SyncSteps, OpsAre
  <2>3. CASE i = NumBuckets + 2
    BY <1>7, <2>3, SyncSteps, OpsAre
  <2>4. i \in 1 .. NumBuckets \/ i = NumBuckets + 1 \/ i = NumBuckets + 2
    BY <1>7
  <2> QED
    BY <2>1, <2>2, <2>3, <2>4
<1>9. Synchronising => Head(todo[Main]).bucket \in 0 .. NumBuckets
  BY <1>6, <1>8
<1>10. NextOp = "update_flattened_params" =>
         Synchronising /\ Head(todo[Main]).op = "update_flattened_params"
  BY OpsAre DEF NextOp, Synchronising
<1>11. NextOp = "update_flattened_params" => Head(todo[Main]).bucket \in Buckets
  BY <1>6, <1>8, <1>10
<1> QED
  BY <1>5, <1>9, <1>11 DEF Quiet

(* A step of one rank.                                                     *)
Only(r) ==
  \A s \in Ranks : s # r =>
    /\ todo'[s] = todo[s] /\ inside'[s] = inside[s] /\ queue'[s] = queue[s]
    /\ tasks'[s] = tasks[s] /\ sent'[s] = sent[s] /\ took'[s] = took[s]
    /\ lastLoaded'[s] = lastLoaded[s] /\ raised'[s] = raised[s]

(* Steps of the training that make no call leave the server as it was.     *)
LEMMA Still ==
  ASSUME Sound, UNCHANGED serverVars
  PROVE  /\ ServerTypes' /\ Serving'
         /\ UNCHANGED <<call, serving, pipe, reply, received, weights, processed, cache>>
<1>0. ServerTypes /\ Serving
  BY DEF Sound
<1>1. UNCHANGED <<call, serving, pipe, reply, received, weights, processed, cache>>
  BY DEF serverVars
<1>2. ServerTypes'
  BY <1>0, <1>1 DEF ServerTypes
<1>3. Exclusive' /\ \A c \in Callers : CallServed(c)'
  BY <1>0, <1>1 DEF Serving, Exclusive, CallServed, Active
<1>4. \A w \in Workers : WorkerServed(w)'
  BY <1>0, <1>1, WorkerFrame DEF Serving
<1> QED
  BY <1>1, <1>2, <1>3, <1>4 DEF Serving

(* Steps of the main rank between its calls.                               *)
LEMMA BetweenCalls ==
  ASSUME Sound, UNCHANGED serverVars, OpOf(todo[Main]) \notin Requests,
         OpOf(todo'[Main]) \notin SyncOps, lastLoaded'[Main] = lastLoaded[Main],
         tasks[Main] # << >> => tasks'[Main] # << >>
  PROVE  Sound'
<1>1. ~Synchronising
  BY NextOpIs, OpsAre DEF Synchronising
<1>2. ~Synchronising'
  BY DEF Synchronising, NextOp, OpOf
<1>3. ~Active("trainer")
  <2>1. "trainer" \in Callers
    BY DEF Callers
  <2>2. Active("trainer") => call["trainer"].op = NextOp /\ call["trainer"].op \in Requests
    BY <2>1 DEF Sound, Calling, TrainerCalls, Serving, CallServed
  <2> QED
    BY <2>2, NextOpIs
<1>4. /\ ServerTypes' /\ Serving'
      /\ UNCHANGED <<call, serving, pipe, reply, received, weights, processed, cache>>
  BY Still
<1>5. ~Active("trainer")' /\ \A c \in Callers : Active(c)' => call'[c] = call[c]
  BY <1>3, <1>4 DEF Active
<1>6. RolloutCalls'
  BY <1>4 DEF Sound, Calling, RolloutCalls, Active
<1> QED
  BY <1>1, <1>2, <1>4, <1>5, <1>6, Rests

(* So they keep Sound, unless they start a call themselves.                *)
LEMMA RankSound ==
  ASSUME Sound, UNCHANGED serverVars, NEW r \in Ranks, Only(r), step' = step,
         r = Main => /\ OpOf(todo[Main]) \notin Requests /\ OpOf(todo'[Main]) \notin SyncOps
                     /\ lastLoaded'[Main] = lastLoaded[Main]
                     /\ tasks[Main] # << >> => tasks'[Main] # << >>
  PROVE  Sound'
<1>1. CASE r = Main
  BY <1>1, BetweenCalls
<1>2. CASE r # Main
  BY <1>2, Elsewhere, AsyncAssumption DEF Only
<1> QED
  BY <1>1, <1>2

(* One rank that moves within the round keeps all in the same round.       *)
LEMMA Moves ==
  ASSUME step \in 0 .. LastStep, step' = step, NEW r \in Ranks, Only(r),
         NEW phase \in Phases, NEW q \in Modes, NEW k \in 0 .. EvalBatches - 1,
         NEW X \in Seq(Steps), X = Kont(q, k, step), Round(phase, q, k), Local(r, phase, q, X)',
         \A x \in Modes : Counted(r, x, phase, q)' = Counted(r, x, phase, q),
         \A x \in Known(phase, q) : None(r, x)' <=> None(r, x)
  PROVE  Rounds'
<1>1. ASSUME NEW s \in Ranks PROVE Local(s, phase, q, X)'
  <2>1. Local(s, phase, q, X)
    BY DEF Round
  <2> QED
    BY <2>1, LocalFrame DEF Only
<1>2. ASSUME NEW s \in Ranks
      PROVE  /\ \A x \in Modes : Counted(s, x, phase, q)' = Counted(s, x, phase, q)
             /\ \A x \in Known(phase, q) : None(s, x)' <=> None(s, x)
  <2>1. CASE s = r
    BY <2>1
  <2>2. CASE s # r
    BY <2>2 DEF Only, Counted, None
  <2> QED
    BY <2>1, <2>2
<1>3. Alike(phase, q)
  BY DEF Round
<1>4. Alike(phase, q)'
  BY <1>2, <1>3 DEF Alike
<1>5. Bounds(phase, q)'
  BY DEF Round, Bounds
<1>6. \A s \in Ranks : Local(s, phase, q, Kont(q, k, step))'
  BY <1>1
<1>7. Round(phase, q, k)'
  BY <1>4, <1>5, <1>6 DEF Round
<1> QED
  BY <1>7 DEF Rounds

(* A rank that does nothing stays inside what it was inside of.            *)
LEMMA InsideFrame ==
  ASSUME NEW s \in Ranks, Inside(s), raised'[s] = raised[s], inside'[s] = inside[s],
         todo'[s] = todo[s], queue'[s] = queue[s]
  PROVE  Inside(s)'
BY DEF Inside

(* Where all ranks are.                                                    *)
LEMMA Situated ==
  ASSUME IInv
  PROVE  \E phase \in Phases, q \in Modes, k \in 0 .. EvalBatches - 1, X \in Seq(Steps) :
           /\ X = Kont(q, k, step) /\ Round(phase, q, k) /\ Alike(phase, q) /\ Bounds(phase, q)
           /\ \A r \in Ranks : /\ Place(r, phase, q, X) /\ Local(r, phase, q, X)
                               /\ OpOf(todo[r]) \in {"none"} \cup Ops
<1>0. step \in 0 .. LastStep /\ Rounds
  BY DEF IInv, Types
<1>1. PICK phase \in Phases, q \in Modes, k \in 0 .. EvalBatches - 1 : Round(phase, q, k)
  BY <1>0 DEF Rounds
<1>2. PICK X \in Seq(Steps) : X = Kont(q, k, step)
  <2>1. k \in Nat
    BY AsyncAssumption
  <2> QED
    BY <1>0, <2>1, Continuations
<1>3. Alike(phase, q) /\ Bounds(phase, q) /\ \A r \in Ranks : Local(r, phase, q, X)
  BY <1>1, <1>2 DEF Round
<1>4. \A r \in Ranks : Place(r, phase, q, X) /\ OpOf(todo[r]) \in {"none"} \cup Ops
  BY <1>0, <1>3, Places
<1> QED
  BY <1>1, <1>2, <1>3, <1>4

-----------------------------------------------------------------------------
(* The steps of one rank                                                   *)

(* What an enabled step of a rank says of its program.                     *)
LEMMA Runs ==
  ASSUME NEW r \in Ranks, NEW op, Running(r, op)
  PROVE  /\ OpOf(todo[r]) = op /\ todo[r] # << >> /\ Head(todo[r]).op = op
         /\ raised[r] = "no" /\ inside[r] = Outside
BY DEF Running, OpOf

(* A rank that reaches a collective, or looks at its queue in one.         *)
LEMMA EntersStep ==
  ASSUME IInv, NEW r \in Ranks, NEW op \in {"wait", "inputs", "results", "train"}, Running(r, op),
         NEW what \in Insides, what # Outside,
         what \in {"empty", "error", "ready"} => op = "wait",
         what \notin {"empty", "error", "ready"} => what = op,
         what = "ready" => LET s == queue[r][Head(todo[r]).q] IN s # << >> /\ Head(s) # Error,
         inside' = Enter(r, what),
         UNCHANGED <<serverVars, step, todo, queue, tasks, sent, took, lastLoaded, resampled, raised>>
  PROVE  IInv'
<1>0. Types /\ Sound /\ Rounds /\ \A s \in Ranks : Inside(s)
  BY DEF IInv
<1>1. /\ OpOf(todo[r]) = op /\ todo[r] # << >> /\ Head(todo[r]).op = op
      /\ raised[r] = "no" /\ inside[r] = Outside
  BY Runs
<1>2. PICK phase \in Phases, q \in Modes, k \in 0 .. EvalBatches - 1, X \in Seq(Steps) :
        /\ X = Kont(q, k, step) /\ Round(phase, q, k)
        /\ Place(r, phase, q, X) /\ Local(r, phase, q, X)
  BY Situated
<1>3. phase # "take"
  BY <1>1, <1>2 DEF Place
<1>4. inside'[r] = what /\ inside' \in [Ranks -> Insides]
  BY <1>0 DEF Types, Enter
<1>5. Only(r)
  BY <1>0 DEF Only, Enter, Types
<1>6. Types'
  BY <1>0, <1>4 DEF Types
<1>7. Sound'
  <2>1. op \notin Requests /\ op \notin SyncOps
    BY OpsAre
  <2>2. OpOf(todo'[Main]) = OpOf(todo[Main])
    OBVIOUS
  <2> QED
    BY <1>0, <1>1, <1>5, <2>1, <2>2, RankSound
<1>8. Rounds'
  <2>1. Local(r, phase, q, X)'
    BY <1>2, <1>3, LocalFrame
  <2>2. /\ \A x \in Modes : Counted(r, x, phase, q)' = Counted(r, x, phase, q)
        /\ \A x \in Known(phase, q) : None(r, x)' <=> None(r, x)
    BY DEF Counted, None
  <2>3. step \in 0 .. LastStep
    BY <1>0 DEF Types
  <2> QED
    BY <1>2, <1>5, <2>1, <2>2, <2>3, Moves
<1>9. ASSUME NEW s \in Ranks PROVE Inside(s)'
  <2>1. CASE s = r
    BY <1>0, <1>1, <1>4, <2>1 DEF Inside, Outside
  <2>2. CASE s # r
    BY <1>0, <1>5, <2>2, InsideFrame DEF Only
  <2> QED
    BY <2>1, <2>2
<1> QED
  BY <1>6, <1>7, <1>8, <1>9 DEF IInv

(* Looking at the own queue for the gather of the statuses keeps IInv.     *)
LEMMA PeekStep ==
  ASSUME IInv, NEW r \in Ranks, Peek(r)
  PROVE  IInv'
<1> DEFINE s == queue[r][Head(todo[r]).q]
           v == IF s = << >> THEN "empty" ELSE IF Head(s) = Error THEN "error" ELSE "ready"
<1>1. Running(r, "wait")
  BY DEF Peek
<1>2. PICK what \in {"empty", "error", "ready"} : what = v
  OBVIOUS
<1>3. inside' = Enter(r, what)
      /\ UNCHANGED <<serverVars, step, todo, queue, tasks, sent, took, lastLoaded, resampled, raised>>
  BY <1>2 DEF Peek, Status
<1>4. what \in Insides /\ what # Outside
  BY DEF Insides, Outside
<1>5. what = "ready" => s # << >> /\ Head(s) # Error
  BY <1>2
<1> QED
  BY <1>1, <1>3, <1>4, <1>5, EntersStep

(* Arriving at a collective keeps IInv.                                    *)
LEMMA ArriveStep ==
  ASSUME IInv, NEW r \in Ranks, Arrive(r)
  PROVE  IInv'
<1>1. PICK op \in {"inputs", "results", "train"} : Running(r, op) /\ inside' = Enter(r, op)
  BY DEF Arrive
<1>2. UNCHANGED <<serverVars, step, todo, queue, tasks, sent, took, lastLoaded, resampled, raised>>
  BY DEF Arrive
<1>3. op \in Insides /\ op # Outside
  BY DEF Insides, Outside
<1> QED
  BY <1>1, <1>2, <1>3, EntersStep

(* Taking the result from the queue keeps IInv.                            *)
LEMMA TakeStep ==
  ASSUME IInv, NEW r \in Ranks, Take(r)
  PROVE  IInv'
<1>0. Types /\ Sound /\ Rounds /\ \A s \in Ranks : Inside(s)
  BY DEF IInv
<1>1. /\ OpOf(todo[r]) = "take" /\ todo[r] # << >> /\ Head(todo[r]).op = "take"
      /\ raised[r] = "no" /\ inside[r] = Outside
  BY Runs DEF Take
<1>2. PICK phase \in Phases, q \in Modes, k \in 0 .. EvalBatches - 1, X \in Seq(Steps) :
        /\ X = Kont(q, k, step) /\ Round(phase, q, k)
        /\ Place(r, phase, q, X) /\ Local(r, phase, q, X)
  BY Situated
<1>3. /\ phase = "take" /\ todo[r] = ToTake(q, X) /\ Synced(r) /\ NoTask(r) /\ One(r, q, step - 1)
      /\ took[r] = Nothing /\ Stored(r, Other(q))
  <2>1. inside[r] # "inputs"
    BY <1>1 DEF Outside
  <2>2. phase = "take" /\ todo[r] = ToTake(q, X) /\ Synced(r) /\ NoTask(r) /\ Holding(r, q)
    BY <1>1, <1>2, <2>1 DEF Place
  <2> QED
    BY <1>2, <2>2 DEF Holding, Local
<1>4. Head(todo[r]).q = q
  <2>1. Head(todo[r]) = Step("take", q, q)
    BY <1>3, Programs
  <2> QED
    BY <2>1 DEF Step
<1>5. PICK Q \in [Modes -> Seq(DataCaches)] : Q = queue[r]
  BY <1>0 DEF Types
<1>6. PICK d \in DataCaches : d = Head(Q[q]) /\ Q[q] # << >> /\ Len(Q[q]) = 1
  BY <1>3, <1>5 DEF One
<1>7. Tail(Q[q]) = << >> /\ << >> \in Seq(DataCaches)
  <2>1. Q[q] \in Seq(DataCaches)
    OBVIOUS
  <2>2. Tail(Q[q]) \in Seq(DataCaches) /\ Len(Tail(Q[q])) = 0
    BY <1>6, <2>1, TailHolds
  <2>3. \A u \in Seq(DataCaches) : u = << >> <=> Len(u) = 0
    BY EmptySeq
  <2> QED
    BY <2>2, <2>3
<1>8. /\ took' = [took EXCEPT ![r] = d]
      /\ queue' = [queue EXCEPT ![r] = [Q EXCEPT ![q] = << >>]]
      /\ inside' = [inside EXCEPT ![r] = "inputs"]
      /\ UNCHANGED <<serverVars, step, todo, tasks, sent, lastLoaded, resampled, raised>>
  <2>1. queue[r][q] # << >> /\ Remaining(r, q) = << >>
    BY <1>5, <1>6, <1>7 DEF Remaining
  <2>2. /\ took' = [took EXCEPT ![r] = Head(queue[r][q])]
        /\ queue' = [queue EXCEPT ![r][q] = Remaining(r, q)]
        /\ inside' = Enter(r, "inputs") /\ raised' = raised
        /\ UNCHANGED <<serverVars, step, todo, tasks, sent, lastLoaded, resampled>>
    BY <1>4, <2>1 DEF Take
  <2> QED
    BY <1>5, <1>6, <2>1, <2>2 DEF Enter
<1>9. /\ took'[r] = d /\ took' \in [Ranks -> DataCaches]
      /\ queue'[r] = [Q EXCEPT ![q] = << >>] /\ queue' \in [Ranks -> [Modes -> Seq(DataCaches)]]
      /\ inside'[r] = "inputs" /\ inside' \in [Ranks -> Insides]
  <2>1. [Q EXCEPT ![q] = << >>] \in [Modes -> Seq(DataCaches)] /\ "inputs" \in Insides
    BY <1>7 DEF Insides
  <2> QED
    BY <1>0, <1>8, <2>1 DEF Types
<1>10. queue'[r][q] = << >> /\ \A x \in Modes : x # q => queue'[r][x] = queue[r][x]
  BY <1>5, <1>9
<1>11. Only(r)
  BY <1>0, <1>8 DEF Only, Types
<1>12. Types'
  BY <1>0, <1>8, <1>9 DEF Types
<1>13. Sound'
  <2>1. "take" \notin Requests /\ "take" \notin SyncOps
    BY OpsAre
  <2>2. OpOf(todo'[Main]) = OpOf(todo[Main])
    BY <1>8
  <2> QED
    BY <1>0, <1>1, <1>8, <1>11, <2>1, <2>2, RankSound
<1>14. Rounds'
  <2>1. Stored(r, Other(q))'
    BY <1>3, <1>8, <1>10, OpsAre DEF Stored, One, Good, None, Recent
  <2>2. InHand(r, q, sent[r][q])'
    BY <1>3, <1>5, <1>6, <1>8, <1>9 DEF InHand, One, Good, Recent
  <2>3. None(r, q)' /\ NoTask(r)' /\ Synced(r)' /\ sent'[r] = sent[r]
    BY <1>3, <1>8, <1>10 DEF None, NoTask, Synced
  <2>4. Taking(r, q, X)'
    BY <1>3, <1>8, <1>9, <2>2, <2>3 DEF Taking
  <2>5. Local(r, phase, q, X)'
    BY <1>3, <2>1, <2>4 DEF Local
  <2>6. /\ \A x \in Modes : Counted(r, x, phase, q)' = Counted(r, x, phase, q)
        /\ \A x \in Known(phase, q) : None(r, x)' <=> None(r, x)
    BY <1>3, <1>8, <1>10, OpsAre DEF Counted, None, Known
  <2>7. step \in 0 .. LastStep
    BY <1>0 DEF Types
  <2> QED
    BY <1>2, <1>8, <1>11, <2>5, <2>6, <2>7, Moves
<1>15. ASSUME NEW s \in Ranks PROVE Inside(s)'
  <2>1. CASE s = r
    BY <1>0, <1>1, <1>8, <1>9, <2>1 DEF Inside, Outside
  <2>2. CASE s # r
    BY <1>0, <1>11, <2>2, InsideFrame DEF Only
  <2> QED
    BY <2>1, <2>2
<1> QED
  BY <1>12, <1>13, <1>14, <1>15 DEF IInv

(* Looking whether an evaluation has to be prefetched keeps IInv.          *)
LEMMA PrefetchIfEmptyStep ==
  ASSUME IInv, NEW r \in Ranks, PrefetchIfEmpty(r)
  PROVE  IInv'
<1>0. Types /\ Sound /\ Rounds /\ \A s \in Ranks : Inside(s)
  BY DEF IInv
<1>1. /\ OpOf(todo[r]) = "prefetchIfEmpty" /\ todo[r] # << >>
      /\ raised[r] = "no" /\ inside[r] = Outside
  BY Runs DEF PrefetchIfEmpty
<1>2. PICK phase \in Phases, q \in Modes, k \in 0 .. EvalBatches - 1, X \in Seq(Steps) :
        /\ X = Kont(q, k, step) /\ Round(phase, q, k)
        /\ Place(r, phase, q, X) /\ Local(r, phase, q, X)
  BY Situated
<1>3. /\ phase = "look" /\ todo[r] = ToPrefetch(q, X) /\ NoTask(r) /\ took[r] = Nothing
      /\ None(r, q) \/ One(r, q, step - 1)
      /\ Stored(r, Other(q))
  <2>1. phase = "look"
    BY <1>1, <1>2 DEF Place
  <2>2. Looking(r, q, X) /\ Stored(r, Other(q))
    BY <1>2, <2>1 DEF Local
  <2>3. OpOf(ToInputs(q, X)) = "inputs" /\ OpOf(ToWait(q, X)) = "wait"
    BY OpsOfPrograms
  <2> QED
    BY <1>1, <2>1, <2>2, <2>3 DEF Looking
<1>4. Head(todo[r]).q = q /\ Head(todo[r]).data = q /\ Tail(todo[r]) = ToWait(q, X)
  <2>1. Head(todo[r]) = Step("prefetchIfEmpty", q, q) /\ Tail(todo[r]) = ToWait(q, X)
    BY <1>3, Programs
  <2> QED
    BY <2>1 DEF Step
<1>5. PICK Y \in Seq(Steps) : Y = IF None(r, q) THEN ToInputs(q, X) ELSE ToWait(q, X)
  <2>1. ToInputs(q, X) \in Seq(Steps)
    BY Programs, Zenon
  <2>2. ToWait(q, X) \in Seq(Steps)
    BY Programs, ZenonT(40)
  <2> QED
    BY <2>1, <2>2
<1>6. /\ todo' = [todo EXCEPT ![r] = Y]
      /\ UNCHANGED <<serverVars, step, inside, queue, tasks, sent, took, lastLoaded, resampled, raised>>
  <2>1. << >> \o ToWait(q, X) = ToWait(q, X)
    <3>1. PICK W \in Seq(Steps) : W = ToWait(q, X)
      BY Programs
    <3> QED
      BY <3>1, ConcatEmptySeq
  <2>2. Prefetch(q, q) \o ToWait(q, X) = ToInputs(q, X)
    BY Generation
  <2>3. todo' = [todo EXCEPT ![r] = (IF queue[r][q] = << >> THEN Prefetch(q, q) ELSE << >>) \o Tail(todo[r])]
    BY <1>4 DEF PrefetchIfEmpty, Instead
  <2>4. (IF queue[r][q] = << >> THEN Prefetch(q, q) ELSE << >>) \o Tail(todo[r]) = Y
    BY <1>4, <1>5, <2>1, <2>2 DEF None
  <2> QED
    BY <2>3, <2>4 DEF PrefetchIfEmpty
<1>7. todo'[r] = Y /\ todo' \in [Ranks -> Seq(Steps)]
  BY <1>0, <1>6 DEF Types
<1>8. Only(r)
  BY <1>0, <1>6 DEF Only, Types
<1>9. Types'
  BY <1>0, <1>6, <1>7 DEF Types
<1>10. OpOf(Y) \in {"inputs", "wait"}
  BY <1>5, OpsOfPrograms
<1>11. Sound'
  <2>1. "prefetchIfEmpty" \notin Requests /\ "inputs" \notin SyncOps /\ "wait" \notin SyncOps
    BY OpsAre
  <2>2. r = Main => OpOf(todo'[Main]) \notin SyncOps /\ OpOf(todo[Main]) \notin Requests
    BY <1>1, <1>7, <1>10, <2>1
  <2> QED
    BY <1>0, <1>6, <1>8, <2>2, RankSound
<1>12. Rounds'
  <2>1. Looking(r, q, X)'
    <3>1. NoTask(r)' /\ took'[r] = Nothing /\ (None(r, q)' <=> None(r, q))
      BY <1>3, <1>6 DEF NoTask, None
    <3>2. One(r, q, step - 1) => One(r, q, step - 1)'
      BY <1>6 DEF One, Good, Recent
    <3> QED
      BY <1>3, <1>5, <1>7, <3>1, <3>2 DEF Looking
  <2>2. Stored(r, Other(q))'
    BY <1>3, <1>6, OpsAre DEF Stored, One, Good, None, Recent
  <2>3. Local(r, phase, q, X)'
    BY <1>3, <2>1, <2>2 DEF Local
  <2>4. /\ \A x \in Modes : Counted(r, x, phase, q)' = Counted(r, x, phase, q)
        /\ \A x \in Known(phase, q) : None(r, x)' <=> None(r, x)
    BY <1>3, <1>6 DEF Counted, None
  <2>5. step \in 0 .. LastStep
    BY <1>0 DEF Types
  <2> QED
    BY <1>2, <1>6, <1>8, <2>3, <2>4, <2>5, Moves
<1>13. ASSUME NEW s \in Ranks PROVE Inside(s)'
  <2>1. CASE s = r
    BY <1>0, <1>1, <1>6, <2>1 DEF Inside, Outside
  <2>2. CASE s # r
    BY <1>0, <1>8, <2>2, InsideFrame DEF Only
  <2> QED
    BY <2>1, <2>2
<1> QED
  BY <1>9, <1>11, <1>12, <1>13 DEF IInv

(* The entries of the queues, and how a rollout differs from the other     *)
(* two.                                                                    *)
LEMMA DataAre ==
  /\ Nothing \in DataCaches /\ Error \in DataCaches /\ Nothing.data = "none"
  /\ \A no \in Nat, x \in Modes, at \in 0 .. LastStep, v \in SUBSET (-1 .. LastStep) :
       LET d == DataCache(no, x, at, v)
       IN  /\ d \in DataCaches /\ d # Error /\ d # Nothing
           /\ d.no = no /\ d.data = x /\ d.at = at /\ d.versions = v
<1>1. 0 \in 0 .. LastStep /\ {} \in SUBSET (-1 .. LastStep)
  BY AsyncAssumption, LastStepIs
<1>2. Nothing \in DataCaches /\ Nothing.data = "none"
  BY <1>1 DEF Nothing, DataCaches
<1>3. Error = [no |-> 0, data |-> "error", at |-> 0, versions |-> {}]
  BY DEF Error, Nothing
<1>4. Error \in DataCaches
  BY <1>1, <1>3 DEF DataCaches
<1>5. ASSUME NEW no \in Nat, NEW x \in Modes, NEW at \in 0 .. LastStep,
             NEW v \in SUBSET (-1 .. LastStep)
      PROVE  LET d == DataCache(no, x, at, v)
             IN  /\ d \in DataCaches /\ d # Error /\ d # Nothing
                 /\ d.no = no /\ d.data = x /\ d.at = at /\ d.versions = v
  <2>1. x # "error" /\ x # "none"
    BY OpsAre
  <2>2. Error.data = "error"
    BY <1>3
  <2>3. DataCache(no, x, at, v).data = x
    BY DEF DataCache
  <2>4. DataCache(no, x, at, v) # Error /\ DataCache(no, x, at, v) # Nothing
    BY <1>2, <2>1, <2>2, <2>3
  <2> QED
    BY <2>4 DEF DataCache, DataCaches
<1> QED
  BY <1>2, <1>4, <1>5

(* The rollout that replaces the one a rank has taken.                     *)
LEMMA SubmitStep ==
  ASSUME IInv, NEW r \in Ranks, Submit(r)
  PROVE  IInv'
<1>0. Types /\ Sound /\ Rounds /\ \A s \in Ranks : Inside(s)
  BY DEF IInv
<1>1. /\ OpOf(todo[r]) = "submit" /\ todo[r] # << >>
      /\ raised[r] = "no" /\ inside[r] = Outside
  BY Runs DEF Submit
<1>2. PICK phase \in Phases, q \in Modes, k \in 0 .. EvalBatches - 1, X \in Seq(Steps) :
        /\ X = Kont(q, k, step) /\ Round(phase, q, k) /\ Bounds(phase, q)
        /\ Place(r, phase, q, X) /\ Local(r, phase, q, X)
  BY Situated
<1>3. /\ phase = "submit" /\ todo[r] = ToSubmit(q, X) /\ NoTask(r) /\ None(r, q) /\ Synced(r)
      /\ InHand(r, q, sent[r][q]) /\ Stored(r, Other(q))
  BY <1>1, <1>2 DEF Place, Local
<1>4. Head(todo[r]).q = q /\ Head(todo[r]).data = q /\ Tail(todo[r]) = ToResults(q, X)
  <2>1. Head(todo[r]) = Step("submit", q, q) /\ Tail(todo[r]) = ToResults(q, X)
    BY <1>3, Programs
  <2> QED
    BY <2>1 DEF Step
<1>5. PICK n \in Nat : n = sent[r][q]
  BY <1>0 DEF Types
<1>6. PICK t \in Tasks : t = [q |-> q, no |-> n + 1, data |-> q, at |-> step]
  <2>1. n + 1 \in Nat /\ step \in 0 .. LastStep
    BY <1>0 DEF Types
  <2> QED
    BY <2>1 DEF Tasks
<1>7. PICK Y \in Seq(Steps) : Y = ToResults(q, X)
  BY Programs
<1>8. PICK Q \in [Modes -> Seq(DataCaches)] : Q = queue[r] /\ Q[q] = << >>
  BY <1>0, <1>3 DEF Types, None
<1>9. PICK tk \in Seq(Tasks), Qn \in [Modes -> Seq(DataCaches)] :
        /\ \/ tk = <<t>> /\ Qn = Q
           \/ tk = << >> /\ Qn = [Q EXCEPT ![q] = <<Error>>]
        /\ tasks' = [tasks EXCEPT ![r] = tk] /\ queue' = [queue EXCEPT ![r] = Qn]
        /\ sent' = [sent EXCEPT ![r][q] = n + 1] /\ todo' = [todo EXCEPT ![r] = Y]
        /\ UNCHANGED <<serverVars, step, inside, took, lastLoaded, resampled, raised>>
  <2>0. tasks[r] = << >> /\ tasks \in [Ranks -> Seq(Tasks)] /\ queue \in [Ranks -> [Modes -> Seq(DataCaches)]]
    BY <1>0, <1>3 DEF NoTask, Types
  <2>1. /\ sent' = [sent EXCEPT ![r][q] = n + 1] /\ todo' = [todo EXCEPT ![r] = Y]
        /\ UNCHANGED <<serverVars, step, inside, took, lastLoaded, resampled, raised>>
        /\ \/ /\ tasks' = [tasks EXCEPT ![r] = Append(tasks[r], t)] /\ queue' = queue
           \/ /\ queue' = Put(r, q, Error) /\ tasks' = tasks
    BY <1>4, <1>5, <1>6, <1>7 DEF Submit, Done
  <2>2. CASE tasks' = [tasks EXCEPT ![r] = Append(tasks[r], t)] /\ queue' = queue
    <3>1. Append(tasks[r], t) = <<t>> /\ <<t>> \in Seq(Tasks)
      BY <2>0, OneReply
    <3>2. queue' = [queue EXCEPT ![r] = Q]
      BY <1>8, <2>0, <2>2
    <3> QED
      BY <2>1, <2>2, <3>1, <3>2
  <2>3. CASE queue' = Put(r, q, Error) /\ tasks' = tasks
    <3>1. Append(Q[q], Error) = <<Error>> /\ <<Error>> \in Seq(DataCaches)
      BY <1>8, DataAre, OneReply
    <3>2. queue' = [queue EXCEPT ![r] = [Q EXCEPT ![q] = <<Error>>]]
          /\ [Q EXCEPT ![q] = <<Error>>] \in [Modes -> Seq(DataCaches)]
      BY <1>8, <2>0, <2>3, <3>1 DEF Put
    <3>3. tasks' = [tasks EXCEPT ![r] = << >>] /\ << >> \in Seq(Tasks)
      BY <2>0, <2>3
    <3> QED
      BY <2>1, <3>2, <3>3
  <2> QED
    BY <2>1, <2>2, <2>3
<1>10. /\ todo'[r] = Y /\ todo' \in [Ranks -> Seq(Steps)]
       /\ tasks'[r] = tk /\ tasks' \in [Ranks -> Seq(Tasks)]
       /\ queue'[r] = Qn /\ queue' \in [Ranks -> [Modes -> Seq(DataCaches)]]
       /\ sent'[r][q] = n + 1 /\ sent'[r][Other(q)] = sent[r][Other(q)] /\ sent' \in [Ranks -> [Modes -> Nat]]
       /\ queue'[r][Other(q)] = queue[r][Other(q)]
  <2>1. Other(q) \in Modes /\ Other(q) # q
    BY OpsAre
  <2>2. todo'[r] = Y /\ todo' \in [Ranks -> Seq(Steps)]
    <3>1. todo \in [Ranks -> Seq(Steps)] /\ todo' = [todo EXCEPT ![r] = Y]
      BY <1>0, <1>9 DEF Types
    <3> QED
      BY <3>1
  <2>3. tasks'[r] = tk /\ tasks' \in [Ranks -> Seq(Tasks)]
    <3>1. tasks \in [Ranks -> Seq(Tasks)] /\ tasks' = [tasks EXCEPT ![r] = tk]
      BY <1>0, <1>9 DEF Types
    <3> QED
      BY <3>1
  <2>4. queue'[r] = Qn /\ queue' \in [Ranks -> [Modes -> Seq(DataCaches)]]
    <3>1. /\ queue \in [Ranks -> [Modes -> Seq(DataCaches)]]
          /\ queue' = [queue EXCEPT ![r] = Qn]
      BY <1>0, <1>9 DEF Types
    <3> QED
      BY <3>1
  <2>5. /\ sent'[r][q] = n + 1 /\ sent'[r][Other(q)] = sent[r][Other(q)]
        /\ sent' \in [Ranks -> [Modes -> Nat]]
    <3>1. sent \in [Ranks -> [Modes -> Nat]] /\ sent' = [sent EXCEPT ![r][q] = n + 1] /\ n + 1 \in Nat
      BY <1>0, <1>9 DEF Types
    <3> QED
      BY <2>1, <3>1
  <2>6. Qn[Other(q)] = Q[Other(q)]
    BY <1>9, <2>1
  <2> QED
    BY <1>8, <2>2, <2>3, <2>4, <2>5, <2>6
<1>11. Only(r)
  BY <1>0, <1>9 DEF Only, Types
<1>12. Types'
  BY <1>0, <1>9, <1>10 DEF Types
<1>13. OpOf(Y) = "results" /\ Head(Y).op = "results" /\ Y # << >>
  <2>1. OpOf(Y) = "results" /\ Y # << >>
    BY <1>7, OpsOfPrograms, Programs
  <2> QED
    BY <2>1 DEF OpOf
<1>14. Sound'
  <2>1. "submit" \notin Requests /\ "results" \notin SyncOps
    BY OpsAre
  <2>2. r = Main => OpOf(todo'[Main]) \notin SyncOps /\ OpOf(todo[Main]) \notin Requests
    BY <1>1, <1>10, <1>13, <2>1
  <2>3. tasks[r] = << >>
    BY <1>3 DEF NoTask
  <2> QED
    BY <1>0, <1>9, <1>11, <2>2, <2>3, RankSound
<1>15. Rounds'
  <2>1. Stored(r, Other(q))'
    BY <1>3, <1>9, <1>10 DEF Stored, One, Good, None, Recent
  <2>2. InHand(r, q, sent[r][q] - 1)'
    BY <1>3, <1>5, <1>9, <1>10 DEF InHand, Recent
  <2>3. Due(r, q, step)'
    <3>1. CASE tk = <<t>> /\ Qn = Q
      <4>1. Head(tasks'[r]) = t /\ Len(tasks'[r]) = 1 /\ None(r, q)'
        BY <1>8, <1>10, <3>1, OneReply DEF None
      <4>2. step \in 0 .. step /\ (q = "train" => Recent(step, step))
        <5>1. step \in Nat
          BY <1>0 DEF Types
        <5>2. q = "train" => step % GenerateEvery = 0
          BY <1>2, <1>3 DEF Bounds, Generating
        <5> QED
          BY <5>1, <5>2, Recency
      <4>3. UnderWay(r, q, t, step)'
        BY <1>3, <1>6, <1>9, <1>10, <4>2 DEF UnderWay, Synced, Recent
      <4> QED
        BY <4>1, <4>3 DEF Due
    <3>2. CASE tk = << >> /\ Qn = [Q EXCEPT ![q] = <<Error>>]
      <4>1. queue'[r][q] = <<Error>> /\ tasks'[r] = << >>
        BY <1>10, <3>2
      <4>2. Failure(r, q)' /\ NoTask(r)'
        BY <4>1, DataAre, OneReply DEF Failure, NoTask
      <4> QED
        BY <4>2 DEF Due
    <3> QED
      BY <1>9, <3>1, <3>2
  <2>4. Submitting(r, q, X)'
    BY <1>7, <1>10, <2>2, <2>3 DEF Submitting
  <2>5. Local(r, phase, q, X)'
    BY <1>3, <2>1, <2>4 DEF Local
  <2>6. /\ \A x \in Modes : Counted(r, x, phase, q)' = Counted(r, x, phase, q)
        /\ \A x \in Known(phase, q) : None(r, x)' <=> None(r, x)
    <3>1. Head(todo[r]).op # "results"
      BY <1>1 DEF OpOf
    <3>2. Counted(r, q, phase, q)' = n + 1 - 1 /\ Counted(r, q, phase, q) = n
      BY <1>3, <1>5, <1>10, <1>13, <3>1 DEF Counted
    <3>3. Counted(r, Other(q), phase, q)' = Counted(r, Other(q), phase, q)
      BY <1>10, OpsAre DEF Counted
    <3>4. \A x \in Modes : x = q \/ x = Other(q)
      BY OpsAre
    <3>5. Known(phase, q) = {Other(q)} /\ (None(r, Other(q))' <=> None(r, Other(q)))
      BY <1>3, <1>10 DEF Known, None
    <3>6. n + 1 - 1 = n
      OBVIOUS
    <3> QED
      BY <3>2, <3>3, <3>4, <3>5, <3>6
  <2>7. step \in 0 .. LastStep
    BY <1>0 DEF Types
  <2> QED
    BY <1>2, <1>9, <1>11, <2>5, <2>6, <2>7, Moves
<1>16. ASSUME NEW s \in Ranks PROVE Inside(s)'
  <2>1. CASE s = r
    BY <1>0, <1>1, <1>9, <2>1 DEF Inside, Outside
  <2>2. CASE s # r
    BY <1>0, <1>11, <2>2, InsideFrame DEF Only
  <2> QED
    BY <2>1, <2>2
<1> QED
  BY <1>12, <1>14, <1>15, <1>16 DEF IInv

(* A prefetched result is the first of its queue.                          *)
LEMMA Prefetched ==
  ASSUME Types, NEW r \in Ranks, NEW q \in Modes, NEW X \in Seq(Steps), todo[r] = ToInfer(q, X),
         NoTask(r), None(r, q), took[r] = Nothing, Synced(r), Stored(r, Other(q)),
         Bounds("fill", q), NEW versions \in SUBSET (-1 .. LastStep),
         r = Main => versions = {step}, PutPrefetched(r, versions), raised' = raised
  PROVE  /\ Local(r, "fill", q, X)' /\ Only(r) /\ Types'
         /\ \A x \in Modes : Counted(r, x, "fill", q)' = Counted(r, x, "fill", q)
         /\ \A x \in Known("fill", q) : None(r, x)' <=> None(r, x)
         /\ OpOf(todo'[r]) = "wait"
         /\ UNCHANGED <<step, inside, tasks, took, lastLoaded, resampled>>
<1>4. Head(todo[r]).q = q /\ Head(todo[r]).data = q /\ Tail(todo[r]) = ToWait(q, X) /\ Head(todo[r]).op = "infer"
  <2>1. Head(todo[r]) = Step("infer", q, q) /\ Tail(todo[r]) = ToWait(q, X)
    BY Programs
  <2> QED
    BY <2>1 DEF Step
<1>5. PICK n \in Nat : n = sent[r][q]
  BY DEF Types
<1>6. PICK d \in DataCaches : /\ d = DataCache(n + 1, q, step, versions)
                              /\ d.no = n + 1 /\ d.data = q /\ d.at = step /\ d.versions = versions
  <2>1. n + 1 \in Nat /\ step \in 0 .. LastStep
    BY DEF Types
  <2> QED
    BY <2>1, DataAre
<1>7. PICK Y \in Seq(Steps) : Y = ToWait(q, X)
  BY Programs
<1>8. PICK Q \in [Modes -> Seq(DataCaches)] : Q = queue[r] /\ Q[q] = << >>
  BY DEF Types, None
<1>9. /\ queue' = [queue EXCEPT ![r] = [Q EXCEPT ![q] = <<d>>]]
      /\ sent' = [sent EXCEPT ![r][q] = n + 1] /\ todo' = [todo EXCEPT ![r] = Y]
      /\ UNCHANGED <<step, inside, tasks, took, lastLoaded, resampled>>
  <2>1. Append(Q[q], d) = <<d>>
    BY <1>8, OneReply
  <2>2. /\ queue' = [queue EXCEPT ![r][q] = Append(queue[r][q], d)]
        /\ sent' = [sent EXCEPT ![r][q] = n + 1] /\ todo' = [todo EXCEPT ![r] = Y]
        /\ UNCHANGED <<step, inside, tasks, took, lastLoaded, resampled>>
    BY <1>4, <1>5, <1>6, <1>7 DEF PutPrefetched, Put, Done
  <2> QED
    BY <1>8, <2>1, <2>2 DEF Types
<1>10. /\ todo'[r] = Y /\ todo' \in [Ranks -> Seq(Steps)]
       /\ queue'[r] = [Q EXCEPT ![q] = <<d>>] /\ queue' \in [Ranks -> [Modes -> Seq(DataCaches)]]
       /\ sent'[r][q] = n + 1 /\ sent'[r][Other(q)] = sent[r][Other(q)] /\ sent' \in [Ranks -> [Modes -> Nat]]
       /\ queue'[r][q] = <<d>> /\ queue'[r][Other(q)] = queue[r][Other(q)]
  <2>1. Other(q) \in Modes /\ Other(q) # q
    BY OpsAre
  <2>2. <<d>> \in Seq(DataCaches)
    OBVIOUS
  <2> QED
    BY <1>8, <1>9, <2>1, <2>2 DEF Types
<1>11. Only(r) /\ Types'
  BY <1>9, <1>10 DEF Only, Types
<1>12. OpOf(Y) = "wait" /\ Head(Y).op = "wait"
  <2>1. OpOf(Y) = "wait" /\ Y # << >>
    BY <1>7, OpsOfPrograms, Programs
  <2> QED
    BY <2>1 DEF OpOf
<1>13. Local(r, "fill", q, X)'
  <2>1. Stored(r, Other(q))'
    BY <1>9, <1>10 DEF Stored, One, Good, None, Recent
  <2>2. step \in 0 .. step /\ (q = "train" => Recent(step, step - 1))
    <3>1. step \in Nat /\ step \in 0 .. step
      BY DEF Types
    <3>2. q = "train" => step % GenerateEvery = 0
      BY DEF Bounds, Generating
    <3>3. Recent(step, step) => Recent(step, step - 1)
      BY <3>1, Recency
    <3> QED
      BY <3>1, <3>2, <3>3, Recency
  <2>3. Good(r, q, d, step - 1)'
    BY <1>6, <1>9, <1>10, <2>2 DEF Good, Recent
  <2>4. One(r, q, step - 1)'
    BY <1>10, <2>3, OneReply DEF One
  <2>5. NoTask(r)' /\ took'[r] = Nothing
    BY <1>9 DEF NoTask
  <2>6. Filling(r, q, X)'
    BY <1>7, <1>10, <2>4, <2>5 DEF Filling
  <2> QED
    BY <2>1, <2>6 DEF Local
<1>14. /\ \A x \in Modes : Counted(r, x, "fill", q)' = Counted(r, x, "fill", q)
       /\ \A x \in Known("fill", q) : None(r, x)' <=> None(r, x)
  <2>2. Counted(r, q, "fill", q)' = n + 1 - 1 /\ Counted(r, q, "fill", q) = n
    BY <1>4, <1>5, <1>10, <1>12 DEF Counted
  <2>3. Counted(r, Other(q), "fill", q)' = Counted(r, Other(q), "fill", q)
    BY <1>10, OpsAre DEF Counted
  <2>4. \A x \in Modes : x = q \/ x = Other(q)
    BY OpsAre
  <2>5. Known("fill", q) = {Other(q)} /\ (None(r, Other(q))' <=> None(r, Other(q)))
    BY <1>10 DEF Known, None
  <2>6. n + 1 - 1 = n
    OBVIOUS
  <2> QED
    BY <2>2, <2>3, <2>4, <2>5, <2>6
<1> QED
  BY <1>9, <1>10, <1>11, <1>12, <1>13, <1>14

(* A rank that prefetches without a call keeps IInv.                       *)
LEMMA PrefetchNothingStep ==
  ASSUME IInv, NEW r \in Ranks, PrefetchNothing(r)
  PROVE  IInv'
<1>0. Types /\ Sound /\ Rounds /\ \A s \in Ranks : Inside(s)
  BY DEF IInv
<1>1. /\ OpOf(todo[r]) = "infer" /\ todo[r] # << >> /\ r # Main
      /\ raised[r] = "no" /\ inside[r] = Outside
      /\ PutPrefetched(r, {}) /\ UNCHANGED <<serverVars, raised>>
  BY Runs DEF PrefetchNothing
<1>2. PICK phase \in Phases, q \in Modes, k \in 0 .. EvalBatches - 1, X \in Seq(Steps) :
        /\ X = Kont(q, k, step) /\ Round(phase, q, k) /\ Bounds(phase, q)
        /\ Place(r, phase, q, X) /\ Local(r, phase, q, X)
  BY Situated
<1>3. /\ phase = "fill" /\ todo[r] = ToInfer(q, X) /\ NoTask(r) /\ None(r, q) /\ Synced(r)
      /\ took[r] = Nothing /\ Stored(r, Other(q))
  BY <1>1, <1>2 DEF Place, Local
<1>4. /\ Local(r, phase, q, X)' /\ Only(r)
      /\ \A x \in Modes : Counted(r, x, phase, q)' = Counted(r, x, phase, q)
      /\ \A x \in Known(phase, q) : None(r, x)' <=> None(r, x)
      /\ Types' /\ OpOf(todo'[r]) = "wait"
      /\ UNCHANGED <<step, inside, tasks, took, lastLoaded, resampled>>
  <2>1. {} \in SUBSET (-1 .. LastStep)
    OBVIOUS
  <2> QED
    BY <1>0, <1>1, <1>2, <1>3, <2>1, Prefetched
<1>5. Sound'
  BY <1>0, <1>1, <1>4, RankSound
<1>6. Rounds'
  <2>1. step \in 0 .. LastStep
    BY <1>0 DEF Types
  <2> QED
    BY <1>2, <1>4, <2>1, Moves
<1>7. ASSUME NEW s \in Ranks PROVE Inside(s)'
  <2>1. CASE s = r
    BY <1>0, <1>1, <1>4, <2>1 DEF Inside, Outside
  <2>2. CASE s # r
    BY <1>0, <1>4, <2>2, InsideFrame DEF Only
  <2> QED
    BY <2>1, <2>2
<1> QED
  BY <1>4, <1>5, <1>6, <1>7 DEF IInv

(* The first call of a synchronisation is due.                             *)
LEMMA SyncStarts ==
  ASSUME Sound, UNCHANGED serverVars, step' = step, OpOf(todo[Main]) = "sync", NoTask(Main),
         OpOf(todo'[Main]) = "update_flattened_params", Head(todo'[Main]).bucket = 1,
         lastLoaded'[Main] = step
  PROVE  Sound'
<1>1. ~Synchronising /\ "sync" \notin Requests
  BY NextOpIs, OpsAre DEF Synchronising
<1>2. NextOp' = "update_flattened_params"
  BY OpsAre DEF NextOp, OpOf
<1>3. /\ ServerTypes' /\ Serving'
      /\ UNCHANGED <<call, serving, pipe, reply, received, weights, processed, cache>>
  BY Still
<1>4. \A c \in Callers : ~Active(c) /\ ~Active(c)'
  <2>1. Callers = {"trainer", "rollout"}
    BY ServerSets
  <2>2. ~Active("trainer")
    <3>1. Active("trainer") => call["trainer"].op = NextOp /\ call["trainer"].op \in Requests
      BY <2>1 DEF Sound, Calling, TrainerCalls, Serving, CallServed
    <3> QED
      BY <1>1, <3>1, NextOpIs
  <2>3. ~Active("rollout")
    BY DEF Sound, Calling, RolloutCalls, NoTask
  <2> QED
    BY <1>3, <2>1, <2>2, <2>3 DEF Active
<1>5. Weights'
  <2>1. ASSUME NEW w \in Workers PROVE WorkerWeights(w)'
    <3>1. ~received[w]
      BY <1>1 DEF Sound, Weights, WorkerWeights
    <3>2. \A b \in Buckets : ~(b < 1)
      BY DEF Buckets
    <3>3. call'["trainer"].at # "answered"
      BY <1>4, ServerSets DEF Active
    <3>4. Synchronising'
      BY <1>2, OpsAre DEF Synchronising
    <3> QED
      BY <1>2, <1>3, <3>1, <3>2, <3>3, <3>4 DEF WorkerWeights
  <2> QED
    BY <2>1 DEF Weights
<1>6. Calling'
  BY <1>4, ServerSets DEF Calling, RolloutCalls, TrainerCalls, Infers
<1> QED
  BY <1>3, <1>5, <1>6 DEF Sound

(* The weights move before they are used.                                  *)
LEMMA SyncStep ==
  ASSUME IInv, NEW r \in Ranks, Sync(r)
  PROVE  IInv'
<1>0. Types /\ Sound /\ Rounds /\ \A s \in Ranks : Inside(s)
  BY DEF IInv
<1>1. /\ OpOf(todo[r]) = "sync" /\ todo[r] # << >> /\ Head(todo[r]).op = "sync"
      /\ raised[r] = "no" /\ inside[r] = Outside
  BY Runs DEF Sync
<1>2. PICK phase \in Phases, q \in Modes, k \in 0 .. EvalBatches - 1, X \in Seq(Steps) :
        /\ X = Kont(q, k, step) /\ Round(phase, q, k)
        /\ Place(r, phase, q, X) /\ Local(r, phase, q, X)
  BY Situated
<1>3. /\ Stored(r, Other(q)) /\ NoTask(r) /\ Main \in Ranks
      /\ \/ phase = "fill" /\ todo[r] = ToFill(q, X) /\ None(r, q) /\ took[r] = Nothing
         \/ phase = "take" /\ todo[r] = ToSync(q, X) /\ Holding(r, q)
  BY <1>1, <1>2, AsyncAssumption DEF Place, Local
<1>4. PICK P \in Seq(Steps) : /\ P = Tail(todo[r]) /\ OpOf(P) \in {"infer", "take"}
                              /\ phase = "fill" => P = ToInfer(q, X)
                              /\ phase = "take" => P = ToTake(q, X)
  <2>1. CASE phase = "fill" /\ todo[r] = ToFill(q, X)
    <3>1. Tail(todo[r]) = ToInfer(q, X) /\ ToInfer(q, X) \in Seq(Steps)
      BY <2>1, Programs
    <3> QED
      BY <2>1, <3>1, OpsOfPrograms
  <2>2. CASE phase = "take" /\ todo[r] = ToSync(q, X)
    <3>1. Tail(todo[r]) = ToTake(q, X) /\ ToTake(q, X) \in Seq(Steps)
      BY <2>2, Programs
    <3> QED
      BY <2>2, <3>1, OpsOfPrograms
  <2> QED
    BY <1>3, <2>1, <2>2
<1>5. PICK Y \in Seq(Steps) :
        /\ \/ Y = P /\ ~(lastLoaded[r] # step /\ r = Main)
           \/ Y = SyncsLeft(1) \o P /\ lastLoaded[r] # step /\ r = Main
        /\ todo' = [todo EXCEPT ![r] = Y] /\ lastLoaded' = [lastLoaded EXCEPT ![r] = step]
        /\ UNCHANGED <<serverVars, step, inside, queue, tasks, sent, took, resampled, raised>>
  <2>1. << >> \o P = P /\ SyncCalls \o P = SyncsLeft(1) \o P
    BY ConcatEmptySeq, SyncPrograms
  <2>2. NumBuckets \in Nat \ {0}
    BY SyncSteps
  <2>3. SyncsLeft(1) \o P \in Seq(Steps)
    BY <2>2, SyncPrograms
  <2> QED
    BY <1>4, <2>1, <2>3 DEF Sync, Instead
<1>6. /\ todo'[r] = Y /\ todo' \in [Ranks -> Seq(Steps)]
      /\ lastLoaded'[r] = step /\ lastLoaded' \in [Ranks -> -1 .. LastStep]
  BY <1>0, <1>5 DEF Types
<1>7. Only(r)
  BY <1>0, <1>5 DEF Only, Types
<1>8. Types'
  BY <1>0, <1>5, <1>6 DEF Types
<1>9. Y = SyncsLeft(1) \o P =>
        OpOf(Y) = "update_flattened_params" /\ Head(Y) = CallStep("update_flattened_params", 1)
  <2>1. NumBuckets \in Nat \ {0} /\ 1 \in 1 .. NumBuckets /\ 1 \in 1 .. NumBuckets + 2 /\ 1 \in 0 .. NumBuckets
    BY SyncSteps
  <2>2. /\ Head(SyncsLeft(1) \o P) = CallStep("update_flattened_params", 1)
        /\ SyncsLeft(1) \o P # << >>
    BY <2>1, SyncSteps, SyncPrograms
  <2>3. CallStep("update_flattened_params", 1).op = "update_flattened_params"
    BY DEF CallStep
  <2> QED
    BY <2>2, <2>3 DEF OpOf
<1>10. Sound'
  <2>1. CASE Y = P /\ ~(lastLoaded[r] # step /\ r = Main)
    <3>1. "sync" \notin Requests /\ "infer" \notin SyncOps /\ "take" \notin SyncOps
      BY OpsAre
    <3>2. r = Main => /\ OpOf(todo[Main]) \notin Requests /\ OpOf(todo'[Main]) \notin SyncOps
                      /\ lastLoaded'[Main] = lastLoaded[Main]
      BY <1>1, <1>4, <1>6, <2>1, <3>1
    <3> QED
      BY <1>0, <1>3, <1>5, <1>7, <3>2, RankSound DEF NoTask
  <2>2. CASE Y = SyncsLeft(1) \o P /\ lastLoaded[r] # step /\ r = Main
    <3>1. Head(todo'[Main]).bucket = 1
      <4>1. todo'[Main] = Y /\ Head(Y) = CallStep("update_flattened_params", 1)
        BY <1>6, <1>9, <2>2
      <4>2. CallStep("update_flattened_params", 1).bucket = 1
        BY DEF CallStep
      <4> QED
        BY <4>1, <4>2, Zenon
    <3> QED
      BY <1>0, <1>1, <1>3, <1>5, <1>6, <1>9, <2>2, <3>1, SyncStarts
  <2> QED
    BY <1>5, <2>1, <2>2
<1>11. Rounds'
  <2>1. Stored(r, Other(q))'
    BY <1>3, <1>5, OpsAre DEF Stored, One, Good, None, Recent
  <2>2. /\ NoTask(r)' /\ Synced(r)' /\ None(r, q) = None(r, q)' /\ took'[r] = took[r]
        /\ Holding(r, q) => Holding(r, q)'
    BY <1>3, <1>5, <1>6 DEF NoTask, Synced, Holding, One, Good, None, Recent
  <2>3. (todo'[r] = P) \/ MainSyncs(r, P)'
    <3>1. 1 \in 1 .. NumBuckets + 2
      BY SyncSteps
    <3> QED
      BY <1>5, <1>6, <3>1 DEF MainSyncs
  <2>4. phase = "fill" => Filling(r, q, X)'
    BY <1>3, <1>4, <2>2, <2>3 DEF Filling
  <2>5. phase = "take" => Taking(r, q, X)'
    BY <1>3, <1>4, <2>2, <2>3 DEF Taking
  <2>6. Local(r, phase, q, X)'
    BY <1>3, <2>1, <2>4, <2>5 DEF Local
  <2>7. Head(todo'[r]).op \notin {"wait", "results"}
    <3>1. OpOf(Y) \in {"infer", "take", "update_flattened_params"}
      BY <1>4, <1>5, <1>9
    <3>2. OpOf(Y) = Head(Y).op
      BY <3>1 DEF OpOf
    <3> QED
      BY <1>6, <3>1, <3>2
  <2>8. /\ \A x \in Modes : Counted(r, x, phase, q)' = Counted(r, x, phase, q)
        /\ \A x \in Known(phase, q) : None(r, x)' <=> None(r, x)
    BY <1>1, <1>5, <2>7 DEF Counted, None
  <2>9. step \in 0 .. LastStep
    BY <1>0 DEF Types
  <2> QED
    BY <1>2, <1>5, <1>7, <2>6, <2>8, <2>9, Moves
<1>12. ASSUME NEW s \in Ranks PROVE Inside(s)'
  <2>1. CASE s = r
    BY <1>0, <1>1, <1>5, <2>1 DEF Inside, Outside
  <2>2. CASE s # r
    BY <1>0, <1>7, <2>2, InsideFrame DEF Only
  <2> QED
    BY <2>1, <2>2
<1> QED
  BY <1>8, <1>10, <1>11, <1>12 DEF IInv

-----------------------------------------------------------------------------
(* The calls of the main rank                                              *)

(* Rounds are about the training only.                                     *)
LEMMA RoundsFrame ==
  ASSUME Types, Rounds,
         UNCHANGED <<step, todo, inside, queue, tasks, sent, took, lastLoaded>>
  PROVE  Rounds'
<1>1. PICK phase \in Phases, q \in Modes, k \in 0 .. EvalBatches - 1 : Round(phase, q, k)
  BY DEF Rounds
<1>2. PICK X \in Seq(Steps) : X = Kont(q, k, step)
  <2>1. k \in Nat /\ step \in 0 .. LastStep
    BY AsyncAssumption DEF Types
  <2> QED
    BY <2>1, Continuations
<1>3. \A r \in Ranks : Local(r, phase, q, X)'
  <2> TAKE r \in Ranks
  <2>1. Local(r, phase, q, X)
    BY <1>1, <1>2 DEF Round
  <2> QED
    BY <2>1, LocalFrame
<1>4. Alike(phase, q)' /\ Bounds(phase, q)'
  BY <1>1 DEF Round, Alike, Counted, None, Bounds
<1>5. \A r \in Ranks : Local(r, phase, q, Kont(q, k, step))'
  BY <1>2, <1>3
<1>6. Round(phase, q, k)'
  BY <1>4, <1>5 DEF Round
<1> QED
  BY <1>6 DEF Rounds

(* Steps of the server alone keep IInv when they keep Sound.               *)
LEMMA Unmoved ==
  ASSUME IInv, UNCHANGED trainVars, Sound'
  PROVE  IInv'
<1>1. UNCHANGED <<step, todo, inside, queue, tasks, sent, took, lastLoaded, resampled, raised>>
  BY DEF trainVars
<1>2. Types'
  BY <1>1 DEF IInv, Types
<1>3. Rounds'
  BY <1>1, RoundsFrame DEF IInv
<1>4. \A r \in Ranks : Inside(r)'
  BY <1>1, InsideFrame DEF IInv
<1> QED
  BY <1>2, <1>3, <1>4 DEF IInv

(* Every step of the server keeps IInv.                                    *)
LEMMA ServerStep ==
  ASSUME IInv, Server
  PROVE  IInv'
BY QuietHolds, ServerSound, Unmoved DEF Server, IInv

(* Posting a call of a synchronisation keeps IInv.                         *)
LEMMA SyncCallStep ==
  ASSUME IInv, SyncCall
  PROVE  IInv'
<1>0. Types /\ Sound /\ Quiet /\ Main \in Ranks /\ step \in 0 .. LastStep
  BY QuietHolds, AsyncAssumption DEF IInv, Types
<1>1. PICK op \in SyncOps : /\ Running(Main, op) /\ UNCHANGED trainVars
                            /\ Post("trainer", Request(op, Head(todo[Main]).bucket, step, {}))
  BY DEF SyncCall
<1>2. NextOp = op /\ raised[Main] = "no" /\ inside[Main] = Outside /\ Synchronising
  BY <1>0, <1>1, Runs, NextOpIs DEF Synchronising
<1>3. op \in Requests /\ op # "infer" /\ "trainer" \in Callers
  BY OpsAre, ServerSets
<1>4. \A d \in Callers : ~Active(d)
  <2>1. ~Active("trainer")
    BY <1>1 DEF Post, Active
  <2>2. ~Active("rollout")
    BY <1>0, <1>2 DEF Sound, Calling, RolloutCalls, Quiet
  <2> QED
    BY <2>1, <2>2, ServerSets
<1>5. PICK b \in 0 .. NumBuckets : b = Head(todo[Main]).bucket
  BY <1>0, <1>2 DEF Quiet
<1>6. PICK none \in SUBSET Workers : none = {}
  OBVIOUS
<1>7. Sound'
  BY <1>0, <1>1, <1>2, <1>3, <1>4, <1>5, <1>6, PostSound
<1> QED
  BY <1>1, <1>7, Unmoved

(* A rollout asks some worker.                                             *)
LEMMA Asks ==
  ASSUME NEW d \in Modes
  PROVE  Asked(BatchOf[d]) \in SUBSET Workers /\ Asked(BatchOf[d]) # {}
<1>1. BatchOf[d] \in Nat \ {0} /\ 1 \in Workers
  BY AsyncAssumption, ServerAssumption DEF Modes, Workers
<1>2. \A w \in Workers : w \in Nat
  BY DEF Workers
<1>3. 1 \in Asked(BatchOf[d])
  BY <1>1 DEF Asked
<1> QED
  BY <1>3 DEF Asked

(* Posting the call of a prefetch keeps IInv.                              *)
LEMMA PrefetchCallStep ==
  ASSUME IInv, PrefetchCall
  PROVE  IInv'
<1>0. Types /\ Sound /\ Quiet /\ Main \in Ranks /\ step \in 0 .. LastStep
  BY QuietHolds, AsyncAssumption DEF IInv, Types
<1>1. /\ OpOf(todo[Main]) = "infer" /\ todo[Main] # << >>
      /\ raised[Main] = "no" /\ inside[Main] = Outside
      /\ Post("trainer", Request("infer", 0, 0, Asked(BatchOf[Head(todo[Main]).data])))
      /\ UNCHANGED trainVars
  BY <1>0, Runs DEF PrefetchCall
<1>2. NextOp = "infer" /\ ~Synchronising /\ "infer" \in Requests /\ "trainer" \in Callers
  BY <1>1, NextOpIs, OpsAre, ServerSets DEF Synchronising
<1>3. PICK asked \in SUBSET Workers : asked = Asked(BatchOf[Head(todo[Main]).data]) /\ asked # {}
  <2>1. todo[Main] \in Seq(Steps)
    BY <1>0 DEF Types
  <2>2. Head(todo[Main]).data \in Modes
    BY <1>1, <2>1, TailHolds, StepsAre
  <2> QED
    BY <2>2, Asks
<1>4. \A d \in Callers : ~Active(d)
  <2>1. ~Active("trainer")
    BY <1>1 DEF Post, Active
  <2>2. ~Active("rollout")
    BY <1>0, <1>2 DEF Sound, Calling, RolloutCalls, Quiet
  <2> QED
    BY <2>1, <2>2, ServerSets
<1>5. lastLoaded[Main] # -1
  <2>1. Synced(Main)
    <3>1. PICK phase \in Phases, q \in Modes, X \in Seq(Steps) : Place(Main, phase, q, X)
      BY <1>0, Situated
    <3> QED
      BY <1>1, <3>1 DEF Place
  <2> QED
    BY <1>0, <2>1 DEF Synced
<1>6. 0 \in 0 .. NumBuckets /\ 0 \in 0 .. LastStep
  BY ServerAssumption, AsyncAssumption, LastStepIs
<1>7. Sound'
  BY <1>0, <1>1, <1>2, <1>3, <1>4, <1>5, <1>6, PostSound
<1> QED
  BY <1>1, <1>7, Unmoved

(* One call of a synchronisation has returned; the next one is due, or the *)
(* weights are those of this step.                                         *)
LEMMA SyncReturned ==
  ASSUME Sound, Returned("trainer"), Forget("trainer"), step' = step,
         NEW i \in 1 .. NumBuckets + 2, NEW Y \in Seq(Steps), OpOf(Y) \notin SyncOps,
         todo[Main] = SyncsLeft(i) \o Y, todo'[Main] = SyncsLeft(i + 1) \o Y,
         lastLoaded' = lastLoaded
  PROVE  Sound'
<1>0. /\ ServerTypes' /\ Serving' /\ \A d \in Callers : ~Active(d)'
      /\ UNCHANGED <<serving, pipe, reply, received, weights, processed, cache>>
      /\ call["trainer"].op \in Answering => \A w \in Workers : ~received[w]
  BY Forgotten, ServerSets
<1>1. /\ NumBuckets \in Nat \ {0} /\ 0 \in 0 .. NumBuckets
      /\ \A b \in 1 .. NumBuckets : b \in 0 .. NumBuckets
      /\ \A op \in SyncOps, b \in 0 .. NumBuckets : CallStep(op, b).op = op /\ CallStep(op, b).bucket = b
  BY SyncSteps, StepsAre
<1>2. /\ todo[Main] # << >> /\ Head(todo[Main]) = SyncCalls[i]
      /\ i # NumBuckets + 2 => /\ todo'[Main] # << >> /\ Head(todo'[Main]) = SyncCalls[i + 1]
      /\ i = NumBuckets + 2 => todo'[Main] = Y
  <2>0. /\ \A j \in 1 .. NumBuckets + 2 :
              SyncsLeft(j) \o Y # << >> /\ Head(SyncsLeft(j) \o Y) = SyncCalls[j]
        /\ SyncsLeft(NumBuckets + 3) \o Y = Y
    BY SyncPrograms
  <2>1. i # NumBuckets + 2 => i + 1 \in 1 .. NumBuckets + 2
    BY <1>1
  <2>2. i = NumBuckets + 2 => i + 1 = NumBuckets + 3
    BY <1>1
  <2>3. todo[Main] # << >> /\ Head(todo[Main]) = SyncCalls[i]
    BY <2>0
  <2>4. i # NumBuckets + 2 => todo'[Main] # << >> /\ Head(todo'[Main]) = SyncCalls[i + 1]
    BY <2>0, <2>1
  <2>5. i = NumBuckets + 2 => todo'[Main] = Y
    BY <2>0, <2>2
  <2> QED
    BY <2>3, <2>4, <2>5
<1>3. NextOp = SyncCalls[i].op /\ NextOp \in SyncOps
  <2>1. OpOf(SyncsLeft(i) \o Y) \in SyncOps
    BY OpsOfPrograms, OpsAre
  <2> QED
    BY <1>2, <2>1, NextOpIs DEF NextOp
<1>4. call["trainer"].at = "answered" /\ call["trainer"].op = NextOp /\ Active("trainer")
  <2>1. Active("trainer") /\ "trainer" \in Callers
    BY ServerSets DEF Returned, Active
  <2>2. CallServed("trainer") /\ TrainerCalls
    BY <2>1 DEF Sound, Serving, Calling
  <2>3. call["trainer"].op # "infer"
    BY <1>3, <2>1, <2>2, OpsAre DEF TrainerCalls
  <2> QED
    BY <2>1, <2>2, <2>3 DEF Returned, CallServed, TrainerCalls
<1>5. /\ call'["trainer"].at = "idle" /\ \A w \in Workers : ~Completed(w)'
      /\ lastLoaded[Main] = step /\ \A w \in Workers : WorkerWeights(w)
  <2>1. call'["trainer"].at = "idle"
    BY <1>0, ServerSets DEF Active
  <2>2. Weights
    BY DEF Sound
  <2> QED
    BY <1>3, <2>1, <2>2 DEF Completed, Weights, Synchronising
<1>6. \A w \in Workers, b \in Buckets : Written(w, b) => Written(w, b)'
  BY <1>0 DEF Written
<1>7. ASSUME NEW w \in Workers, i \in 1 .. NumBuckets - 1 PROVE WorkerWeights(w)'
  <2>1. SyncCalls[i].op = "update_flattened_params" /\ SyncCalls[i].bucket = i
    <3>1. i \in 1 .. NumBuckets
      BY <1>1, <1>7
    <3>2. SyncCalls[i] = CallStep("update_flattened_params", i)
      BY <3>1, SyncSteps
    <3> QED
      BY <1>1, <3>1, <3>2, OpsAre
  <2>2. NextOp' = "update_flattened_params" /\ Head(todo'[Main]).bucket = i + 1
    <3>1. i + 1 \in 1 .. NumBuckets /\ i # NumBuckets + 2
      BY <1>1, <1>7
    <3>2. SyncCalls[i + 1].op = "update_flattened_params" /\ SyncCalls[i + 1].bucket = i + 1
      BY <1>1, <3>1, SyncSteps, OpsAre
    <3> QED
      BY <1>2, <3>1, <3>2 DEF NextOp
  <2>3. ASSUME NEW b \in Buckets, b < i + 1 PROVE Written(w, b)'
    <3>1. b < i \/ b = i
      BY <2>3 DEF Buckets
    <3>2. Written(w, b)
      BY <1>2, <1>3, <1>4, <1>5, <2>1, <3>1 DEF WorkerWeights
    <3> QED
      BY <1>6, <3>2
  <2>4. Synchronising'
    BY <2>2, OpsAre DEF Synchronising
  <2>5. received[w] => Head(pipe[w]).version = step /\ Head(pipe[w]).bucket \in Buckets
    BY <1>5 DEF WorkerWeights
  <2> QED
    BY <1>0, <1>5, <2>2, <2>3, <2>4, <2>5 DEF WorkerWeights
<1>8. ASSUME NEW w \in Workers, i = NumBuckets PROVE WorkerWeights(w)'
  <2>1. SyncCalls[i].op = "update_flattened_params" /\ SyncCalls[i].bucket = i
    BY <1>1, <1>8, SyncSteps, OpsAre
  <2>2. NextOp' = "process_weights_after_loading"
    <3>1. i # NumBuckets + 2
      BY <1>1, <1>8
    <3>2. SyncCalls[i + 1].op = "process_weights_after_loading"
      BY <1>1, <1>8, SyncSteps, OpsAre
    <3> QED
      BY <1>2, <3>1, <3>2 DEF NextOp
  <2>3. ASSUME NEW b \in Buckets PROVE Written(w, b)'
    <3>1. b < i \/ b = i
      BY <1>1, <1>8 DEF Buckets
    <3>2. Written(w, b)
      BY <1>2, <1>3, <1>4, <1>5, <2>1, <3>1 DEF WorkerWeights
    <3> QED
      BY <1>6, <3>2
  <2>4. Synchronising'
    BY <2>2, OpsAre DEF Synchronising
  <2>5. received[w] => Head(pipe[w]).version = step /\ Head(pipe[w]).bucket \in Buckets
    BY <1>5 DEF WorkerWeights
  <2> QED
    BY <1>0, <1>5, <2>2, <2>3, <2>4, <2>5 DEF WorkerWeights
<1>9. ASSUME NEW w \in Workers, i = NumBuckets + 1 PROVE WorkerWeights(w)'
  <2>1. NextOp = "process_weights_after_loading"
    BY <1>1, <1>3, <1>9, SyncSteps, OpsAre
  <2>2. NextOp' = "reset_prefix_cache"
    <3>1. i # NumBuckets + 2 /\ i + 1 = NumBuckets + 2
      BY <1>1, <1>9
    <3>2. SyncCalls[i + 1].op = "reset_prefix_cache"
      BY <1>1, <3>1, SyncSteps, OpsAre
    <3> QED
      BY <1>2, <3>1, <3>2 DEF NextOp
  <2>3. ~received[w] /\ processed[w] /\ \A b \in Buckets : Written(w, b)
    BY <1>0, <1>4, <1>5, <2>1, ServerSets DEF WorkerWeights, Completed
  <2>4. \A b \in Buckets : weights[w][b] = step
    BY <2>3 DEF Written
  <2>5. Synchronising'
    BY <2>2, OpsAre DEF Synchronising
  <2> QED
    BY <1>0, <1>5, <2>2, <2>3, <2>4, <2>5 DEF WorkerWeights
<1>10. ASSUME NEW w \in Workers, i = NumBuckets + 2 PROVE WorkerWeights(w)'
  <2>1. NextOp = "reset_prefix_cache"
    BY <1>1, <1>3, <1>10, SyncSteps, OpsAre
  <2>2. NextOp' \notin SyncOps
    BY <1>2, <1>10 DEF NextOp, OpOf
  <2>3. ~received[w] /\ processed[w] /\ cache[w] = {} /\ \A b \in Buckets : weights[w][b] = step
    BY <1>4, <1>5, <2>1 DEF WorkerWeights, Completed
  <2>4. Uniform(w, lastLoaded[Main])'
    BY <1>0, <1>5, <2>3 DEF Uniform
  <2> QED
    BY <1>0, <2>2, <2>3, <2>4, OpsAre DEF WorkerWeights, Synchronising
<1>11. Weights'
  <2>1. i \in 1 .. NumBuckets - 1 \/ i = NumBuckets \/ i = NumBuckets + 1 \/ i = NumBuckets + 2
    BY <1>1
  <2>2. \A w \in Workers : WorkerWeights(w)'
    BY <1>7, <1>8, <1>9, <1>10, <2>1
  <2> QED
    BY <1>5, <2>2 DEF Weights
<1>12. Calling'
  BY <1>0, ServerSets DEF Calling, RolloutCalls, TrainerCalls, Infers
<1> QED
  BY <1>0, <1>11, <1>12 DEF Sound

(* The return of a call of a synchronisation keeps IInv.                   *)
LEMMA SyncReturnStep ==
  ASSUME IInv, SyncReturn
  PROVE  IInv'
<1>0. /\ Types /\ Sound /\ Rounds /\ \A s \in Ranks : Inside(s)
      /\ Main \in Ranks /\ NumBuckets \in Nat \ {0}
  BY AsyncAssumption, SyncSteps DEF IInv
<1>1. PICK op \in SyncOps : /\ OpOf(todo[Main]) = op /\ todo[Main] # << >>
                            /\ raised[Main] = "no" /\ inside[Main] = Outside
  BY <1>0, Runs DEF SyncReturn
<1>2. PICK phase \in Phases, q \in Modes, k \in 0 .. EvalBatches - 1, X \in Seq(Steps) :
        /\ X = Kont(q, k, step) /\ Round(phase, q, k)
        /\ Place(Main, phase, q, X) /\ Local(Main, phase, q, X)
  BY <1>0, Situated
<1>3. PICK P \in Seq(Steps) :
        /\ MainSyncs(Main, P) /\ NoTask(Main) /\ OpOf(P) \in {"infer", "take"}
        /\ \/ phase = "fill" /\ P = ToInfer(q, X) /\ None(Main, q) /\ took[Main] = Nothing
           \/ phase = "take" /\ P = ToTake(q, X) /\ Holding(Main, q)
  <2>1. /\ ToInfer(q, X) \in Seq(Steps) /\ OpOf(ToInfer(q, X)) = "infer"
        /\ ToTake(q, X) \in Seq(Steps) /\ OpOf(ToTake(q, X)) = "take"
    BY Programs, OpsOfPrograms
  <2>2. /\ NoTask(Main)
        /\ \/ phase = "fill" /\ MainSyncs(Main, ToInfer(q, X)) /\ None(Main, q) /\ took[Main] = Nothing
           \/ phase = "take" /\ MainSyncs(Main, ToTake(q, X)) /\ Holding(Main, q)
    BY <1>1, <1>2 DEF Place
  <2> QED
    BY <2>1, <2>2
<1>4. PICK i \in 1 .. NumBuckets + 2 : todo[Main] = SyncsLeft(i) \o P
  BY <1>3 DEF MainSyncs
<1>5. PICK Y \in Seq(Steps) :
        /\ Y = SyncsLeft(i + 1) \o P
        /\ i + 1 \in 1 .. NumBuckets + 2 \/ Y = P
        /\ OpOf(Y) \in SyncOps \cup {"infer", "take"} /\ Y # << >>
  <2>1. CASE i = NumBuckets + 2
    <3>1. i + 1 = NumBuckets + 3
      BY <1>0, <2>1
    <3>2. SyncsLeft(i + 1) \o P = P
      BY <3>1, SyncPrograms
    <3>3. P # << >>
      BY <1>3 DEF OpOf
    <3> QED
      BY <1>3, <3>2, <3>3
  <2>2. CASE i # NumBuckets + 2
    <3>1. i + 1 \in 1 .. NumBuckets + 2
      BY <1>0, <2>2
    <3>2. SyncsLeft(i + 1) \o P \in Seq(Steps) /\ SyncsLeft(i + 1) \o P # << >>
      BY <3>1, SyncPrograms
    <3>3. OpOf(SyncsLeft(i + 1) \o P) \in SyncOps
      BY <3>1, OpsOfPrograms, OpsAre
    <3> QED
      BY <3>1, <3>2, <3>3
  <2> QED
    BY <2>1, <2>2
<1>6. /\ todo' = [todo EXCEPT ![Main] = Y] /\ Returned("trainer") /\ Forget("trainer")
      /\ UNCHANGED <<step, inside, queue, tasks, sent, took, lastLoaded, resampled, raised>>
  <2>1. Tail(todo[Main]) = Y
    <3>1. Tail(SyncsLeft(i) \o P) = SyncsLeft(i + 1) \o P
      BY SyncPrograms
    <3> QED
      BY <1>4, <1>5, <3>1
  <2> QED
    BY <2>1 DEF SyncReturn, Done
<1>7. todo'[Main] = Y /\ todo' \in [Ranks -> Seq(Steps)]
  BY <1>0, <1>6 DEF Types
<1>8. Only(Main)
  BY <1>0, <1>6 DEF Only, Types
<1>9. Types'
  BY <1>0, <1>6, <1>7 DEF Types
<1>10. Sound'
  <2>1. OpOf(P) \notin SyncOps
    BY <1>3, OpsAre
  <2> QED
    BY <1>0, <1>4, <1>5, <1>6, <1>7, <2>1, SyncReturned
<1>11. Rounds'
  <2>1. Stored(Main, Other(q))'
    BY <1>2, <1>6, OpsAre DEF Local, Stored, One, Good, None, Recent
  <2>2. /\ NoTask(Main)' /\ Synced(Main)' /\ None(Main, q) = None(Main, q)' /\ took'[Main] = took[Main]
        /\ Holding(Main, q) => Holding(Main, q)'
    BY <1>3, <1>6 DEF NoTask, Synced, MainSyncs, Holding, One, Good, None, Recent
  <2>3. todo'[Main] = P \/ MainSyncs(Main, P)'
    BY <1>3, <1>5, <1>6, <1>7 DEF MainSyncs
  <2>4. phase = "fill" => Filling(Main, q, X)'
    BY <1>3, <2>2, <2>3 DEF Filling
  <2>5. phase = "take" => Taking(Main, q, X)'
    BY <1>3, <2>2, <2>3 DEF Taking
  <2>6. Local(Main, phase, q, X)'
    BY <1>3, <2>1, <2>4, <2>5 DEF Local
  <2>7. Head(todo[Main]).op \notin {"wait", "results"} /\ Head(todo'[Main]).op \notin {"wait", "results"}
    BY <1>1, <1>5, <1>7, OpsAre DEF OpOf
  <2>8. /\ \A x \in Modes : Counted(Main, x, phase, q)' = Counted(Main, x, phase, q)
        /\ \A x \in Known(phase, q) : None(Main, x)' <=> None(Main, x)
    BY <1>6, <2>7 DEF Counted, None
  <2>9. step \in 0 .. LastStep
    BY <1>0 DEF Types
  <2> QED
    BY <1>0, <1>2, <1>6, <1>8, <2>6, <2>8, <2>9, Moves
<1>12. ASSUME NEW s \in Ranks PROVE Inside(s)'
  <2>1. CASE s = Main
    BY <1>0, <1>1, <1>6, <2>1 DEF Inside, Outside
  <2>2. CASE s # Main
    BY <1>0, <1>8, <2>2, InsideFrame DEF Only
  <2> QED
    BY <2>1, <2>2
<1> QED
  BY <1>9, <1>10, <1>11, <1>12 DEF IInv

(* A rollout that has not failed is answered by the weights loaded last.   *)
LEMMA AnsweredBy ==
  ASSUME Sound, NEW c \in Callers, Returned(c), call[c].op = "infer", call[c].at # "failed"
  PROVE  Versions(c) = {lastLoaded[Main]}
<1>1. call[c].at = "answered" /\ Active(c)
  BY DEF Returned, Active
<1>2. Infers(c) /\ call[c] \in Calls /\ \A w \in Workers : WorkerServed(w)
  BY DEF Sound, Calling, Serving, ServerTypes
<1>3. call[c].asked \subseteq Workers /\ call[c].asked # {}
  BY <1>1, <1>2 DEF Infers, Calls
<1>4. \A w \in Workers : w \in DOMAIN call[c].got
  BY <1>1, <1>2, ServerSets DEF WorkerServed
<1>5. \A w \in Workers : call[c].got[w].value \in {Failed, {lastLoaded[Main]}}
  BY <1>1, <1>2, <1>4 DEF Infers, WorkerInfers, Genuine
<1>6. \A w \in call[c].asked : call[c].got[w].value # Failed
  BY <1>1, <1>2 DEF Infers, Fails
<1>7. \A w \in call[c].asked : call[c].got[w].value = {lastLoaded[Main]}
  BY <1>3, <1>5, <1>6
<1>8. {call[c].got[w].value : w \in call[c].asked} = {{lastLoaded[Main]}}
  BY <1>3, <1>7
<1>9. UNION {{lastLoaded[Main]}} = {lastLoaded[Main]}
  OBVIOUS
<1> QED
  BY <1>8, <1>9 DEF Versions

(* The return of a prefetch, which fills the queue, keeps IInv.            *)
LEMMA PrefetchReturnStep ==
  ASSUME IInv, PrefetchReturn
  PROVE  IInv'
<1>0. /\ Types /\ Sound /\ Rounds /\ \A s \in Ranks : Inside(s)
      /\ Main \in Ranks /\ step \in 0 .. LastStep
  BY AsyncAssumption DEF IInv, Types
<1>1. /\ OpOf(todo[Main]) = "infer" /\ todo[Main] # << >>
      /\ raised[Main] = "no" /\ inside[Main] = Outside
      /\ Returned("trainer") /\ Forget("trainer")
  BY <1>0, Runs DEF PrefetchReturn
<1>2. PICK phase \in Phases, q \in Modes, k \in 0 .. EvalBatches - 1, X \in Seq(Steps) :
        /\ X = Kont(q, k, step) /\ Round(phase, q, k) /\ Bounds(phase, q)
        /\ Place(Main, phase, q, X) /\ Local(Main, phase, q, X)
  BY <1>0, Situated
<1>3. /\ phase = "fill" /\ todo[Main] = ToInfer(q, X) /\ NoTask(Main) /\ None(Main, q) /\ Synced(Main)
      /\ took[Main] = Nothing /\ Stored(Main, Other(q))
  BY <1>1, <1>2 DEF Place, Local
<1>4. /\ ServerTypes' /\ Serving' /\ \A d \in Callers : ~Active(d)'
      /\ UNCHANGED <<serving, pipe, reply, received, weights, processed, cache>>
  BY <1>0, <1>1, Forgotten, ServerSets
<1>5. "infer" \notin SyncOps /\ "wait" \notin SyncOps /\ ~Synchronising
  BY <1>1, NextOpIs, OpsAre DEF Synchronising
<1>6. OpOf(todo'[Main]) \notin SyncOps /\ lastLoaded' = lastLoaded => Sound'
  <2> SUFFICES ASSUME OpOf(todo'[Main]) \notin SyncOps, lastLoaded' = lastLoaded PROVE Sound'
    OBVIOUS
  <2>1. ~Synchronising'
    BY DEF Synchronising, NextOp, OpOf
  <2>2. ~Active("trainer")' /\ RolloutCalls'
    BY <1>4, ServerSets DEF RolloutCalls
  <2> QED
    BY <1>0, <1>4, <1>5, <2>1, <2>2, Rests
<1>7. CASE call["trainer"].at = "answered"
  <2>1. call["trainer"].op = "infer" /\ "trainer" \in Callers
    BY <1>0, <1>1, <1>7, NextOpIs, ServerSets DEF Sound, Calling, TrainerCalls, Active
  <2>2. Versions("trainer") = {step}
    BY <1>0, <1>1, <1>3, <1>7, <2>1, AnsweredBy DEF Synced
  <2>3. PICK v \in SUBSET (-1 .. LastStep) : v = {step}
    <3>1. step \in 0 .. LastStep
      BY <1>0
    <3>2. {step} \in SUBSET (-1 .. LastStep)
      BY <3>1
    <3> QED
      BY <3>2
  <2>4. PutPrefetched(Main, v) /\ raised' = raised
    BY <1>7, <2>2, <2>3 DEF PrefetchReturn
  <2>5. /\ Local(Main, phase, q, X)' /\ Only(Main) /\ Types'
        /\ \A x \in Modes : Counted(Main, x, phase, q)' = Counted(Main, x, phase, q)
        /\ \A x \in Known(phase, q) : None(Main, x)' <=> None(Main, x)
        /\ OpOf(todo'[Main]) = "wait"
        /\ UNCHANGED <<step, inside, tasks, took, lastLoaded, resampled>>
    BY <1>0, <1>2, <1>3, <2>3, <2>4, Prefetched
  <2>6. Sound'
    BY <1>5, <1>6, <2>5
  <2>7. Rounds'
    BY <1>0, <1>2, <2>5, Moves
  <2>8. ASSUME NEW s \in Ranks PROVE Inside(s)'
    <3>1. CASE s = Main
      BY <1>0, <1>1, <2>4, <2>5, <3>1 DEF Inside, Outside
    <3>2. CASE s # Main
      BY <1>0, <2>5, <3>2, InsideFrame DEF Only
    <3> QED
      BY <3>1, <3>2
  <2> QED
    BY <2>5, <2>6, <2>7, <2>8 DEF IInv
<1>8. CASE call["trainer"].at # "answered"
  <2>1. /\ raised' = [raised EXCEPT ![Main] = "alone"]
        /\ UNCHANGED <<step, todo, inside, queue, tasks, sent, took, lastLoaded, resampled>>
    BY <1>8 DEF PrefetchReturn, Raise
  <2>2. Types'
    BY <1>0, <2>1 DEF Types
  <2>3. Sound'
    BY <1>1, <1>5, <1>6, <2>1
  <2>4. Rounds'
    BY <1>0, <2>1, RoundsFrame
  <2>5. ASSUME NEW s \in Ranks PROVE Inside(s)'
    BY <1>0, <1>1, <2>1 DEF Inside, Types
  <2> QED
    BY <2>2, <2>3, <2>4, <2>5 DEF IInv
<1> QED
  BY <1>7, <1>8

-----------------------------------------------------------------------------
(* The executor                                                            *)

(* A rollout under way is the one that is due.                             *)
LEMMA Tasked ==
  ASSUME IInv, NEW r \in Ranks, tasks[r] # << >>
  PROVE  \E phase \in Phases, q \in Modes, k \in 0 .. EvalBatches - 1, X \in Seq(Steps),
            m \in {step - 1, step} :
           /\ X = Kont(q, k, step) /\ Round(phase, q, k) /\ Local(r, phase, q, X)
           /\ None(r, q) /\ Len(tasks[r]) = 1 /\ UnderWay(r, q, Head(tasks[r]), m)
           /\ \/ phase = "wait" /\ m = step - 1
              \/ /\ phase = "submit" /\ m = step /\ todo[r] = ToResults(q, X)
                 /\ InHand(r, q, sent[r][q] - 1)
              \/ phase = "evaluated" /\ q = "eval" /\ m = step - 1
              \/ phase = "train" /\ q = "train" /\ m = step
              \/ phase \in {"evaluate", "over"} /\ q = "train" /\ m = step - 1
<1>1. PICK phase \in Phases, q \in Modes, k \in 0 .. EvalBatches - 1, X \in Seq(Steps) :
        /\ X = Kont(q, k, step) /\ Round(phase, q, k) /\ Bounds(phase, q) /\ Local(r, phase, q, X)
  BY Situated
<1>2. ~NoTask(r)
  BY DEF NoTask
<1>3. phase \notin {"look", "fill", "take"}
  BY <1>1, <1>2 DEF Local, Looking, Filling, Taking
<1>4. \A m \in {step - 1, step} :
        Due(r, q, m) => None(r, q) /\ Len(tasks[r]) = 1 /\ UnderWay(r, q, Head(tasks[r]), m)
  BY <1>2 DEF Due
<1>5. phase = "wait" => Due(r, q, step - 1)
  BY <1>1 DEF Local, Waiting
<1>6. phase = "submit" => Due(r, q, step) /\ todo[r] = ToResults(q, X) /\ InHand(r, q, sent[r][q] - 1)
  BY <1>1, <1>2 DEF Local, Submitting
<1>7. phase = "evaluated" => Due(r, q, step - 1) /\ q = "eval"
  BY <1>1 DEF Local, Evaluated, Bounds
<1>8. phase = "train" => Due(r, q, step) /\ q = "train"
  BY <1>1 DEF Local, Training, Bounds
<1>9. phase \in {"evaluate", "over"} => Due(r, q, step - 1) /\ q = "train"
  BY <1>1 DEF Local, Evaluating, Over, Bounds
<1>10. phase \in {"wait", "submit", "evaluated", "train", "evaluate", "over"}
  BY <1>3 DEF Phases, Generating
<1> QED
  BY <1>1, <1>4, <1>5, <1>6, <1>7, <1>8, <1>9, <1>10

(* The executor posting its call keeps IInv.                               *)
LEMMA RolloutCallStep ==
  ASSUME IInv, RolloutCall
  PROVE  IInv'
<1>0. Types /\ Sound /\ Quiet /\ Main \in Ranks /\ step \in 0 .. LastStep
  BY QuietHolds, AsyncAssumption DEF IInv, Types
<1>1. /\ tasks[Main] # << >> /\ UNCHANGED trainVars
      /\ Post("rollout", Request("infer", 0, 0, Asked(BatchOf[Head(tasks[Main]).data])))
  BY DEF RolloutCall
<1>2. ~Synchronising /\ NextOp # "infer" /\ "infer" \in Requests /\ "rollout" \in Callers
  BY <1>0, <1>1, OpsAre, ServerSets DEF Quiet
<1>3. PICK asked \in SUBSET Workers : asked = Asked(BatchOf[Head(tasks[Main]).data]) /\ asked # {}
  <2>1. tasks[Main] \in Seq(Tasks)
    BY <1>0 DEF Types
  <2>2. Head(tasks[Main]) \in Tasks
    BY <1>1, <2>1, TailHolds
  <2>3. Head(tasks[Main]).data \in Modes
    BY <2>2 DEF Tasks
  <2> QED
    BY <2>3, Asks
<1>4. \A d \in Callers : ~Active(d)
  <2>1. ~Active("rollout")
    BY <1>1 DEF Post, Active
  <2>2. ~Active("trainer")
    <3>1. Active("trainer") => call["trainer"].op \in Requests /\ call["trainer"].op = NextOp
      BY <1>0, ServerSets DEF Sound, Calling, TrainerCalls, Serving, CallServed
    <3> QED
      BY <1>2, <3>1, OpsAre DEF Synchronising
  <2> QED
    BY <2>1, <2>2, ServerSets
<1>5. lastLoaded[Main] # -1
  <2>1. PICK q \in Modes, m \in {step - 1, step} : UnderWay(Main, q, Head(tasks[Main]), m)
    BY <1>0, <1>1, Tasked
  <2> QED
    BY <1>0, <2>1 DEF UnderWay
<1>6. 0 \in 0 .. NumBuckets /\ 0 \in 0 .. LastStep
  BY ServerAssumption, AsyncAssumption, LastStepIs
<1>7. "rollout" # "trainer"
  OBVIOUS
<1>8. Sound'
  BY <1>0, <1>1, <1>2, <1>3, <1>4, <1>5, <1>6, <1>7, PostSound
<1> QED
  BY <1>1, <1>8, Unmoved

(* The result of a rollout, or its failure, is put where it is waited for. *)
LEMMA ResultStep ==
  ASSUME IInv, NEW r \in Ranks, tasks[r] # << >>, NEW d \in DataCaches, PutResult(r, d),
         \/ d = Error
         \/ LET t == Head(tasks[r])
            IN  d.no = t.no /\ d.data = t.data /\ d.at = t.at /\ (r = Main => d.versions = {t.at}),
         Sound'
  PROVE  IInv'
<1>0. Types /\ Rounds /\ \A s \in Ranks : Inside(s)
  BY DEF IInv
<1>1. PICK phase \in Phases, q \in Modes, k \in 0 .. EvalBatches - 1, X \in Seq(Steps),
           m \in {step - 1, step} :
        /\ X = Kont(q, k, step) /\ Round(phase, q, k) /\ Local(r, phase, q, X)
        /\ None(r, q) /\ Len(tasks[r]) = 1 /\ UnderWay(r, q, Head(tasks[r]), m)
        /\ \/ phase = "wait" /\ m = step - 1
           \/ /\ phase = "submit" /\ m = step /\ todo[r] = ToResults(q, X)
              /\ InHand(r, q, sent[r][q] - 1)
           \/ phase = "evaluated" /\ q = "eval" /\ m = step - 1
           \/ phase = "train" /\ q = "train" /\ m = step
           \/ phase \in {"evaluate", "over"} /\ q = "train" /\ m = step - 1
  BY Tasked
<1>2. PICK t \in Tasks : t = Head(tasks[r]) /\ Tail(tasks[r]) = << >> /\ << >> \in Seq(Tasks)
  <2>1. tasks[r] \in Seq(Tasks)
    BY <1>0 DEF Types
  <2>2. Head(tasks[r]) \in Tasks /\ Tail(tasks[r]) \in Seq(Tasks) /\ Len(Tail(tasks[r])) = 0
    BY <1>1, <2>1, TailHolds
  <2>3. \A u \in Seq(Tasks) : u = << >> <=> Len(u) = 0
    BY EmptySeq
  <2> QED
    BY <2>2, <2>3
<1>3. PICK Q \in [Modes -> Seq(DataCaches)] : Q = queue[r] /\ Q[q] = << >>
  BY <1>0, <1>1 DEF Types, None
<1>4. /\ queue' = [queue EXCEPT ![r] = [Q EXCEPT ![q] = <<d>>]]
      /\ tasks' = [tasks EXCEPT ![r] = << >>]
      /\ UNCHANGED <<step, todo, inside, sent, took, lastLoaded, resampled, raised>>
  <2>1. t.q = q
    BY <1>1, <1>2 DEF UnderWay
  <2>2. Append(Q[q], d) = <<d>>
    BY <1>3, OneReply
  <2>3. /\ queue' = [queue EXCEPT ![r][q] = Append(queue[r][q], d)]
        /\ tasks' = [tasks EXCEPT ![r] = << >>]
        /\ UNCHANGED <<step, todo, inside, sent, took, lastLoaded, resampled, raised>>
    BY <1>2, <2>1 DEF PutResult, Put, Types
  <2> QED
    BY <1>0, <1>3, <2>2, <2>3 DEF Types
<1>5. /\ tasks'[r] = << >> /\ tasks' \in [Ranks -> Seq(Tasks)]
      /\ queue'[r] = [Q EXCEPT ![q] = <<d>>] /\ queue' \in [Ranks -> [Modes -> Seq(DataCaches)]]
      /\ queue'[r][q] = <<d>> /\ \A x \in Modes : x # q => queue'[r][x] = queue[r][x]
  <2>1. <<d>> \in Seq(DataCaches)
    OBVIOUS
  <2> QED
    BY <1>0, <1>2, <1>3, <1>4, <2>1 DEF Types
<1>6. Only(r)
  BY <1>0, <1>4 DEF Only, Types
<1>7. Types'
  BY <1>0, <1>4, <1>5 DEF Types
<1>8. \A n \in {step - 1, step} : n = m => Due(r, q, n)'
  <2>1. NoTask(r)' /\ Len(queue'[r][q]) = 1 /\ Head(queue'[r][q]) = d
    BY <1>5, OneReply DEF NoTask
  <2>2. d = Error => Failure(r, q)'
    BY <2>1 DEF Failure, Error, Nothing
  <2>3. ASSUME d # Error, NEW n \in {step - 1, step}, n = m PROVE One(r, q, n)'
    <3>1. d.no = t.no /\ d.data = t.data /\ d.at = t.at /\ (r = Main => d.versions = {t.at})
      BY <1>2, <2>3
    <3>2. UnderWay(r, q, t, m)
      BY <1>1, <1>2
    <3>3. Good(r, q, d, n)'
      BY <1>4, <2>3, <3>1, <3>2 DEF UnderWay, Good, Recent
    <3> QED
      BY <2>1, <3>3 DEF One
  <2>4. ASSUME NEW n \in {step - 1, step}, n = m, d # Error \/ d = Error PROVE Due(r, q, n)'
    BY <2>1, <2>2, <2>3, <2>4 DEF Due
  <2> QED
    BY <2>4
<1>9. Rounds'
  <2>1. Stored(r, Other(q))'
    BY <1>1, <1>4, <1>5, OpsAre DEF Local, Stored, One, Good, None, Recent
  <2>2. took'[r] = took[r] /\ todo'[r] = todo[r] /\ step' = step
    BY <1>4
  <2>3. phase = "wait" => Waiting(r, q, X)'
    BY <1>1, <1>8, <2>2 DEF Local, Waiting
  <2>4. phase = "submit" => Submitting(r, q, X)'
    <3>1. phase = "submit" => Due(r, q, step)' /\ InHand(r, q, sent[r][q] - 1)'
      BY <1>1, <1>4, <1>8 DEF InHand, Recent
    <3> QED
      BY <1>1, <1>4, <2>2, <3>1 DEF Submitting
  <2>5. phase = "evaluated" => Evaluated(r)'
    BY <1>1, <1>8, <2>2 DEF Local, Evaluated
  <2>6. phase = "train" => Training(r)'
    BY <1>1, <1>8, <2>2 DEF Local, Training
  <2>7. /\ phase = "evaluate" => Evaluating(r)'
        /\ phase = "over" => Over(r)'
    BY <1>1, <1>8, <2>2 DEF Local, Evaluating, Over
  <2>8. Local(r, phase, q, X)'
    BY <1>1, <2>1, <2>3, <2>4, <2>5, <2>6, <2>7 DEF Local
  <2>9. /\ \A x \in Modes : Counted(r, x, phase, q)' = Counted(r, x, phase, q)
        /\ \A x \in Known(phase, q) : None(r, x)' <=> None(r, x)
    <3>1. phase # "look"
      BY <1>1
    <3> QED
      BY <1>4, <1>5, <3>1, OpsAre DEF Counted, None, Known
  <2>10. step \in 0 .. LastStep
    BY <1>0 DEF Types
  <2> QED
    BY <1>1, <1>4, <1>6, <2>8, <2>9, <2>10, Moves
<1>10. ASSUME NEW s \in Ranks PROVE Inside(s)'
  <2>1. CASE s = r
    <3>1. Inside(r)
      BY <1>0
    <3>2. Head(todo[r]).q # q \/ inside[r] # "ready"
      BY <1>3, <3>1 DEF Inside
    <3>3. inside[r] = "ready" => Head(todo[r]).q \in Modes
      <4>1. todo[r] \in Seq(Steps) /\ (inside[r] = "ready" => todo[r] # << >>)
        BY <1>0, <3>1 DEF Types, Inside, Outside
      <4> QED
        BY <4>1, TailHolds, StepsAre
    <3>4. inside[r] = "ready" => queue'[r][Head(todo[r]).q] = queue[r][Head(todo[r]).q]
      BY <1>5, <3>2, <3>3
    <3> QED
      BY <1>4, <2>1, <3>1, <3>4 DEF Inside
  <2>2. CASE s # r
    BY <1>0, <1>6, <2>2, InsideFrame DEF Only
  <2> QED
    BY <2>1, <2>2
<1> QED
  BY <1>7, <1>9, <1>10 DEF IInv

(* The executor putting the answer into the queue keeps IInv.              *)
LEMMA RolloutReturnStep ==
  ASSUME IInv, RolloutReturn
  PROVE  IInv'
<1>0. /\ Types /\ Sound /\ Quiet /\ Main \in Ranks /\ step \in 0 .. LastStep
      /\ "rollout" \in Callers /\ "trainer" \in Callers
  BY QuietHolds, AsyncAssumption, ServerSets DEF IInv, Types
<1>1. /\ tasks[Main] # << >> /\ Returned("rollout") /\ Forget("rollout")
      /\ LET t == Head(tasks[Main])
         IN  PutResult(Main, IF call["rollout"].at = "failed" THEN Error
                             ELSE DataCache(t.no, t.data, t.at, Versions("rollout")))
  BY DEF RolloutReturn
<1>2. PICK q \in Modes, m \in {step - 1, step} :
        Len(tasks[Main]) = 1 /\ UnderWay(Main, q, Head(tasks[Main]), m)
  BY <1>0, <1>1, Tasked
<1>3. PICK t \in Tasks : t = Head(tasks[Main])
  BY <1>0, <1>1, TailHolds DEF Types
<1>4. call["rollout"].op = "infer"
  BY <1>0, <1>1 DEF Sound, Calling, RolloutCalls, Returned, Active
<1>5. call["rollout"].at # "failed" => Versions("rollout") = {t.at}
  <2>1. t.at = lastLoaded[Main]
    BY <1>2, <1>3 DEF UnderWay
  <2> QED
    BY <1>0, <1>1, <1>4, <2>1, AnsweredBy
<1>6. PICK d \in DataCaches :
        /\ d = IF call["rollout"].at = "failed" THEN Error
               ELSE DataCache(t.no, t.data, t.at, Versions("rollout"))
        /\ d = Error \/ (d.no = t.no /\ d.data = t.data /\ d.at = t.at /\ d.versions = {t.at})
  <2>1. t.no \in Nat /\ t.data \in Modes /\ t.at \in 0 .. LastStep
    BY DEF Tasks
  <2>2. {t.at} \in SUBSET (-1 .. LastStep)
    BY <2>1
  <2>3. PICK v \in SUBSET (-1 .. LastStep) : v = {t.at}
    BY <2>2
  <2>4. PICK d \in DataCaches : /\ d = DataCache(t.no, t.data, t.at, v)
                                /\ d.no = t.no /\ d.data = t.data /\ d.at = t.at /\ d.versions = v
    <3>1. PICK no \in Nat, x \in Modes, at \in 0 .. LastStep :
            no = t.no /\ x = t.data /\ at = t.at
      BY <2>1
    <3>2. PICK d \in DataCaches : d = [no |-> no, data |-> x, at |-> at, versions |-> v]
      BY DEF DataCaches
    <3> QED
      BY <3>1, <3>2 DEF DataCache
  <2>5. Error \in DataCaches
    BY DataAre
  <2> QED
    BY <1>5, <2>3, <2>4, <2>5
<1>7. PutResult(Main, d)
  BY <1>1, <1>3, <1>6
<1>8. Sound'
  <2>1. /\ ServerTypes' /\ Serving' /\ \A c \in Callers : ~Active(c)'
        /\ UNCHANGED <<serving, pipe, reply, received, weights, processed, cache>>
    BY <1>0, <1>1, Forgotten
  <2>2. ~Synchronising /\ ~Synchronising' /\ lastLoaded' = lastLoaded
    BY <1>0, <1>1, <1>7 DEF Quiet, PutResult, Synchronising, NextOp
  <2>3. ~Active("trainer")' /\ RolloutCalls'
    BY <1>0, <2>1 DEF RolloutCalls
  <2> QED
    BY <1>0, <2>1, <2>2, <2>3, Rests
<1> QED
  BY <1>0, <1>1, <1>3, <1>6, <1>7, <1>8, ResultStep

(* The executor of a rank without the server putting its dummy keeps IInv. *)
LEMMA RolloutNothingStep ==
  ASSUME IInv, NEW r \in Ranks, RolloutNothing(r)
  PROVE  IInv'
<1>0. Types /\ Sound /\ Main \in Ranks
  BY AsyncAssumption DEF IInv
<1>1. /\ r # Main /\ tasks[r] # << >> /\ UNCHANGED serverVars
      /\ LET t == Head(tasks[r]) IN PutResult(r, DataCache(t.no, t.data, t.at, {}))
  BY DEF RolloutNothing
<1>2. PICK t \in Tasks : t = Head(tasks[r])
  BY <1>0, <1>1, TailHolds DEF Types
<1>3. PICK v \in SUBSET (-1 .. LastStep) : v = {}
  OBVIOUS
<1>4. t.no \in Nat /\ t.data \in Modes /\ t.at \in 0 .. LastStep
  BY DEF Tasks
<1>5. PICK d \in DataCaches : /\ d = DataCache(t.no, t.data, t.at, v)
                              /\ d.no = t.no /\ d.data = t.data /\ d.at = t.at
  BY <1>4, DataAre
<1>6. PutResult(r, d)
  BY <1>1, <1>2, <1>3, <1>5
<1>7. /\ tasks'[Main] = tasks[Main]
      /\ UNCHANGED <<step, todo, inside, sent, took, lastLoaded, resampled, raised>>
  BY <1>0, <1>1, <1>6 DEF PutResult, Types
<1>8. Sound'
  BY <1>0, <1>1, <1>7, Elsewhere
<1> QED
  BY <1>1, <1>2, <1>5, <1>6, <1>8, ResultStep

-----------------------------------------------------------------------------
(* The collectives                                                         *)

(* When all ranks are in a collective, all execute the step that is one.   *)
LEMMA Gathered ==
  ASSUME IInv, NEW op, AllInside(op)
  PROVE  \A r \in Ranks : /\ OpOf(todo[r]) = op /\ todo[r] # << >> /\ Head(todo[r]).op = op
                          /\ raised[r] = "no" /\ inside[r] # Outside /\ Inside(r)
BY DEF IInv, AllInside, Inside, OpOf

(* A collective that keeps the round keeps IInv: all ranks leave it        *)
(* together.                                                               *)
LEMMA CollectiveStep ==
  ASSUME IInv, NEW op \in {"wait", "inputs", "take", "results", "train"}, AllInside(op),
         UNCHANGED <<serverVars, tasks, lastLoaded>>, inside' = [r \in Ranks |-> Outside],
         Types', OpOf(todo'[Main]) \notin SyncOps, Rounds'
  PROVE  IInv'
<1>1. Sound'
  <2>1. OpOf(todo[Main]) = op /\ op \notin Requests
    BY Gathered, AsyncAssumption, OpsAre
  <2> QED
    BY <2>1, BetweenCalls DEF IInv
<1>2. \A r \in Ranks : Inside(r)'
  BY DEF Inside, Outside
<1> QED
  BY <1>1, <1>2 DEF IInv

(* In a collective all ranks have started as many rollouts.                *)
LEMMA Level ==
  ASSUME Types, NEW phase \in Phases, NEW q \in Modes, Alike(phase, q),
         NEW op, \A r \in Ranks : Head(todo[r]).op = op
  PROVE  /\ \A r, s \in Ranks, x \in Modes : sent[r][x] = sent[s][x]
         /\ \A r, s \in Ranks : \A x \in Known(phase, q) : None(r, x) <=> None(s, x)
<1>1. ASSUME NEW r \in Ranks, NEW s \in Ranks, NEW x \in Modes PROVE sent[r][x] = sent[s][x]
  <2>1. Counted(r, x, phase, q) = Counted(s, x, phase, q)
    BY DEF Alike
  <2>2. PICK m \in Nat, n \in Nat : m = sent[r][x] /\ n = sent[s][x]
    BY DEF Types
  <2>3. m = n \/ m - 1 = n - 1
    BY <2>1, <2>2 DEF Counted
  <2> QED
    BY <2>2, <2>3
<1> QED
  BY <1>1 DEF Alike

(* Ranks that change neither counts nor queues stay alike.                 *)
LEMMA StayAlike ==
  ASSUME \A r, s \in Ranks, x \in Modes : sent[r][x] = sent[s][x], UNCHANGED <<sent, queue>>,
         NEW phase \in Phases, NEW q \in Modes,
         \A r, s \in Ranks : \A x \in Known(phase, q) : None(r, x) <=> None(s, x),
         phase = "submit" => \A r \in Ranks : OpOf(todo'[r]) = "submit",
         phase = "fill" => \A r \in Ranks : OpOf(todo'[r]) = "sync"
  PROVE  Alike(phase, q)'
<1>1. \A r \in Ranks, x \in Modes : Counted(r, x, phase, q)' = sent[r][x]
  BY DEF Counted, OpOf
<1>2. \A r \in Ranks : \A x \in Known(phase, q) : None(r, x)' <=> None(r, x)
  BY DEF None
<1>3. Known(phase, q)' = Known(phase, q)
  BY DEF Known
<1> QED
  BY <1>1, <1>2, <1>3 DEF Alike

(* What is due stays due until it is taken.                                *)
LEMMA DueFrame ==
  ASSUME NEW r \in Ranks, NEW x \in Modes, NEW m \in Int, NEW n \in Int,
         step \in Nat, step' \in {step, step + 1}, UNCHANGED <<queue, tasks, sent, lastLoaded>>,
         x = "train" => \A at \in 0 .. step : Recent(at, m) => Recent(at, n)
  PROVE  /\ One(r, x, m) => One(r, x, n)'
         /\ Due(r, x, m) => Due(r, x, n)'
<1>1. \A d : Good(r, x, d, m) => Good(r, x, d, n)'
  BY DEF Good, Recent
<1>2. \A t : UnderWay(r, x, t, m) => UnderWay(r, x, t, n)'
  BY DEF UnderWay, Recent
<1>3. One(r, x, m) => One(r, x, n)'
  BY <1>1 DEF One
<1> QED
  BY <1>2, <1>3 DEF Due, None, Failure, NoTask

(* What a queue holds is still due when the step ends under an evaluation. *)
LEMMA StoredFrame ==
  ASSUME NEW r \in Ranks, NEW x \in Modes, Stored(r, x), step \in Nat,
         UNCHANGED <<queue, tasks, sent, lastLoaded>>,
         step' = step \/ (step' = step + 1 /\ x = "eval")
  PROVE  Stored(r, x)'
<1>1. CASE step' = step
  BY <1>1 DEF Stored, One, Good, None, Recent
<1>2. CASE step' = step + 1 /\ x = "eval"
  BY <1>2 DEF Stored, One, Good, None
<1> QED
  BY <1>1, <1>2

(* A result that all ranks have seen ready is there on each of them.       *)
LEMMA ReadyHas ==
  ASSUME NEW r \in Ranks, NEW x \in Modes, NEW m \in Int, Due(r, x, m), inside[r] = "ready",
         Inside(r), Head(todo[r]).q = x
  PROVE  NoTask(r) /\ One(r, x, m)
<1>1. queue[r][x] # << >> /\ Head(queue[r][x]) # Error
  BY DEF Inside
<1> QED
  BY <1>1 DEF Due, None, Failure

(* Gathering the inputs keeps IInv.                                        *)
LEMMA GatherInputsStep ==
  ASSUME IInv, GatherInputs
  PROVE  IInv'
<1>0. Types /\ Rounds /\ Main \in Ranks /\ step \in 0 .. LastStep
  BY AsyncAssumption DEF IInv, Types
<1>1. PICK op \in {"inputs", "take"} : AllInside(op)
  BY DEF GatherInputs
<1>2. \A r \in Ranks : /\ OpOf(todo[r]) = op /\ todo[r] # << >> /\ Head(todo[r]).op = op
                       /\ raised[r] = "no" /\ inside[r] # Outside /\ Inside(r)
  BY <1>1, Gathered
<1>3. PICK phase \in Phases, q \in Modes, k \in 0 .. EvalBatches - 1, X \in Seq(Steps) :
        /\ X = Kont(q, k, step) /\ Alike(phase, q) /\ Bounds(phase, q)
        /\ \A r \in Ranks : Place(r, phase, q, X) /\ Local(r, phase, q, X)
  BY Situated
<1>4. /\ todo' = [r \in Ranks |-> Tail(todo[r])] /\ inside' = [r \in Ranks |-> Outside]
      /\ UNCHANGED <<serverVars, step, queue, tasks, sent, took, lastLoaded, resampled, raised>>
  BY DEF GatherInputs
<1>5. /\ \A r, s \in Ranks, x \in Modes : sent[r][x] = sent[s][x]
      /\ \A r, s \in Ranks : \A x \in Known(phase, q) : None(r, x) <=> None(s, x)
  BY <1>0, <1>2, <1>3, Level
<1>6. \A r \in Ranks : Stored(r, Other(q))'
  BY <1>0, <1>3, <1>4, StoredFrame, OpsAre DEF Local
<1>7. Types'
  <2>1. \A r \in Ranks : Tail(todo[r]) \in Seq(Steps)
    BY <1>0, <1>2, TailHolds DEF Types
  <2>2. todo' \in [Ranks -> Seq(Steps)] /\ inside' \in [Ranks -> Insides]
    BY <1>4, <2>1 DEF Insides
  <2> QED
    BY <1>0, <1>4, <2>2 DEF Types
<1>8. CASE op = "inputs"
  <2>1. \A r \in Ranks : /\ phase = "look" /\ todo[r] = ToInputs(q, X) /\ None(r, q) /\ NoTask(r)
                         /\ took[r] = Nothing
    BY <1>2, <1>3, <1>8 DEF Place
  <2>2. \A r \in Ranks : todo'[r] = ToFill(q, X) /\ OpOf(todo'[r]) = "sync"
    <3>1. Tail(ToInputs(q, X)) = ToFill(q, X) /\ OpOf(ToFill(q, X)) = "sync"
      BY Programs, OpsOfPrograms
    <3> QED
      BY <1>4, <2>1, <3>1
  <2>3. \A r \in Ranks : Filling(r, q, X)'
    BY <1>4, <2>1, <2>2 DEF Filling, None, NoTask
  <2>4. \A r \in Ranks : Local(r, "fill", q, X)'
    BY <1>6, <2>3 DEF Local
  <2>5. Alike("fill", q)' /\ Bounds("fill", q)' /\ "fill" \in Phases
    <3>1. phase = "look" /\ "fill" \in Phases
      BY <1>0, <2>1 DEF Phases, Generating
    <3>2. Alike("fill", q)'
      BY <1>4, <1>5, <2>2, <3>1, StayAlike, OpsAre DEF Known
    <3>3. Bounds("fill", q)'
      BY <1>3, <1>4, <3>1 DEF Bounds, Generating
    <3> QED
      BY <3>1, <3>2, <3>3
  <2>6. \A r \in Ranks : Local(r, "fill", q, Kont(q, k, step))'
    BY <1>3, <1>4, <2>4
  <2>7. Rounds'
    BY <2>5, <2>6 DEF Rounds, Round
  <2>8. OpOf(todo'[Main]) \notin SyncOps
    BY <1>0, <1>4, <2>2, OpsAre
  <2> QED
    BY <1>1, <1>4, <1>7, <2>7, <2>8, CollectiveStep
<1>9. CASE op = "take"
  <2>1. \A r \in Ranks : /\ phase = "take" /\ todo[r] = ToTake(q, X) /\ Synced(r) /\ NoTask(r)
                         /\ InHand(r, q, sent[r][q]) /\ None(r, q)
    BY <1>2, <1>3, <1>9 DEF Place, Holding
  <2>2. \A r \in Ranks : todo'[r] = ToSubmit(q, X) /\ OpOf(todo'[r]) = "submit"
    <3>1. Tail(ToTake(q, X)) = ToSubmit(q, X) /\ OpOf(ToSubmit(q, X)) = "submit"
      BY Programs, OpsOfPrograms
    <3> QED
      BY <1>4, <2>1, <3>1
  <2>3. \A r \in Ranks : Submitting(r, q, X)'
    BY <1>4, <2>1, <2>2 DEF Submitting, None, NoTask, Synced, InHand, Recent
  <2>4. \A r \in Ranks : Local(r, "submit", q, X)'
    BY <1>6, <2>3 DEF Local
  <2>5. Alike("submit", q)' /\ Bounds("submit", q)' /\ "submit" \in Phases
    <3>1. phase = "take" /\ "submit" \in Phases
      BY <1>0, <2>1 DEF Phases, Generating
    <3>2. Alike("submit", q)'
      BY <1>4, <1>5, <2>2, <3>1, StayAlike DEF Known
    <3>3. Bounds("submit", q)'
      BY <1>3, <1>4, <3>1 DEF Bounds, Generating
    <3> QED
      BY <3>1, <3>2, <3>3
  <2>6. \A r \in Ranks : Local(r, "submit", q, Kont(q, k, step))'
    BY <1>3, <1>4, <2>4
  <2>7. Rounds'
    BY <2>5, <2>6 DEF Rounds, Round
  <2>8. OpOf(todo'[Main]) \notin SyncOps
    BY <1>0, <1>4, <2>2, OpsAre
  <2> QED
    BY <1>1, <1>4, <1>7, <2>7, <2>8, CollectiveStep
<1> QED
  BY <1>8, <1>9

(* A round starts over: all ranks are in the phase again.                  *)
LEMMA Rerounds ==
  ASSUME NEW phase \in Phases, NEW q \in Modes, NEW k \in 0 .. EvalBatches - 1,
         NEW X \in Seq(Steps), X = Kont(q, k, step)', \A r \in Ranks : Local(r, phase, q, X)',
         Alike(phase, q)', Bounds(phase, q)'
  PROVE  Rounds'
<1>1. \A r \in Ranks : Local(r, phase, q, Kont(q, k, step))'
  OBVIOUS
<1>2. Round(phase, q, k)'
  BY <1>1 DEF Round
<1> QED
  BY <1>2 DEF Rounds

(* The programs of a training step begin where the queues are waited for.  *)
LEMMA NextSteps ==
  ASSUME NEW s \in 0 .. LastStep
  PROVE  /\ OpOf(TrainingStep(s, TRUE)) \in {"none", "wait"}
         /\ s # LastStep => OpOf(TrainingStep(s, FALSE)) \in {"wait", "train"}
         /\ OpOf(<<Plain("train")>>) = "train"
<1>1. OpOf(<<Plain("train")>>) = "train"
  BY StepsAre, OpsAre, OneReply DEF OpOf
<1>2. s # LastStep => OpOf(TrainingStep(s, FALSE)) \in {"wait", "train"}
  <2>1. PICK q \in Modes, X \in Seq(Steps) : q = "train" /\ X = <<Plain("train")>>
    BY Continuations, OpsAre
  <2>2. OpOf(ToWait(q, X)) = "wait"
    BY OpsOfPrograms
  <2> QED
    BY <1>1, <2>1, <2>2, TrainingSteps
<1>3. CASE s = LastStep
  BY <1>1, <1>3, TrainingSteps DEF OpOf
<1>4. CASE s # LastStep
  <2>1. PICK w \in Steps : w = Step("wait", "eval", "train") /\ w.op = "wait"
    BY StepsAre, OpsAre
  <2>2. PICK Y \in Seq(Steps) : Y = TrainingStep(s, FALSE)
    BY <1>4, TrainingSteps
  <2>3. TrainingStep(s, TRUE) = <<w>> \o Y
    BY <1>4, <2>1, <2>2, TrainingSteps DEF Wait
  <2>4. OpOf(<<w>> \o Y) = "wait"
    BY <2>1, Consed DEF OpOf
  <2> QED
    BY <1>1, <1>2, <2>3, <2>4
<1> QED
  BY <1>3, <1>4

(* What the next training step of a rank depends on: both results are due. *)
LEMMA StepBegins ==
  ASSUME NEW s \in 0 .. LastStep - 1, step' = s, NEW r \in Ranks, todo'[r] = TrainingStep(s, FALSE),
         took'[r] = Nothing, Due(r, "train", s - 1)',
         s % GenerateEvery # 0 => Due(r, "train", s)', Stored(r, "eval")',
         NEW phase \in Phases, phase = IF s % GenerateEvery = 0 THEN "wait" ELSE "train",
         NEW X \in Seq(Steps), X = <<Plain("train")>>
  PROVE  Local(r, phase, "train", X)' /\ Bounds(phase, "train")'
<1>1. s # LastStep /\ s \in 0 .. LastStep /\ s < LastStep
  <2>1. LastStep \in Nat
    BY AsyncAssumption, LastStepIs
  <2> QED
    BY <2>1
<1>2. Other("train") = "eval"
  BY OpsAre
<1>3. CASE s % GenerateEvery = 0
  <2>1. todo'[r] = ToWait("train", X)
    BY <1>1, <1>3, TrainingSteps
  <2>2. Waiting(r, "train", X)'
    BY <2>1 DEF Waiting
  <2>3. Local(r, phase, "train", X)'
    BY <1>2, <1>3, <2>2 DEF Local
  <2>4. Bounds(phase, "train")'
    BY <1>1, <1>3 DEF Bounds
  <2> QED
    BY <2>3, <2>4
<1>4. CASE s % GenerateEvery # 0
  <2>1. todo'[r] = <<Plain("train")>>
    BY <1>1, <1>4, TrainingSteps
  <2>2. Training(r)'
    BY <1>4, <2>1 DEF Training
  <2>3. Local(r, phase, "train", X)'
    BY <1>2, <1>4, <2>2 DEF Local
  <2>4. Bounds(phase, "train")'
    BY <1>1, <1>4 DEF Bounds, Generating
  <2> QED
    BY <2>3, <2>4
<1> QED
  BY <1>3, <1>4

(* Gathering the statuses of the queues keeps IInv.                        *)
LEMMA GatherStatusesStep ==
  ASSUME IInv, GatherStatuses
  PROVE  IInv'
<1>0. /\ Types /\ Rounds /\ Main \in Ranks /\ step \in 0 .. LastStep
      /\ step \in Nat /\ step - 1 \in Int /\ step \in Int
  BY AsyncAssumption DEF IInv, Types
<1>1. AllInside("wait")
  BY DEF GatherStatuses
<1>2. \A r \in Ranks : /\ OpOf(todo[r]) = "wait" /\ todo[r] # << >> /\ Head(todo[r]).op = "wait"
                       /\ raised[r] = "no" /\ inside[r] # Outside /\ Inside(r)
  BY <1>1, Gathered
<1>3. PICK phase \in Phases, q \in Modes, k \in 0 .. EvalBatches - 1, X \in Seq(Steps) :
        /\ X = Kont(q, k, step) /\ Round(phase, q, k) /\ Alike(phase, q) /\ Bounds(phase, q)
        /\ \A r \in Ranks : Place(r, phase, q, X) /\ Local(r, phase, q, X)
  BY Situated
<1>4. /\ raised' = [r \in Ranks |-> IF ErrorSeen(r) THEN "together" ELSE "no"]
      /\ todo' = [r \in Ranks |-> IF AllReady(r) THEN Tail(todo[r]) ELSE todo[r]]
      /\ inside' = [r \in Ranks |-> Outside]
      /\ UNCHANGED <<serverVars, step, queue, tasks, sent, took, lastLoaded, resampled>>
  BY DEF GatherStatuses
<1>5. Types'
  <2>1. \A r \in Ranks : Tail(todo[r]) \in Seq(Steps) /\ todo[r] \in Seq(Steps)
    BY <1>0, <1>2, TailHolds DEF Types
  <2>2. todo' \in [Ranks -> Seq(Steps)] /\ inside' \in [Ranks -> Insides]
    BY <1>4, <2>1 DEF Insides
  <2>3. raised' \in [Ranks -> {"no", "alone", "together"}]
    BY <1>4
  <2> QED
    BY <1>0, <1>4, <2>2, <2>3 DEF Types
<1>7. ASSUME \E s \in Ranks : inside[s] # "ready" PROVE IInv'
  <2>1. \A r \in Ranks : todo'[r] = todo[r]
    BY <1>4, <1>7 DEF AllReady
  <2>2. phase # "take"
    <3>1. OpOf(todo[Main]) = "wait" /\ Place(Main, phase, q, X)
      BY <1>0, <1>2, <1>3
    <3> QED
      BY <3>1 DEF Place
  <2>3. \A r \in Ranks : Local(r, phase, q, X)'
    <3> TAKE r \in Ranks
    <3>1. Local(r, phase, q, X) /\ todo'[r] = todo[r]
      BY <1>3, <2>1
    <3> QED
      BY <1>4, <2>2, <3>1, LocalFrame
  <2>4. Alike(phase, q)'
    <3>1. \A r \in Ranks :
            /\ \A x \in Modes : Counted(r, x, phase, q)' = Counted(r, x, phase, q)
            /\ \A x \in Known(phase, q) : None(r, x)' <=> None(r, x)
      BY <1>4, <2>1 DEF Counted, None
    <3>2. Known(phase, q)' = Known(phase, q)
      BY DEF Known
    <3> QED
      BY <1>3, <3>1, <3>2 DEF Alike
  <2>5. Bounds(phase, q)' /\ X = Kont(q, k, step)'
    BY <1>3, <1>4 DEF Bounds
  <2>6. Rounds'
    BY <2>3, <2>4, <2>5, Rerounds
  <2>7. OpOf(todo'[Main]) \notin SyncOps
    BY <1>0, <1>2, <2>1, OpsAre
  <2> QED
    BY <1>1, <1>4, <1>5, <2>6, <2>7, CollectiveStep
<1>8. ASSUME \A s \in Ranks : inside[s] = "ready" PROVE IInv'
  <2>0. \A r \in Ranks : todo'[r] = Tail(todo[r])
    BY <1>4, <1>8 DEF AllReady
  <2>1. /\ \A r, s \in Ranks, x \in Modes : sent[r][x] = sent[s][x]
        /\ \A r, s \in Ranks : \A x \in Known(phase, q) : None(r, x) <=> None(s, x)
    BY <1>0, <1>2, <1>3, Level
  <2>2. \A r \in Ranks : Stored(r, Other(q)) /\ Stored(r, Other(q))'
    BY <1>0, <1>3, <1>4, StoredFrame, OpsAre DEF Local
  <2>3. SUFFICES Rounds' /\ OpOf(todo'[Main]) \notin SyncOps
    BY <1>1, <1>4, <1>5, CollectiveStep
  <2>4. \A r \in Ranks :
          \/ phase \in {"look", "fill"} /\ todo[r] = ToWait(q, X) /\ One(r, q, step - 1)
               /\ NoTask(r) /\ took[r] = Nothing
          \/ phase = "wait" /\ todo[r] = ToWait(q, X) /\ Due(r, q, step - 1) /\ took[r] = Nothing
          \/ phase = "evaluated" /\ Evaluated(r) /\ step # LastStep
               /\ todo[r] = <<Step("wait", "eval", "train")>> \o TrainingStep(step, FALSE)
          \/ phase = "evaluate" /\ Evaluating(r)
    BY <1>2, <1>3 DEF Place
  <2>5. phase \in {"look", "fill", "wait", "evaluated", "evaluate"}
    BY <1>0, <2>4
  <2>6. CASE phase \in {"look", "fill", "wait"}
    <3>1. \A r \in Ranks : todo[r] = ToWait(q, X) /\ took[r] = Nothing
      BY <2>4, <2>6
    <3>2. Head(ToWait(q, X)).q = q /\ Tail(ToWait(q, X)) = ToSync(q, X) /\ OpOf(ToSync(q, X)) = "sync"
      <4>1. Head(ToWait(q, X)) = Step("wait", q, "train") /\ Tail(ToWait(q, X)) = ToSync(q, X)
        BY Programs
      <4> QED
        BY <4>1, OpsOfPrograms DEF Step
    <3>3. \A r \in Ranks : NoTask(r) /\ One(r, q, step - 1)
      <4> TAKE r \in Ranks
      <4>1. Due(r, q, step - 1) => NoTask(r) /\ One(r, q, step - 1)
        BY <1>0, <1>2, <1>8, <3>1, <3>2, ReadyHas
      <4> QED
        BY <2>4, <2>6, <4>1
    <3>4. \A r \in Ranks : todo'[r] = ToSync(q, X)
      BY <2>0, <3>1, <3>2
    <3>5. \A r \in Ranks : Taking(r, q, X)'
      <4> TAKE r \in Ranks
      <4>1. One(r, q, step - 1)'
        BY <1>4, <3>3 DEF One, Good, Recent
      <4> QED
        BY <1>4, <3>1, <3>3, <3>4, <4>1 DEF Taking, Holding, NoTask
    <3>6. \A r \in Ranks : Local(r, "take", q, X)'
      BY <2>2, <3>5 DEF Local
    <3>7. "take" \in Phases /\ Bounds("take", q)'
      BY <1>3, <1>4, <2>6 DEF Bounds, Phases, Generating
    <3>8. Alike("take", q)'
      <4>1. Other(q) \in Modes
        BY OpsAre
      <4>2. \A r, s \in Ranks : \A x \in Known("take", q) : None(r, x) <=> None(s, x)
        BY <2>1, <4>1 DEF Known
      <4> QED
        BY <1>4, <2>1, <3>7, <4>2, StayAlike
    <3>9. Rounds'
      BY <1>3, <1>4, <3>6, <3>7, <3>8, Rerounds
    <3>10. OpOf(todo'[Main]) \notin SyncOps
      BY <1>0, <3>2, <3>4, OpsAre
    <3> QED
      BY <3>9, <3>10
  <2>7. CASE phase = "evaluated"
    <3>1. \A r \in Ranks : /\ Evaluated(r) /\ step # LastStep
                           /\ todo[r] = <<Step("wait", "eval", "train")>> \o TrainingStep(step, FALSE)
      BY <2>4, <2>7
    <3>2. q = "eval" /\ Other(q) = "train" /\ "train" \in Modes /\ "eval" \in Modes
      BY <1>3, <2>7, OpsAre DEF Bounds
    <3>3. \A r \in Ranks : Head(todo[r]).q = "eval" /\ todo'[r] = TrainingStep(step, FALSE)
      <4>1. PICK w \in Steps : w = Step("wait", "eval", "train") /\ w.q = "eval"
        BY StepsAre, OpsAre
      <4>2. PICK Y \in Seq(Steps) : Y = TrainingStep(step, FALSE)
        BY <1>0, <3>1, TrainingSteps
      <4>3. Head(<<w>> \o Y) = w /\ Tail(<<w>> \o Y) = Y
        BY Consed
      <4> QED
        BY <2>0, <3>1, <4>1, <4>2, <4>3
    <3>4. \A r \in Ranks : NoTask(r) /\ One(r, "eval", step - 1) /\ One(r, "train", step - 1)
      <4> TAKE r \in Ranks
      <4>1. Due(r, "eval", step - 1)
        BY <3>1 DEF Evaluated
      <4>2. NoTask(r) /\ One(r, "eval", step - 1)
        BY <1>0, <1>2, <1>8, <3>2, <3>3, <4>1, ReadyHas
      <4> QED
        BY <2>2, <3>2, <4>2 DEF Stored
    <3>5. \A at \in 0 .. step : /\ Recent(at, step - 1) => Recent(at, step - 1)
                                /\ step % GenerateEvery # 0 /\ Recent(at, step - 1) => Recent(at, step)
      BY <1>0, Recency
    <3>6. \A r \in Ranks : /\ Due(r, "train", step - 1)'
                           /\ step % GenerateEvery # 0 => Due(r, "train", step)'
                           /\ Stored(r, "eval")'
      <4> TAKE r \in Ranks
      <4>1. One(r, "train", step - 1) /\ One(r, "eval", step - 1) /\ NoTask(r)
        BY <3>4
      <4>2. One(r, "train", step - 1)' /\ One(r, "eval", step - 1)' /\ NoTask(r)'
        BY <1>4, <4>1 DEF One, Good, Recent, NoTask
      <4>3. step % GenerateEvery # 0 => One(r, "train", step)'
        BY <1>4, <3>5, <4>1 DEF One, Good, Recent
      <4> QED
        BY <4>2, <4>3 DEF Due, Stored
    <3>7. PICK P \in Phases : P = IF step % GenerateEvery = 0 THEN "wait" ELSE "train"
      BY DEF Phases, Generating
    <3>8. PICK Y \in Seq(Steps) : Y = <<Plain("train")>> /\ Y = Kont("train", k, step)'
      <4>1. k \in Nat /\ step' = step
        BY <1>4, AsyncAssumption
      <4>2. Kont("train", k, step) = <<Plain("train")>> /\ Kont("train", k, step) \in Seq(Steps)
        BY <1>0, <3>2, <4>1, Continuations
      <4> QED
        BY <4>1, <4>2
    <3>9. \A r \in Ranks : Local(r, P, "train", Y)' /\ Bounds(P, "train")'
      <4> TAKE r \in Ranks
      <4>1. step \in 0 .. LastStep - 1
        <5>1. step # LastStep /\ LastStep \in Nat
          BY <3>1, AsyncAssumption, LastStepIs
        <5> QED
          BY <1>0, <5>1
      <4>2. took'[r] = Nothing /\ step' = step
        BY <1>4, <3>1 DEF Evaluated
      <4> QED
        BY <3>3, <3>6, <3>7, <3>8, <4>1, <4>2, StepBegins
    <3>10. Alike(P, "train")'
      <4>1. Known(P, "train") = {"eval"}
        BY <3>7, OpsAre DEF Known
      <4>2. \A r \in Ranks : ~None(r, "eval")
        BY <3>4 DEF None, One
      <4>3. \A r, s \in Ranks : \A x \in Known(P, "train") : None(r, x) <=> None(s, x)
        BY <4>1, <4>2
      <4>4. P # "submit" /\ P # "fill"
        BY <3>7
      <4> QED
        BY <1>4, <2>1, <3>2, <4>3, <4>4, StayAlike
    <3>11. Rounds'
      BY <1>0, <3>2, <3>8, <3>9, <3>10, Rerounds
    <3>12. OpOf(todo'[Main]) \notin SyncOps
      BY <1>0, <3>1, <3>3, NextSteps, OpsAre
    <3> QED
      BY <3>11, <3>12
  <2>8. CASE phase = "evaluate"
    <3>1. \A r \in Ranks : Evaluating(r)
      BY <2>4, <2>8
    <3>2. q = "train" /\ Other("train") = "eval" /\ Other("eval") = "train" /\ "train" \in Modes /\ "eval" \in Modes
      BY <1>3, <2>8, OpsAre DEF Bounds
    <3>3. PICK kk \in 0 .. EvalBatches - 1, Y \in Seq(Steps) :
            kk = EvalBatches - 1 /\ Y = Kont("eval", kk, step) /\ Y = Kont("eval", kk, step)'
      <4>1. EvalBatches - 1 \in 0 .. EvalBatches - 1 /\ EvalBatches - 1 \in Nat
        BY AsyncAssumption
      <4> QED
        BY <1>0, <1>4, <3>2, <4>1, Continuations
    <3>4. \A r \in Ranks : Head(todo[r]).q = "train" /\ todo'[r] = ToPrefetch("eval", Y)
      <4>1. PICK w \in Steps : w = Step("wait", "train", "train") /\ w.q = "train"
        BY StepsAre, OpsAre
      <4>2. PICK Z \in Seq(Steps) : Z = ToPrefetch("eval", Y)
        BY <3>2, Programs
      <4>3. \A r \in Ranks : todo[r] = <<w>> \o Z
        BY <3>1, <3>3, <4>1, <4>2 DEF Evaluating, ToEvaluate, Wait
      <4>4. Head(<<w>> \o Z) = w /\ Tail(<<w>> \o Z) = Z
        BY Consed
      <4> QED
        BY <2>0, <4>1, <4>2, <4>3, <4>4
    <3>5. \A r \in Ranks : NoTask(r) /\ One(r, "train", step - 1) /\ Stored(r, "eval") /\ took[r] = Nothing
      <4> TAKE r \in Ranks
      <4>1. Due(r, "train", step - 1) /\ took[r] = Nothing
        BY <3>1 DEF Evaluating
      <4>2. NoTask(r) /\ One(r, "train", step - 1)
        BY <1>0, <1>2, <1>8, <3>2, <3>4, <4>1, ReadyHas
      <4> QED
        BY <2>2, <3>2, <4>1, <4>2
    <3>6. \A r \in Ranks : Local(r, "look", "eval", Y)'
      <4> TAKE r \in Ranks
      <4>1. Stored(r, "train")'
        BY <1>4, <3>5 DEF Stored, One, Good, Recent
      <4>2. None(r, "eval")' \/ One(r, "eval", step - 1)'
        BY <1>4, <3>5 DEF Stored, One, None, Good
      <4>3. NoTask(r)' /\ took'[r] = Nothing
        BY <1>4, <3>5 DEF NoTask
      <4>4. Looking(r, "eval", Y)'
        BY <3>4, <4>2, <4>3 DEF Looking
      <4> QED
        BY <3>2, <4>1, <4>4 DEF Local
    <3>7. "look" \in Phases /\ Bounds("look", "eval")'
      BY DEF Phases, Generating, Bounds
    <3>8. Alike("look", "eval")'
      <4>1. \A r \in Ranks : ~None(r, "train")
        BY <3>5 DEF None, One
      <4>2. \A r, s \in Ranks : None(r, "eval") <=> None(s, "eval")
        BY <2>1, <2>8, <3>2 DEF Known
      <4>3. \A r, s \in Ranks : \A x \in Known("look", "eval") : None(r, x) <=> None(s, x)
        BY <4>1, <4>2, OpsAre DEF Known
      <4> QED
        BY <1>4, <2>1, <3>2, <3>7, <4>3, StayAlike
    <3>9. Rounds'
      BY <3>2, <3>3, <3>6, <3>7, <3>8, Rerounds
    <3>10. OpOf(todo'[Main]) \notin SyncOps
      BY <1>0, <3>2, <3>4, OpsOfPrograms, OpsAre
    <3> QED
      BY <3>9, <3>10
  <2> QED
    BY <2>5, <2>6, <2>7, <2>8
<1> QED
  BY <1>7, <1>8

(* Scattering the results keeps IInv.                                      *)
LEMMA GatherResultsStep ==
  ASSUME IInv, GatherResults
  PROVE  IInv'
<1>0. /\ Types /\ Rounds /\ Main \in Ranks /\ step \in 0 .. LastStep
      /\ step \in Nat /\ step - 1 \in Int /\ step \in Int /\ MaxResample \in Nat
      /\ resampled \in 0 .. MaxResample
  BY AsyncAssumption DEF IInv, Types
<1>1. AllInside("results")
  BY DEF GatherResults
<1>2. \A r \in Ranks : /\ OpOf(todo[r]) = "results" /\ todo[r] # << >> /\ Head(todo[r]).op = "results"
                       /\ raised[r] = "no" /\ inside[r] # Outside /\ Inside(r)
  BY <1>1, Gathered
<1>3. PICK phase \in Phases, q \in Modes, k \in 0 .. EvalBatches - 1, X \in Seq(Steps) :
        /\ X = Kont(q, k, step) /\ Alike(phase, q) /\ Bounds(phase, q)
        /\ \A r \in Ranks : Place(r, phase, q, X) /\ Local(r, phase, q, X)
  BY Situated
<1>4. \A r \in Ranks : phase = "submit" /\ todo[r] = ToResults(q, X) /\ Due(r, q, step)
  BY <1>2, <1>3 DEF Place
<1>5. PICK again \in BOOLEAN :
        /\ again => Head(todo[Main]).data = "train" /\ resampled < MaxResample
        /\ resampled' = IF again THEN resampled + 1 ELSE 0
        /\ todo' = [r \in Ranks |->
                      (IF again THEN FastInfer("train", "train") ELSE << >>) \o Tail(todo[r])]
        /\ took' = [r \in Ranks |-> Nothing] /\ inside' = [r \in Ranks |-> Outside]
        /\ UNCHANGED <<serverVars, step, queue, tasks, sent, lastLoaded, raised>>
  BY DEF GatherResults
<1>6. again => q = "train"
  <2>1. Head(todo[Main]) = Step("results", q, q)
    <3>1. Head(ToResults(q, X)) = Step("results", q, q)
      BY Programs
    <3> QED
      BY <1>0, <1>4, <3>1
  <2> QED
    BY <1>5, <2>1 DEF Step
<1>7. PICK Y \in Seq(Steps) :
        /\ Y = IF again THEN ToWait("train", X) ELSE X
        /\ \A r \in Ranks : todo'[r] = Y
        /\ todo' \in [Ranks -> Seq(Steps)]
  <2>1. Tail(ToResults(q, X)) = X
    BY Programs
  <2>2. << >> \o X = X
    BY ConcatEmptySeq
  <2>3. FastInfer("train", "train") \o X = ToWait("train", X) /\ ToWait("train", X) \in Seq(Steps)
    <3>1. "train" \in Modes
      BY OpsAre
    <3>2. FastInfer("train", "train") \o X = ToWait("train", X)
      BY <3>1, Generation, Zenon
    <3>3. ToWait("train", X) \in Seq(Steps)
      BY <3>1, Programs, Zenon
    <3> QED
      BY <3>2, <3>3
  <2> DEFINE Y == IF again THEN ToWait("train", X) ELSE X
  <2>4. Y \in Seq(Steps)
    BY <2>3
  <2>5. \A r \in Ranks : (IF again THEN FastInfer("train", "train") ELSE << >>) \o Tail(todo[r]) = Y
    BY <1>4, <2>1, <2>2, <2>3
  <2>6. todo' = [r \in Ranks |-> Y]
    BY <1>5, <2>5
  <2> HIDE DEF Y
  <2>7. \A r \in Ranks : todo'[r] = Y
    BY <2>6
  <2>8. todo' \in [Ranks -> Seq(Steps)]
    BY <2>4, <2>6
  <2> QED
    BY <2>4, <2>7, <2>8 DEF Y
<1>8. Types'
  <2>1. resampled' \in 0 .. MaxResample
    BY <1>0, <1>5
  <2>2. took' \in [Ranks -> DataCaches] /\ inside' \in [Ranks -> Insides]
    BY <1>5, DataAre DEF Insides
  <2> QED
    BY <1>0, <1>5, <1>7, <2>1, <2>2 DEF Types
<1>10. \A r, s \in Ranks, x \in Modes : sent[r][x] = sent[s][x]
  BY <1>0, <1>2, <1>3, Level
<1>11. ASSUME NEW P \in Phases, P \in {"wait", "evaluated", "train"} PROVE Alike(P, q)'
  <2>1. Known(P, q) = Known(phase, q)
    BY <1>0, <1>4, <1>11 DEF Known
  <2>2. \A r, s \in Ranks : \A x \in Known(P, q) : None(r, x) <=> None(s, x)
    BY <1>3, <2>1 DEF Alike
  <2> QED
    BY <1>5, <1>10, <1>11, <2>2, StayAlike
<1>12. \A r \in Ranks : Stored(r, Other(q))' /\ took'[r] = Nothing
  BY <1>0, <1>3, <1>5, StoredFrame, OpsAre DEF Local
<1>13. \A r \in Ranks : Due(r, q, step)' /\ Due(r, q, step - 1)'
  <2> TAKE r \in Ranks
  <2>1. \A at \in 0 .. step : Recent(at, step) => Recent(at, step - 1)
    BY <1>0, Recency
  <2>2. PICK m \in Int, n \in Int : m = step /\ n = step - 1
    BY <1>0
  <2>3. Due(r, q, m)' /\ Due(r, q, n)'
    BY <1>0, <1>4, <1>5, <2>1, <2>2, DueFrame
  <2> QED
    BY <1>5, <2>2, <2>3
<1>14. {"wait", "evaluated", "train"} \subseteq Phases
  BY DEF Phases, Generating
<1>15. SUFFICES Rounds' /\ OpOf(Y) \notin SyncOps
  BY <1>0, <1>1, <1>5, <1>7, <1>8, CollectiveStep
<1>16. CASE again
  <2>1. Y = ToWait(q, X)
    BY <1>6, <1>7, <1>16
  <2>2. \A r \in Ranks : Local(r, "wait", q, X)'
    BY <1>7, <1>12, <1>13, <2>1 DEF Local, Waiting
  <2>3. Bounds("wait", q)'
    BY <1>0, <1>3, <1>4, <1>5 DEF Bounds, Generating
  <2>4. Rounds'
    BY <1>3, <1>5, <1>11, <1>14, <2>2, <2>3, Rerounds
  <2> QED
    BY <2>1, <2>4, OpsOfPrograms, OpsAre
<1>17. CASE ~again /\ q = "train"
  <2>1. Y = <<Plain("train")>>
    <3>1. k \in Nat
      BY AsyncAssumption
    <3> QED
      BY <1>0, <1>3, <1>7, <1>17, <3>1, Continuations
  <2>2. \A r \in Ranks : Local(r, "train", q, X)'
    BY <1>7, <1>12, <1>13, <1>17, <2>1 DEF Local, Training
  <2>3. Bounds("train", q)'
    BY <1>0, <1>3, <1>4, <1>5, <1>17 DEF Bounds, Generating
  <2>4. Rounds'
    BY <1>3, <1>5, <1>11, <1>14, <2>2, <2>3, Rerounds
  <2> QED
    BY <1>0, <2>1, <2>4, NextSteps, OpsAre
<1>18. CASE ~again /\ q = "eval" /\ k = 0
  <2>1. Y = TrainingStep(step, TRUE)
    BY <1>0, <1>3, <1>7, <1>18, Continuations
  <2>2. \A r \in Ranks : Local(r, "evaluated", q, X)'
    BY <1>5, <1>7, <1>12, <1>13, <1>18, <2>1 DEF Local, Evaluated
  <2>3. Bounds("evaluated", q)'
    BY <1>18 DEF Bounds, Generating
  <2>4. Rounds'
    BY <1>3, <1>5, <1>11, <1>14, <2>2, <2>3, Rerounds
  <2> QED
    BY <1>0, <2>1, <2>4, NextSteps, OpsAre
<1>19. CASE ~again /\ q = "eval" /\ k # 0
  <2>1. PICK j \in 0 .. EvalBatches - 1 : k = j + 1 /\ j \in Nat
    <3>1. k \in Nat \ {0} /\ EvalBatches \in Nat
      BY <1>19, AsyncAssumption
    <3>2. k - 1 \in 0 .. EvalBatches - 1 /\ k = (k - 1) + 1 /\ k - 1 \in Nat
      BY <3>1
    <3> QED
      BY <3>2
  <2>2. PICK Z \in Seq(Steps) : Z = Kont(q, j, step) /\ Y = ToWait(q, Z)
    BY <1>0, <1>3, <1>7, <1>19, <2>1, Continuations
  <2>3. \A r \in Ranks : Local(r, "wait", q, Z)'
    BY <1>7, <1>12, <1>13, <2>2 DEF Local, Waiting
  <2>4. Bounds("wait", q)'
    BY <1>19 DEF Bounds, Generating
  <2>5. Rounds'
    BY <1>3, <1>5, <1>11, <1>14, <2>2, <2>3, <2>4, Rerounds
  <2> QED
    BY <2>2, <2>5, OpsOfPrograms, OpsAre
<1> QED
  BY <1>16, <1>17, <1>18, <1>19, OpsAre

(* Training a step, and planning what comes after it, keeps IInv.          *)
LEMMA TrainStep ==
  ASSUME Scheduled, IInv, Train
  PROVE  IInv'
<1>0. /\ Types /\ Rounds /\ Main \in Ranks /\ step \in 0 .. LastStep
      /\ step \in Nat /\ LastStep \in Nat
  BY AsyncAssumption, LastStepIs DEF IInv, Types
<1>1. AllInside("train")
  BY DEF Train
<1>2. \A r \in Ranks : /\ OpOf(todo[r]) = "train" /\ todo[r] # << >> /\ Head(todo[r]).op = "train"
                       /\ raised[r] = "no" /\ inside[r] # Outside /\ Inside(r)
  BY <1>1, Gathered
<1>3. PICK phase \in Phases, q \in Modes, X \in Seq(Steps) :
        /\ Alike(phase, q) /\ Bounds(phase, q)
        /\ \A r \in Ranks : Place(r, phase, q, X) /\ Local(r, phase, q, X)
  BY Situated
<1>4. \A r \in Ranks : phase = "train" /\ q = "train" /\ Training(r) /\ step < LastStep
  BY <1>2, <1>3 DEF Place, Bounds
<1>5. phase = "train" /\ q = "train" /\ step < LastStep /\ Other(q) = "eval" /\ {"train", "eval"} \subseteq Modes
  BY <1>0, <1>4, OpsAre
<1>6. PICK s \in 1 .. LastStep : s = step + 1 /\ s \in 0 .. LastStep /\ s - 1 = step /\ s \in Nat
  BY <1>0, <1>5
<1>7. /\ step' = s /\ todo' = [r \in Ranks |-> AfterStep(s)] /\ inside' = [r \in Ranks |-> Outside]
      /\ UNCHANGED <<serverVars, queue, tasks, sent, took, lastLoaded, resampled, raised>>
  BY <1>6 DEF Train
<1>8. PICK Y \in Seq(Steps) : Y = AfterStep(s)
  <2>1. ToEvaluate(s) \in Seq(Steps)
    <3>1. EvalBatches - 1 \in Nat /\ "eval" \in Modes
      BY <1>5, AsyncAssumption
    <3>2. PICK Z \in Seq(Steps) : Z = ToPrefetch("eval", Kont("eval", EvalBatches - 1, s))
      BY <1>6, <3>1, Continuations, Programs
    <3>3. PICK w \in Steps : w = Step("wait", "train", "train")
      BY StepsAre, OpsAre
    <3> QED
      BY <3>2, <3>3, Consed DEF ToEvaluate, Wait
  <2>2. TrainingStep(s, FALSE) \in Seq(Steps)
    BY <1>6, TrainingSteps, EmptySeq
  <2> QED
    BY <2>1, <2>2, AfterSteps
<1>9. /\ \A r \in Ranks : todo'[r] = Y /\ took'[r] = Nothing
      /\ Types'
  <2>1. \A r \in Ranks : todo'[r] = Y /\ took'[r] = Nothing
    BY <1>4, <1>7, <1>8 DEF Training
  <2>2. todo' \in [Ranks -> Seq(Steps)] /\ inside' \in [Ranks -> Insides]
    BY <1>7, <1>8 DEF Insides
  <2> QED
    BY <1>0, <1>6, <1>7, <2>1, <2>2 DEF Types
<1>11. /\ \A r, t \in Ranks, x \in Modes : sent[r][x] = sent[t][x]
       /\ \A r, t \in Ranks : None(r, "eval") <=> None(t, "eval")
  <2>1. /\ \A r, t \in Ranks, x \in Modes : sent[r][x] = sent[t][x]
        /\ \A r, t \in Ranks : \A x \in Known(phase, q) : None(r, x) <=> None(t, x)
    BY <1>0, <1>2, <1>3, Level
  <2> QED
    BY <1>5, <2>1 DEF Known
<1>12. ASSUME NEW P \in Phases, P \in {"wait", "evaluate", "train", "over"} PROVE Alike(P, "train")'
  <2>1. \A r, t \in Ranks : \A x \in Known(P, "train") : None(r, x) <=> None(t, x)
    BY <1>5, <1>11, <1>12 DEF Known
  <2> QED
    BY <1>5, <1>7, <1>11, <1>12, <2>1, StayAlike
<1>13. \A r \in Ranks : Stored(r, "eval")'
  BY <1>0, <1>3, <1>5, <1>6, <1>7, StoredFrame DEF Local
<1>14. \A r \in Ranks : /\ Due(r, "train", s - 1)'
                        /\ s % GenerateEvery # 0 => Due(r, "train", s)'
  <2> TAKE r \in Ranks
  <2>1. \A at \in 0 .. step : Recent(at, s - 1) /\ s % GenerateEvery # 0 => Recent(at, s)
    <3>1. \A at \in 0 .. step : at \in 0 .. s
      BY <1>0, <1>6
    <3> QED
      BY <1>6, <3>1, Recency
  <2>2. PICK m \in Int, n \in Int : m = s - 1 /\ n = s /\ m = step
    BY <1>0, <1>6
  <2>3. Due(r, "train", m)
    BY <1>4, <2>2 DEF Training
  <2>4. Due(r, "train", m)'
    BY <1>0, <1>5, <1>6, <1>7, <2>3, DueFrame
  <2>5. s % GenerateEvery # 0 => Due(r, "train", n)'
    BY <1>0, <1>5, <1>6, <1>7, <2>1, <2>2, <2>3, DueFrame
  <2> QED
    BY <2>2, <2>4, <2>5
<1>15. SUFFICES Rounds' /\ OpOf(Y) \notin SyncOps
  BY <1>0, <1>1, <1>7, <1>9, CollectiveStep
<1>16. PICK Z \in Seq(Steps), k \in 0 .. EvalBatches - 1 : Z = <<Plain("train")>> /\ Z = Kont("train", k, step)'
  <2>1. 0 \in Nat /\ 0 \in 0 .. EvalBatches - 1
    BY AsyncAssumption
  <2>2. Kont("train", 0, s) = <<Plain("train")>> /\ Kont("train", 0, s) \in Seq(Steps)
    BY <1>5, <1>6, <2>1, Continuations
  <2> QED
    BY <1>7, <2>1, <2>2
<1>17. CASE Y = ToEvaluate(s)
  <2>1. \A r \in Ranks : Evaluating(r)'
    BY <1>7, <1>9, <1>14, <1>17 DEF Evaluating
  <2>2. \A r \in Ranks : Local(r, "evaluate", "train", Z)'
    BY <1>5, <1>13, <2>1 DEF Local
  <2>3. Bounds("evaluate", "train")' /\ "evaluate" \in Phases
    BY DEF Bounds, Generating, Phases
  <2>4. Rounds'
    BY <1>5, <1>12, <1>16, <2>2, <2>3, Rerounds
  <2>5. OpOf(Y) = "wait"
    <3>1. EvalBatches - 1 \in Nat /\ "eval" \in Modes
      BY <1>5, AsyncAssumption
    <3>2. PICK V \in Seq(Steps) : V = ToPrefetch("eval", Kont("eval", EvalBatches - 1, s))
      BY <1>6, <3>1, Continuations, Programs
    <3>3. PICK w \in Steps : w = Step("wait", "train", "train") /\ w.op = "wait"
      BY StepsAre, OpsAre
    <3>4. Y = <<w>> \o V
      BY <1>17, <3>2, <3>3 DEF ToEvaluate, Wait
    <3> QED
      BY <3>3, <3>4, Consed DEF OpOf
  <2> QED
    BY <2>4, <2>5, OpsAre
<1>18. CASE Y # ToEvaluate(s) /\ s # LastStep
  <2>1. Y = TrainingStep(s, FALSE) /\ s # LastStep /\ s \in 0 .. LastStep - 1
    <3>1. Y = TrainingStep(s, FALSE) /\ s # LastStep
      BY <1>8, <1>18, AfterSteps
    <3> QED
      BY <1>0, <1>6, <3>1
  <2>2. PICK P \in Phases : P = IF s % GenerateEvery = 0 THEN "wait" ELSE "train"
    BY DEF Phases, Generating
  <2>3. \A r \in Ranks : Local(r, P, "train", Z)' /\ Bounds(P, "train")'
    BY <1>7, <1>9, <1>13, <1>14, <1>16, <2>1, <2>2, StepBegins
  <2>4. Alike(P, "train")'
    BY <1>12, <2>2
  <2>5. Rounds'
    BY <1>0, <1>5, <1>16, <2>3, <2>4, Rerounds
  <2>6. OpOf(Y) \notin SyncOps
    BY <1>6, <2>1, NextSteps, OpsAre
  <2> QED
    BY <2>5, <2>6
<1>19. CASE Y # ToEvaluate(s) /\ s = LastStep
  <2>1. Y = << >>
    BY <1>6, <1>8, <1>19, AfterSteps, TrainingSteps
  <2>2. \A r \in Ranks : Over(r)'
    BY <1>7, <1>9, <1>14, <2>1 DEF Over
  <2>3. \A r \in Ranks : Local(r, "over", "train", Z)'
    BY <1>5, <1>13, <2>2 DEF Local
  <2>4. Bounds("over", "train")' /\ "over" \in Phases
    BY DEF Bounds, Generating, Phases
  <2>5. Rounds'
    BY <1>5, <1>12, <1>16, <2>3, <2>4, Rerounds
  <2>6. OpOf(Y) \notin SyncOps
    BY <2>1, OpsAre DEF OpOf
  <2> QED
    BY <2>5, <2>6
<1> QED
  BY <1>17, <1>18, <1>19

(* IInv holds at first,                                                    *)
LEMMA InitInv ==
  ASSUME Scheduled, Init
  PROVE  IInv
<1>0. /\ step = 0 /\ 0 \in 0 .. LastStep /\ 0 # LastStep /\ 0 % GenerateEvery = 0 /\ Main \in Ranks
      /\ 0 \in 0 .. EvalBatches - 1 /\ LastStep \in Nat /\ LastStep # 0
  BY Beginnings, AsyncAssumption, LastStepIs DEF Init
<1>1. PICK X \in Seq(Steps) : X = Kont("train", 0, 0)
  BY <1>0, Continuations, OpsAre
<1>2. PICK Y \in Seq(Steps) : Y = ToInputs("train", X) /\ Y = Beginning /\ OpOf(Y) = "inputs"
  BY <1>1, Beginnings, Programs, OpsOfPrograms, OpsAre
<1>3. /\ todo = [r \in Ranks |-> Y] /\ inside = [r \in Ranks |-> Outside]
      /\ queue = [r \in Ranks |-> [q \in Modes |-> << >>]] /\ tasks = [r \in Ranks |-> << >>]
      /\ sent = [r \in Ranks |-> [q \in Modes |-> 0]] /\ took = [r \in Ranks |-> Nothing]
      /\ lastLoaded = [r \in Ranks |-> -1] /\ resampled = 0 /\ raised = [r \in Ranks |-> "no"]
  BY <1>2 DEF Init
<1>4. /\ call = [c \in Callers |-> Idle] /\ serving = "nobody"
      /\ pipe = [w \in Workers |-> << >>] /\ reply = [w \in Workers |-> << >>]
      /\ received = [w \in Workers |-> FALSE] /\ processed = [w \in Workers |-> TRUE]
      /\ weights = [w \in Workers |-> [b \in Buckets |-> 0]] /\ cache = [w \in Workers |-> {}]
  BY DEF Init, ServerInit
<1>5. Types
  <2>1. << >> \in Seq(DataCaches) /\ << >> \in Seq(Tasks) /\ Outside \in Insides /\ Nothing \in DataCaches
    BY DataAre DEF Insides
  <2>2. queue \in [Ranks -> [Modes -> Seq(DataCaches)]] /\ tasks \in [Ranks -> Seq(Tasks)]
    BY <1>3, <2>1
  <2>3. sent \in [Ranks -> [Modes -> Nat]] /\ lastLoaded \in [Ranks -> -1 .. LastStep]
    BY <1>0, <1>3
  <2>4. resampled \in 0 .. MaxResample
    BY <1>3, AsyncAssumption
  <2> QED
    BY <1>0, <1>3, <2>1, <2>2, <2>3, <2>4 DEF Types
<1>6. ServerTypes
  <2>1. << >> \in Seq(Commands) /\ << >> \in Seq(Replies) /\ Idle \in Calls
    BY RequestsAre
  <2>2. weights \in [Workers -> [Buckets -> 0 .. LastStep]] /\ cache \in [Workers -> SUBSET (-1 .. LastStep)]
    BY <1>0, <1>4
  <2> QED
    BY <1>4, <2>1, <2>2 DEF ServerTypes
<1>7. \A c \in Callers : call[c] = Idle /\ call[c].at = "idle" /\ DOMAIN call[c].got = {} /\ ~Active(c)
  BY <1>4, RequestsAre DEF Active
<1>8. Serving
  <2>1. Exclusive
    BY <1>7 DEF Exclusive
  <2>2. \A c \in Callers : CallServed(c)
    BY <1>4, <1>7, ServerSets DEF CallServed
  <2>3. \A w \in Workers : WorkerServed(w)
    BY <1>4, <1>7 DEF WorkerServed, Trailing
  <2> QED
    BY <2>1, <2>2, <2>3 DEF Serving
<1>9. Weights
  <2>1. NextOp = "inputs" /\ ~Synchronising
    BY <1>0, <1>2, <1>3, NextOpIs, OpsAre DEF Synchronising
  <2>2. \A w \in Workers : WorkerWeights(w)
    BY <1>0, <1>3, <1>4, <2>1 DEF WorkerWeights
  <2> QED
    BY <2>1, <2>2 DEF Weights
<1>10. Calling
  BY <1>7, ServerSets DEF Calling, RolloutCalls, TrainerCalls, Infers
<1>11. Rounds
  <2>1. \A r \in Ranks, x \in Modes : None(r, x)
    BY <1>3 DEF None
  <2>2. \A r \in Ranks : Local(r, "look", "train", X)
    <3> TAKE r \in Ranks
    <3>1. Looking(r, "train", X)
      BY <1>2, <1>3, <2>1, OpsAre DEF Looking, NoTask
    <3>2. Stored(r, Other("train"))
      BY <2>1, OpsAre DEF Stored
    <3> QED
      BY <3>1, <3>2 DEF Local
  <2>3. Alike("look", "train")
    BY <1>3, <2>1 DEF Alike, Counted, Known
  <2>4. Bounds("look", "train")
    <3>1. 0 < LastStep
      BY <1>0
    <3> QED
      BY <1>0, <3>1 DEF Bounds
  <2>5. Round("look", "train", 0)
    BY <1>0, <1>1, <2>2, <2>3, <2>4 DEF Round
  <2>6. "look" \in Phases /\ "train" \in Modes
    BY OpsAre DEF Phases, Generating
  <2> QED
    BY <1>0, <2>5, <2>6 DEF Rounds
<1>12. \A r \in Ranks : Inside(r)
  BY <1>3 DEF Inside, Outside
<1> QED
  BY <1>5, <1>6, <1>8, <1>9, <1>10, <1>11, <1>12 DEF IInv, Sound

(* and every step keeps it.                                                *)
LEMMA Inductive ==
  ASSUME Scheduled, IInv, [Next]_vars
  PROVE  IInv'
<1>1. CASE MainStep
  BY <1>1, SyncCallStep, SyncReturnStep, PrefetchCallStep, PrefetchReturnStep DEF MainStep
<1>2. CASE Executor
  BY <1>2, RolloutCallStep, RolloutReturnStep, RolloutNothingStep DEF Executor
<1>3. CASE Collective
  BY <1>3, GatherStatusesStep, GatherInputsStep, GatherResultsStep, TrainStep DEF Collective
<1>4. CASE Server
  BY <1>4, ServerStep
<1>5. ASSUME NEW r \in Ranks, RankStep(r) PROVE IInv'
  BY <1>5, PeekStep, SyncStep, TakeStep, SubmitStep, PrefetchIfEmptyStep,
     PrefetchNothingStep, ArriveStep DEF RankStep
<1>6. CASE UNCHANGED vars
  <2>1. UNCHANGED trainVars /\ UNCHANGED serverVars
    BY <1>6 DEF vars
  <2>2. Sound'
    BY <2>1, Elsewhere DEF trainVars, IInv
  <2> QED
    BY <2>1, <2>2, Unmoved
<1> QED
  BY <1>1, <1>2, <1>3, <1>4, <1>5, <1>6 DEF Next

-----------------------------------------------------------------------------
(* What follows                                                            *)

(* IInv is an invariant of asynchronous rollouts: the server has one call  *)
(* at a time, all ranks are in the same phase of the same round, and a     *)
(* queue holds what the round before left in it (rollout_mixin.py:1187,    *)
(* rollout.py:1011).                                                       *)
THEOREM Invariance ==
  ASSUME Scheduled
  PROVE  Spec => []IInv
<1>1. Init => IInv
  BY InitInv
<1>2. IInv /\ [Next]_vars => IInv'
  BY Inductive
<1> QED
  BY <1>1, <1>2, PTL DEF Spec

(* A queue holds nothing, one result, or one failure.                      *)
LEMMA AtMostOne ==
  ASSUME IInv, NEW r \in Ranks
  PROVE  /\ Len(tasks[r]) <= 1
         /\ \A x \in Modes :
              \/ queue[r][x] = << >>
              \/ Len(queue[r][x]) = 1
                   /\ LET d == Head(queue[r][x]) IN d = Error \/ (r = Main => d.versions = {d.at})
<1> DEFINE Fine(x) ==
             \/ queue[r][x] = << >>
             \/ Len(queue[r][x]) = 1
                  /\ LET d == Head(queue[r][x]) IN d = Error \/ (r = Main => d.versions = {d.at})
<1>1. PICK phase \in Phases, q \in Modes, X \in Seq(Steps) : Local(r, phase, q, X) /\ Bounds(phase, q)
  BY Situated
<1>2. \A x : None(r, x) => Fine(x)
  BY DEF None
<1>3. \A x, m : One(r, x, m) => Fine(x)
  BY DEF One, Good
<1>4. \A x : Failure(r, x) => Fine(x)
  BY DEF Failure
<1>5. NoTask(r) => Len(tasks[r]) <= 1
  <2>1. NoTask(r) => Len(tasks[r]) = 0
    BY DEF NoTask
  <2> QED
    BY <2>1
<1> HIDE DEF Fine
<1>6. ASSUME NEW x, NEW m, Due(r, x, m) PROVE Fine(x) /\ Len(tasks[r]) <= 1
  <2>1. CASE NoTask(r) /\ (One(r, x, m) \/ Failure(r, x))
    BY <1>3, <1>4, <1>5, <2>1
  <2>2. CASE None(r, x) /\ Len(tasks[r]) = 1
    BY <1>2, <2>2
  <2> QED
    BY <1>6, <2>1, <2>2 DEF Due
<1>7. \A x : Stored(r, x) => Fine(x)
  BY <1>2, <1>3 DEF Stored
<1>8. Fine(q) /\ Len(tasks[r]) <= 1
  <2>1. phase = "look" => Fine(q) /\ Len(tasks[r]) <= 1
    BY <1>1, <1>2, <1>3, <1>5 DEF Local, Looking
  <2>2. phase = "fill" => Fine(q) /\ Len(tasks[r]) <= 1
    BY <1>1, <1>2, <1>3, <1>5 DEF Local, Filling
  <2>3. phase = "wait" => Fine(q) /\ Len(tasks[r]) <= 1
    BY <1>1, <1>6 DEF Local, Waiting
  <2>4. phase = "take" => Fine(q) /\ Len(tasks[r]) <= 1
    BY <1>1, <1>2, <1>3, <1>5 DEF Local, Taking, Holding
  <2>5. phase = "submit" => Fine(q) /\ Len(tasks[r]) <= 1
    BY <1>1, <1>2, <1>5, <1>6 DEF Local, Submitting
  <2>6. phase = "evaluated" => Fine(q) /\ Len(tasks[r]) <= 1
    BY <1>1, <1>6 DEF Local, Evaluated, Bounds
  <2>7. phase = "train" => Fine(q) /\ Len(tasks[r]) <= 1
    BY <1>1, <1>6 DEF Local, Training, Bounds
  <2>8. phase \in {"evaluate", "over"} => Fine(q) /\ Len(tasks[r]) <= 1
    BY <1>1, <1>6 DEF Local, Evaluating, Over, Bounds
  <2> QED
    BY <2>1, <2>2, <2>3, <2>4, <2>5, <2>6, <2>7, <2>8 DEF Phases, Generating
<1>9. Fine(Other(q))
  BY <1>1, <1>7 DEF Local
<1>10. \A x \in Modes : x = q \/ x = Other(q)
  BY OpsAre
<1>11. \A x \in Modes : Fine(x)
  BY <1>8, <1>9, <1>10
<1> QED
  BY <1>8, <1>11 DEF Fine

(* Of a worker's pipe at most a bucket and the command behind it are left. *)
LEMMA ShortPipes ==
  ASSUME ServerTypes, Serving, NEW w \in Workers
  PROVE  Len(pipe[w]) <= NumBuckets + 1 /\ Len(reply[w]) <= 1
<1>1. WorkerServed(w)
  BY DEF Serving
<1>2. /\ pipe[w] \in Seq(Commands) /\ reply[w] \in Seq(Replies) /\ NumBuckets \in Nat \ {0}
  BY ServerAssumption DEF ServerTypes
<1>3. Len(<< >>) = 0 /\ \A c : Len(<<Command(c)>>) = 1
  <2>1. \A a : Len(<<a>>) = 1
    OBVIOUS
  <2> QED
    BY <2>1
<1>4. /\ Loading(w) /\ Tail(pipe[w]) = << >> => Len(pipe[w]) = 1
      /\ \A c : Loading(w) /\ Tail(pipe[w]) = <<Command(c)>> => Len(pipe[w]) = 2
  <2>1. pipe[w] # << >> => Len(Tail(pipe[w])) = Len(pipe[w]) - 1
    BY <1>2, TailHolds
  <2>2. PICK n \in Nat : n = Len(pipe[w])
    BY <1>2
  <2>3. /\ n - 1 = 0 => n = 1
        /\ n - 1 = 1 => n = 2
    OBVIOUS
  <2>4. Loading(w) => pipe[w] # << >>
    BY DEF Loading
  <2> QED
    BY <1>3, <2>1, <2>2, <2>3, <2>4
<1>5. Trailing(w) => Len(pipe[w]) \in 0 .. 2 /\ Len(reply[w]) = 0
  <2> SUFFICES ASSUME Trailing(w) PROVE Len(pipe[w]) \in {0, 1} /\ Len(reply[w]) = 0
    OBVIOUS
  <2>1. reply[w] = << >> /\ (pipe[w] = << >> \/ Len(pipe[w]) = 1)
    BY <1>4 DEF Trailing
  <2> QED
    BY <1>3, <2>1
<1>6. \A c : Queued(w, c) => Len(pipe[w]) \in 0 .. 2 /\ Len(reply[w]) = 0
  <2> SUFFICES ASSUME NEW c, Queued(w, c) PROVE Len(pipe[w]) \in {1, 2} /\ Len(reply[w]) = 0
    OBVIOUS
  <2>1. reply[w] = << >> /\ (pipe[w] = <<Command(c)>> \/ Len(pipe[w]) = 2)
    BY <1>4 DEF Queued
  <2> QED
    BY <1>3, <2>1
<1>7. \A c : Answered(w, c) => Len(pipe[w]) \in 0 .. 2 /\ Len(reply[w]) \in 0 .. 1
  BY <1>3 DEF Answered
<1>8. Len(pipe[w]) \in 0 .. 2 /\ Len(reply[w]) \in 0 .. 1
  <2>1. CASE \A c \in Callers : ~Handled(c)
    BY <1>1, <1>5, <2>1 DEF WorkerServed
  <2>2. CASE \E c \in Callers : Handled(c)
    <3>1. PICK c \in Callers : Handled(c)
      BY <2>2
    <3>2. Queued(w, c) \/ Answered(w, c)
      BY <1>1, <3>1 DEF WorkerServed, Handled
    <3> QED
      BY <1>6, <1>7, <3>2
  <2> QED
    BY <2>1, <2>2
<1>9. \A m \in 0 .. 2, n \in 0 .. 1 : m <= NumBuckets + 1 /\ n <= 1
  BY <1>2
<1> QED
  BY <1>8, <1>9

(* Every variable has its type.                                            *)
LEMMA TypesFollow ==
  ASSUME IInv
  PROVE  TypeOK
<1>0. Types /\ ServerTypes /\ Serving
  BY DEF IInv, Sound
<1>1. ASSUME NEW r \in Ranks
      PROVE  /\ \A i \in DOMAIN todo[r] : todo[r][i].op \in Ops /\ todo[r][i].q \in Modes
             /\ inside[r] \in Insides
             /\ \A q \in Modes : /\ Len(queue[r][q]) <= 1
                                 /\ \A i \in DOMAIN queue[r][q] : queue[r][q][i] \in DataCaches
             /\ Len(tasks[r]) <= 1
             /\ took[r] \in DataCaches /\ lastLoaded[r] \in -1 .. LastStep
             /\ raised[r] \in {"no", "alone", "together"}
  <2>1. \A i \in DOMAIN todo[r] : todo[r][i] \in Steps
    <3>1. todo[r] \in Seq(Steps)
      BY <1>0 DEF Types
    <3> QED
      BY <3>1
  <2>2. ASSUME NEW q \in Modes
        PROVE  Len(queue[r][q]) <= 1 /\ \A i \in DOMAIN queue[r][q] : queue[r][q][i] \in DataCaches
    <3>1. PICK s \in Seq(DataCaches) : s = queue[r][q]
      BY <1>0 DEF Types
    <3>2. \A i \in DOMAIN s : s[i] \in DataCaches
      OBVIOUS
    <3>3. s = << >> \/ Len(s) = 1
      BY <3>1, AtMostOne
    <3>4. Len(s) \in {0, 1}
      <4>1. Len(<< >>) = 0
        OBVIOUS
      <4> QED
        BY <3>3, <4>1
    <3>5. Len(s) <= 1
      <4>1. \A n \in {0, 1} : n <= 1
        OBVIOUS
      <4> QED
        BY <3>4, <4>1
    <3> QED
      BY <3>1, <3>2, <3>5
  <2>3. Len(tasks[r]) <= 1
    BY AtMostOne
  <2> QED
    BY <1>0, <2>1, <2>2, <2>3, StepsAre DEF Types
<1>2. \A w \in Workers : Len(pipe[w]) <= NumBuckets + 1 /\ Len(reply[w]) <= 1
  BY <1>0, ShortPipes
<1> QED
  BY <1>0, <1>1, <1>2 DEF TypeOK, Insides, Types, ServerTypes

(* A handler receives the replies to its own request.                      *)
LEMMA RepliesFollow ==
  ASSUME IInv
  PROVE  RepliesMatch
BY DEF IInv, Sound, Serving, CallServed, RepliesMatch

(* A queue of the main rank holds answers by one version of the weights.   *)
LEMMA AnswersFollow ==
  ASSUME IInv
  PROVE  UniformAnswers
<1>1. ASSUME NEW q \in Modes, NEW i \in DOMAIN queue[Main][q]
      PROVE  LET d == queue[Main][q][i] IN d = Error \/ d.versions = {d.at}
  <2>1. PICK s \in Seq(DataCaches) : s = queue[Main][q]
    BY AsyncAssumption DEF IInv, Types
  <2>2. s = << >> \/ (Len(s) = 1 /\ (Head(s) = Error \/ Head(s).versions = {Head(s).at}))
    BY <2>1, AsyncAssumption, AtMostOne
  <2>3. i \in DOMAIN s /\ s # << >> /\ Head(s) = s[1] /\ DOMAIN s = 1 .. Len(s)
    BY <2>1
  <2>4. i = 1
    BY <2>2, <2>3
  <2> QED
    BY <2>1, <2>2, <2>3, <2>4
<1> QED
  BY <1>1 DEF UniformAnswers

(* The rollout a rank has taken is one of its phase, the same on every     *)
(* rank, and not the last that has been started once another is.           *)
LEMMA TakenAre ==
  ASSUME IInv, NEW phase \in Phases, NEW q \in Modes, NEW X \in Seq(Steps),
         NEW r \in Ranks, Local(r, phase, q, X), took[r] # Nothing
  PROVE  /\ phase \in {"take", "submit"} /\ Head(todo[r]).q = q /\ Head(todo[r]).data = q
         /\ took[r].data = q /\ took[r].no = Counted(r, q, phase, q)
         /\ q = "train" => took[r].at \in 0 .. step /\ Recent(took[r].at, step - 1)
         /\ Head(todo[r]).op = "results" => took[r].no = sent[r][q] - 1
<1>1. \/ /\ phase = "take" /\ todo[r] = ToTake(q, X) /\ InHand(r, q, sent[r][q])
      \/ /\ phase = "submit" /\ todo[r] = ToSubmit(q, X) /\ InHand(r, q, sent[r][q])
      \/ /\ phase = "submit" /\ todo[r] = ToResults(q, X) /\ InHand(r, q, sent[r][q] - 1)
  BY DEF Local, Phases, Generating, Looking, Filling, Waiting, Taking, Holding, Submitting,
         Evaluated, Training, Evaluating, Over
<1>2. /\ Head(ToTake(q, X)) = Step("take", q, q) /\ Head(ToSubmit(q, X)) = Step("submit", q, q)
      /\ Head(ToResults(q, X)) = Step("results", q, q)
  BY Programs
<1>3. \A op : Step(op, q, q).op = op /\ Step(op, q, q).q = q /\ Step(op, q, q).data = q
  BY DEF Step
<1>4. /\ phase \in {"take", "submit"} /\ Head(todo[r]).q = q /\ Head(todo[r]).data = q
      /\ \/ InHand(r, q, sent[r][q]) /\ Head(todo[r]).op # "results" /\ Counted(r, q, phase, q) = sent[r][q]
         \/ InHand(r, q, sent[r][q] - 1) /\ Counted(r, q, phase, q) = sent[r][q] - 1
  BY <1>1, <1>2, <1>3 DEF Counted
<1> QED
  BY <1>4 DEF InHand

(* What is trained is the rollout of the generation call before.           *)
LEMMA RoundsFollow ==
  ASSUME IInv
  PROVE  TrainsOneRoundOld
<1>0. Types /\ step \in Nat /\ \A r \in Ranks : Inside(r)
  BY DEF IInv, Types
<1>1. PICK phase \in Phases, q \in Modes, X \in Seq(Steps) :
        Alike(phase, q) /\ \A r \in Ranks : Local(r, phase, q, X)
  BY Situated
<1>2. ASSUME NEW r \in InUse("train")
      PROVE  /\ q = "train" /\ took[r].data = "train" /\ r \in Ranks
             /\ took[r].at \in 0 .. step /\ Recent(took[r].at, step - 1)
             /\ took[r].no = Counted(r, q, phase, q)
             /\ Head(todo[r]).op = "results" => took[r].no = sent[r][q] - 1
  <2>1. r \in Ranks /\ took[r] # Nothing /\ Head(todo[r]).data = "train" /\ Local(r, phase, q, X)
    BY <1>1 DEF InUse
  <2> QED
    BY <2>1, TakenAre
<1>3. ASSUME NEW r \in InUse("train")
      PROVE  /\ took[r].data = "train" /\ step - took[r].at <= GenerateEvery
             /\ \A s \in InUse("train") : took[s].no = took[r].no
             /\ inside[r] = "results" => took[r].no = sent[r]["train"] - 1
  <2>1. step - took[r].at <= GenerateEvery
    BY <1>0, <1>2, Recency
  <2>2. ASSUME NEW s \in InUse("train") PROVE took[s].no = took[r].no
    BY <1>1, <1>2 DEF Alike
  <2>3. inside[r] = "results" => Head(todo[r]).op = "results"
    BY <1>0, <1>2 DEF Inside
  <2> QED
    BY <1>2, <2>1, <2>2, <2>3
<1> QED
  BY <1>3 DEF TrainsOneRoundOld

(* While a rank uses a rollout, no queue holds its failure.                *)
LEMMA FailuresFollow ==
  ASSUME IInv
  PROVE  NoneUsesFailed
<1>1. PICK phase \in Phases, q \in Modes, X \in Seq(Steps) :
        Alike(phase, q) /\ \A r \in Ranks : Local(r, phase, q, X)
  BY Situated
<1>2. ASSUME NEW r \in Ranks PROVE took[r] # Error
  <2>1. CASE took[r] = Nothing
    BY <2>1 DEF Nothing, Error
  <2>2. CASE took[r] # Nothing
    <3>1. took[r].data = q
      BY <1>1, <2>2, TakenAre
    <3>2. Error.data = "error" /\ q # "error"
      BY OpsAre DEF Error, Nothing
    <3> QED
      BY <3>1, <3>2
  <2> QED
    BY <2>1, <2>2
<1>3. ASSUME NEW r \in Ranks, NEW s \in Ranks, NEW x \in Modes, FailedIn(r, x), took[s] # Nothing,
             Head(todo[s]).q = x
      PROVE  took[s].no # sent[r][x]
  <2>1. /\ phase \in {"take", "submit"} /\ x = q /\ took[s].no = Counted(s, q, phase, q)
        /\ Counted(r, q, phase, q) = Counted(s, q, phase, q)
    BY <1>1, <1>3, TakenAre DEF Alike
  <2>2. ~None(r, q) /\ \A m : ~One(r, q, m)
    <3>1. queue[r][q] # << >> /\ Head(queue[r][q]).data = "error" /\ q # "error"
      BY <1>3, <2>1, OpsAre DEF FailedIn, Error, Nothing
    <3>2. ASSUME NEW m, One(r, q, m) PROVE FALSE
      <4>1. Head(queue[r][q]).data = q
        BY <3>2, Zenon DEF One, Good
      <4> QED
        BY <3>1, <4>1
    <3> QED
      BY <3>1, <3>2 DEF None
  <2>3. phase = "submit" /\ todo[r] = ToResults(q, X)
    BY <1>1, <2>1, <2>2 DEF Local, Taking, Holding, Submitting
  <2>4. Head(todo[r]).op = "results"
    <3>1. Head(ToResults(q, X)) = Step("results", q, q)
      BY Programs
    <3>2. Step("results", q, q).op = "results"
      BY DEF Step
    <3> QED
      BY <2>3, <3>1, <3>2
  <2>5. PICK n \in Nat : n = sent[r][q]
    BY DEF IInv, Types
  <2>6. took[s].no = n - 1
    BY <2>1, <2>3, <2>4, <2>5 DEF Counted
  <2> QED
    BY <2>1, <2>5, <2>6
<1> QED
  BY <1>2, <1>3 DEF NoneUsesFailed

(* Ranks in collectives are in the same one.                               *)
LEMMA CollectivesFollow ==
  ASSUME IInv
  PROVE  CollectivesMatch
<1>1. PICK phase \in Phases, q \in Modes, X \in Seq(Steps) :
        Alike(phase, q) /\ \A r \in Ranks : Place(r, phase, q, X)
  BY Situated
<1>2. ASSUME NEW r \in Ranks, inside[r] # Outside
      PROVE  /\ Head(todo[r]).op = OpOf(todo[r])
             /\ OpOf(todo[r]) \in {"wait", "inputs", "take", "results", "train"}
             /\ OpOf(todo[r]) = "wait" => \/ phase = "look" /\ ~None(r, q)
                                          \/ phase \in {"fill", "wait", "evaluated", "evaluate"}
             /\ OpOf(todo[r]) = "inputs" => phase = "look" /\ None(r, q)
             /\ OpOf(todo[r]) = "take" => phase = "take"
             /\ OpOf(todo[r]) = "results" => phase = "submit"
             /\ OpOf(todo[r]) = "train" => phase = "train"
  <2>1. /\ Head(todo[r]).op = OpOf(todo[r])
        /\ OpOf(todo[r]) \in {"wait", "inputs", "take", "results", "train"}
    BY <1>2 DEF IInv, Types, Inside, Insides, OpOf
  <2>2. One(r, q, step - 1) => ~None(r, q)
    BY DEF One, None
  <2> QED
    BY <1>1, <2>1, <2>2 DEF Place
<1>3. phase = "look" => \A r, s \in Ranks : None(r, q) <=> None(s, q)
  BY <1>1 DEF Alike, Known
<1>4. ASSUME NEW r \in Ranks, NEW s \in Ranks, inside[r] # Outside, inside[s] # Outside
      PROVE  Head(todo[r]).op = Head(todo[s]).op
  BY <1>2, <1>3, <1>4
<1> QED
  BY <1>4 DEF CollectivesMatch

(* Every variable keeps its type, however many ranks, workers and steps    *)
(* there are; in particular the executor never has a second rollout to run *)
(* and a queue never a second result (rollout_mixin.py:102, :1187).        *)
THEOREM TypesHold ==
  ASSUME Scheduled
  PROVE  Spec => []TypeOK
<1>1. IInv => TypeOK
  BY TypesFollow
<1> QED
  BY <1>1, Invariance, PTL

(* No handler of the server receives from a worker what the worker sent    *)
(* for another request (rollout.py:1011, :1098).                           *)
THEOREM RepliesAreOwn ==
  ASSUME Scheduled
  PROVE  Spec => []RepliesMatch
<1>1. IInv => RepliesMatch
  BY RepliesFollow
<1> QED
  BY <1>1, Invariance, PTL

(* Every answer in a queue was computed by the weights of the step at      *)
(* which its rollout was started, in all workers (rollout_mixin.py:1189).  *)
THEOREM AnswersAreUniform ==
  ASSUME Scheduled
  PROVE  Spec => []UniformAnswers
<1>1. IInv => UniformAnswers
  BY AnswersFollow
<1> QED
  BY <1>1, Invariance, PTL

(* The training uses, on all ranks alike, the rollout of the generation    *)
(* call before, of training prompts and at most one round old              *)
(* (rollout_mixin.py:1220).                                                *)
THEOREM RolloutsAreRecent ==
  ASSUME Scheduled
  PROVE  Spec => []TrainsOneRoundOld
<1>1. IInv => TrainsOneRoundOld
  BY RoundsFollow
<1> QED
  BY <1>1, Invariance, PTL

(* No rank waits in one collective while another has reached a different   *)
(* one.                                                                    *)
THEOREM CollectivesAgree ==
  ASSUME Scheduled
  PROVE  Spec => []CollectivesMatch
<1>1. IInv => CollectivesMatch
  BY CollectivesFollow
<1> QED
  BY <1>1, Invariance, PTL

(* No rank uses a rollout that has failed on any of them                   *)
(* (rollout_mixin.py:1692).                                                *)
THEOREM FailedAreUnused ==
  ASSUME Scheduled
  PROVE  Spec => []NoneUsesFailed
<1>1. IInv => NoneUsesFailed
  BY FailuresFollow
<1> QED
  BY <1>1, Invariance, PTL
=============================================================================
