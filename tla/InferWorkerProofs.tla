-------------------------- MODULE InferWorkerProofs --------------------------
(***************************************************************************)
(* Proofs about the batching worker (InferWorker) for any number of calls, *)
(* with any configs, adapters and event loops, every batch size and every  *)
(* length of a stream, whether or not loops close and generation fails.    *)
(***************************************************************************)
EXTENDS InferWorker, DataLemmas, TLAPS

Clients == {"new", "put", "waiting", "answered", "ended", "failed", "cancelled"}
Workers == {"none", "idle", "infer", "stream", "blocked", "dead"}
Kinds == [config : {Config[r] : r \in Requests}, adapter : [name : STRING, path : STRING]]
Mails == [kind : {"error", "end"}] \cup [kind : {"chunk", "final"}, kw : Kinds]

TypeOK ==
  /\ client \in [Requests -> Clients] /\ worker \in Workers
  /\ arrived \in Seq(Requests) /\ queue \in Seq(Requests) /\ batch \in Seq(Requests)
  /\ pool \in Seq([kwargs : Kinds, data : Seq(Requests)])
  /\ Busy => kwargs \in Kinds
  /\ chunks \in Nat
  /\ \A n \in DOMAIN loaded : loaded[n] \in STRING
  /\ mail \in [Requests -> Seq(Mails)]

(* What is queued are the latest arrivals; the ones before were grouped.   *)
GroupedCount == Len(arrived) - Len(queue)
Arrivals ==
  /\ \A i, j \in DOMAIN arrived : arrived[i] = arrived[j] => i = j
  /\ \A i \in DOMAIN arrived : client[arrived[i]] # "new"
  /\ Len(queue) <= Len(arrived)
  /\ \A k \in DOMAIN queue : queue[k] = arrived[GroupedCount + k]

(* The pool has one task per key, and its data in order of arrival.        *)
InOrder(data) ==
  \A a, b \in DOMAIN data : \A i, j \in DOMAIN arrived :
    (a < b /\ arrived[i] = data[a] /\ arrived[j] = data[b]) => i < j
Task(t) ==
  /\ t.data # << >> /\ InOrder(t.data)
  /\ \A a \in DOMAIN t.data : /\ Kwargs(t.data[a]) = t.kwargs
                              /\ \E p \in 1 .. GroupedCount : arrived[p] = t.data[a]
Tasks ==
  /\ \A t \in DOMAIN pool : Task(pool[t])
  /\ \A t, u \in DOMAIN pool : pool[t].kwargs = pool[u].kwargs => t = u

(* A caller in the batch whose stream is over, by its last chunk or its    *)
(* error, has been sent that.                                              *)
HasLast(s) == \E i \in DOMAIN s : s[i].kind \in {"final", "error"}
Running ==
  /\ \A a \in DOMAIN batch : Kwargs(batch[a]) = kwargs /\ client[batch[a]] # "new"
  /\ worker = "infer" => finished = {} /\ chunks = 0
  /\ worker = "stream" =>
       \A r \in Elements(batch) :
         (Calling(r) /\ (r \in finished \/ (r \in errors /\ chunks > 0))) => HasLast(mail[r])
  /\ MaxBatchSize > 0 => Len(batch) <= MaxBatchSize

(* The end of a stream comes after its last chunk or an error.             *)
EndsWell(s) ==
  \A i \in DOMAIN s : s[i].kind = "end" => \E j \in 1 .. i - 1 : s[j].kind \in {"final", "error"}
Mailbox == \A r \in Requests : EndsWell(mail[r])

IInv ==
  /\ TypeOK /\ Arrivals /\ Tasks /\ Running /\ Mailbox
  /\ NothingLost /\ FirstComeFirstServed /\ StreamsWhole /\ DiesOfClosedLoopOnly

(* Adapters are told apart by their names: AdapterRequests of one name     *)
(* have one path, as in the deployment's mapping of names to paths.        *)
NamesDiffer ==
  \A r, s \in Requests :
    (Adapter[r].name = Adapter[s].name /\ Adapter[r] # NoAdapter /\ Adapter[s] # NoAdapter)
      => Adapter[r] = Adapter[s]

LoadedAsNamed ==
  \A r \in Requests :
    (Adapter[r] # NoAdapter /\ Adapter[r].name \in DOMAIN loaded)
      => loaded[Adapter[r].name] = Adapter[r].path

(* A batch is run for one of the requests, of which there is one at least. *)
RunsARequest == Busy => \E r \in Requests : kwargs = Kwargs(r)

Answers == LoadedAsNamed /\ RunsARequest /\ AnsweredAsAsked
-----------------------------------------------------------------------------
(* Sequences: what they hold                                               *)

LEMMA ElementsAre ==
  ASSUME NEW S, NEW s \in Seq(S)
  PROVE  /\ Elements(s) \subseteq S /\ Elements(<< >>) = {}
         /\ s # << >> => Elements(s) = {Head(s)} \cup Elements(Tail(s)) /\ Head(s) \in S
         /\ \A x \in S : Elements(Append(s, x)) = Elements(s) \cup {x}
<1>1. \A t : Elements(t) = Held(t)
  BY DEF Elements, Held
<1> QED
  BY <1>1, HeldAre
-----------------------------------------------------------------------------
(* Mails                                                                   *)

HasAnswer(s) == \E i \in DOMAIN s : s[i].kind # "chunk"
Rightly(s, kw) == \A i \in DOMAIN s : s[i].kind \in {"chunk", "final"} => s[i].kw = kw

LEMMA MailKinds ==
  /\ Error \in Mails /\ End \in Mails /\ Error.kind = "error" /\ End.kind = "end"
  /\ \A kw \in Kinds, k \in {"chunk", "final"} :
       Part(k, kw) \in Mails /\ Part(k, kw).kind = k /\ Part(k, kw).kw = kw
  /\ \A m \in Mails : m.kind \in {"error", "end", "chunk", "final"}
BY DEF Mails, Error, End, Part

LEMMA OneMail ==
  ASSUME NEW m \in Mails
  PROVE  /\ <<m>> \in Seq(Mails) /\ <<m>> # << >>
         /\ m.kind # "chunk" => HasAnswer(<<m>>)
         /\ m.kind \in {"final", "error"} => HasLast(<<m>>)
         /\ m.kind # "end" => EndsWell(<<m>>)
         /\ \A kw : (m.kind \in {"chunk", "final"} => m.kw = kw) => Rightly(<<m>>, kw)
<1>1. <<m>> \in Seq(Mails) /\ DOMAIN <<m>> = {1} /\ <<m>>[1] = m /\ <<m>> # << >>
  OBVIOUS
<1> QED
  BY <1>1 DEF HasAnswer, HasLast, EndsWell, Rightly

LEMMA NoMail ==
  /\ << >> \in Seq(Mails) /\ EndsWell(<< >>) /\ \A kw : Rightly(<< >>, kw)
BY DEF EndsWell, Rightly

LEMMA MoreMail ==
  ASSUME NEW s \in Seq(Mails), NEW t \in Seq(Mails)
  PROVE  /\ s \o t \in Seq(Mails)
         /\ HasAnswer(s) \/ HasAnswer(t) => HasAnswer(s \o t)
         /\ HasLast(s) \/ HasLast(t) => HasLast(s \o t)
         /\ EndsWell(s) /\ (EndsWell(t) \/ HasLast(s)) => EndsWell(s \o t)
         /\ \A kw : Rightly(s, kw) /\ Rightly(t, kw) => Rightly(s \o t, kw)
<1> DEFINE u == s \o t
<1>1. /\ u \in Seq(Mails)
      /\ \A i \in DOMAIN s : i \in DOMAIN u /\ u[i] = s[i]
      /\ \A i \in DOMAIN t : i + Len(s) \in DOMAIN u /\ u[i + Len(s)] = t[i]
      /\ \A i \in DOMAIN u : \/ i \in DOMAIN s /\ u[i] = s[i]
                             \/ \E j \in DOMAIN t : i = j + Len(s) /\ u[i] = t[j]
  BY ConcatHolds
<1>2. Len(s) \in Nat /\ DOMAIN s = 1 .. Len(s) /\ DOMAIN t = 1 .. Len(t) /\ Len(t) \in Nat
  OBVIOUS
<1> HIDE DEF u
<1>3. HasAnswer(s) \/ HasAnswer(t) => HasAnswer(u)
  BY <1>1 DEF HasAnswer
<1>4. HasLast(s) \/ HasLast(t) => HasLast(u)
  BY <1>1 DEF HasLast
<1>5. ASSUME EndsWell(s), EndsWell(t) \/ HasLast(s) PROVE EndsWell(u)
  <2> SUFFICES ASSUME NEW i \in DOMAIN u, u[i].kind = "end"
               PROVE  \E j \in 1 .. i - 1 : u[j].kind \in {"final", "error"}
    BY DEF EndsWell
  <2>1. CASE i \in DOMAIN s /\ u[i] = s[i]
    <3>1. PICK j \in 1 .. i - 1 : s[j].kind \in {"final", "error"}
      BY <1>5, <2>1 DEF EndsWell
    <3>2. j \in DOMAIN s
      BY <1>2, <2>1
    <3> QED
      BY <1>1, <3>1, <3>2
  <2>2. ASSUME NEW k \in DOMAIN t, i = k + Len(s), u[i] = t[k]
        PROVE  \E j \in 1 .. i - 1 : u[j].kind \in {"final", "error"}
    <3>1. CASE HasLast(s)
      <4>1. PICK j \in DOMAIN s : s[j].kind \in {"final", "error"}
        BY <3>1 DEF HasLast
      <4>2. j \in 1 .. i - 1
        BY <1>2, <2>2
      <4> QED
        BY <1>1, <4>1, <4>2
    <3>2. CASE EndsWell(t)
      <4>1. PICK j \in 1 .. k - 1 : t[j].kind \in {"final", "error"}
        BY <2>2, <3>2 DEF EndsWell
      <4>2. j \in DOMAIN t /\ j + Len(s) \in 1 .. i - 1
        BY <1>2, <2>2
      <4> QED
        BY <1>1, <4>1, <4>2
    <3> QED
      BY <1>5, <3>1, <3>2
  <2> QED
    BY <1>1, <2>1, <2>2
<1>6. ASSUME NEW kw, Rightly(s, kw), Rightly(t, kw) PROVE Rightly(u, kw)
  BY <1>1, <1>6 DEF Rightly
<1> QED
  BY <1>1, <1>3, <1>4, <1>5, <1>6 DEF u

(* A chunk that is read leaves the rest.                                   *)
LEMMA LessMail ==
  ASSUME NEW s \in Seq(Mails), s # << >>
  PROVE  /\ Tail(s) \in Seq(Mails)
         /\ Head(s).kind = "chunk" /\ HasAnswer(s) => HasAnswer(Tail(s))
         /\ Head(s).kind = "chunk" /\ HasLast(s) => HasLast(Tail(s))
         /\ Head(s).kind = "chunk" /\ EndsWell(s) => EndsWell(Tail(s))
         /\ EndsWell(s) => Head(s).kind # "end"
         /\ \A kw : Rightly(s, kw) => Rightly(Tail(s), kw)
<1> DEFINE u == Tail(s)
<1>1. /\ u \in Seq(Mails) /\ Head(s) = s[1] /\ 1 \in DOMAIN s
      /\ \A i \in DOMAIN u : i + 1 \in DOMAIN s /\ u[i] = s[i + 1]
      /\ \A i \in DOMAIN s : i = 1 \/ (i - 1 \in DOMAIN u /\ u[i - 1] = s[i])
  BY TailHolds
<1>2. Len(s) \in Nat /\ DOMAIN s = 1 .. Len(s)
  OBVIOUS
<1> HIDE DEF u
<1>3. Head(s).kind = "chunk" /\ HasAnswer(s) => HasAnswer(u)
  BY <1>1 DEF HasAnswer
<1>4. Head(s).kind = "chunk" /\ HasLast(s) => HasLast(u)
  BY <1>1 DEF HasLast
<1>5. ASSUME Head(s).kind = "chunk", EndsWell(s) PROVE EndsWell(u)
  <2> SUFFICES ASSUME NEW i \in DOMAIN u, u[i].kind = "end"
               PROVE  \E j \in 1 .. i - 1 : u[j].kind \in {"final", "error"}
    BY DEF EndsWell
  <2>1. PICK j \in 1 .. i : s[j].kind \in {"final", "error"}
    <3>1. i + 1 \in DOMAIN s /\ s[i + 1].kind = "end" /\ (i + 1) - 1 = i
      BY <1>1, <1>2
    <3> QED
      BY <1>5, <3>1 DEF EndsWell
  <2>2. j # 1 /\ j \in DOMAIN s /\ j - 1 \in 1 .. i - 1
    BY <1>1, <1>2, <1>5, <2>1
  <2> QED
    BY <1>1, <2>1, <2>2
<1>6. EndsWell(s) => Head(s).kind # "end"
  BY <1>1 DEF EndsWell
<1>7. ASSUME NEW kw, Rightly(s, kw) PROVE Rightly(u, kw)
  BY <1>1, <1>7 DEF Rightly
<1> QED
  BY <1>1, <1>3, <1>4, <1>5, <1>6, <1>7 DEF u
-----------------------------------------------------------------------------
(* The invariant holds at the start                                        *)

Pending == Elements(queue) \cup Pooled

LEMMA Kwargs_Type == \A r \in Requests : Kwargs(r) \in Kinds
BY InferAssumption DEF Kwargs, Kinds

LEMMA SeqRanges ==
  ASSUME TypeOK
  PROVE  /\ Len(arrived) \in Nat /\ Len(queue) \in Nat /\ Len(batch) \in Nat /\ Len(pool) \in Nat
         /\ DOMAIN arrived = 1 .. Len(arrived) /\ DOMAIN queue = 1 .. Len(queue)
         /\ DOMAIN batch = 1 .. Len(batch) /\ DOMAIN pool = 1 .. Len(pool)
         /\ \A i \in DOMAIN arrived : arrived[i] \in Requests
         /\ \A i \in DOMAIN queue : queue[i] \in Requests
         /\ \A i \in DOMAIN batch : batch[i] \in Requests
         /\ Elements(batch) \subseteq Requests
<1>1. /\ arrived \in Seq(Requests) /\ queue \in Seq(Requests) /\ batch \in Seq(Requests)
      /\ pool \in Seq([kwargs : Kinds, data : Seq(Requests)])
  BY DEF TypeOK
<1>2. \A s \in Seq(Requests) : /\ Len(s) \in Nat /\ DOMAIN s = 1 .. Len(s)
                               /\ \A i \in DOMAIN s : s[i] \in Requests
  OBVIOUS
<1>3. Len(pool) \in Nat /\ DOMAIN pool = 1 .. Len(pool)
  BY <1>1
<1>4. Elements(batch) \subseteq Requests
  BY <1>1, <1>2 DEF Elements
<1> QED
  BY <1>1, <1>2, <1>3, <1>4, Zenon

LEMMA TaskRanges ==
  ASSUME TypeOK, NEW t \in DOMAIN pool
  PROVE  /\ pool[t].kwargs \in Kinds /\ pool[t].data \in Seq(Requests)
         /\ pool[t] \in [kwargs : Kinds, data : Seq(Requests)]
         /\ Len(pool[t].data) \in Nat /\ DOMAIN pool[t].data = 1 .. Len(pool[t].data)
         /\ \A a \in DOMAIN pool[t].data : pool[t].data[a] \in Requests
<1>1. pool[t] \in [kwargs : Kinds, data : Seq(Requests)]
  <2>1. pool \in Seq([kwargs : Kinds, data : Seq(Requests)]) /\ t \in 1 .. Len(pool)
    BY SeqRanges DEF TypeOK
  <2> QED
    BY <2>1, ElementOfSeq
<1>2. pool[t].kwargs \in Kinds /\ pool[t].data \in Seq(Requests)
  BY <1>1
<1>3. \A s \in Seq(Requests) : /\ Len(s) \in Nat /\ DOMAIN s = 1 .. Len(s)
                               /\ \A i \in DOMAIN s : s[i] \in Requests
  OBVIOUS
<1> QED
  BY <1>1, <1>2, <1>3, Zenon

LEMMA InitInv == Init => IInv
<1> SUFFICES ASSUME Init PROVE IInv
  OBVIOUS
<1>1. /\ \A S : << >> \in Seq(S)
      /\ DOMAIN << >> = {} /\ Len(<< >>) = 0
  OBVIOUS
<1>2. /\ arrived = << >> /\ queue = << >> /\ pool = << >> /\ batch = << >> /\ worker = "none"
      /\ \A r \in Requests : client[r] = "new" /\ mail[r] = << >>
  BY DEF Init
<1>3. TypeOK
  <2>1. \A n \in DOMAIN loaded : loaded[n] \in STRING
    BY DEF Init
  <2> QED
    BY <1>1, <2>1 DEF Init, TypeOK, Clients, Workers, Busy
<1>4. Arrivals /\ Tasks /\ Running
  BY <1>1, <1>2, InferAssumption DEF Arrivals, Tasks, Running
<1>5. NothingLost /\ FirstComeFirstServed /\ StreamsWhole /\ DiesOfClosedLoopOnly /\ Mailbox
  <2>1. FirstComeFirstServed
    BY <1>1, <1>2, InferAssumption DEF FirstComeFirstServed
  <2>2. NothingLost /\ StreamsWhole /\ DiesOfClosedLoopOnly /\ Mailbox
    BY <1>1, <1>2, NoMail DEF NothingLost, StreamsWhole, DiesOfClosedLoopOnly, Mailbox, Calling
  <2> QED
    BY <2>1, <2>2
<1> QED
  BY <1>3, <1>4, <1>5 DEF IInv
-----------------------------------------------------------------------------
(* Steps that leave the tasks alone                                        *)

(* What says who is served next.                                           *)
Served ==
  /\ Arrivals /\ Tasks /\ FirstComeFirstServed
  /\ \A a \in DOMAIN batch : Kwargs(batch[a]) = kwargs /\ client[batch[a]] # "new"
  /\ MaxBatchSize > 0 => Len(batch) <= MaxBatchSize

LEMMA ServedSame ==
  ASSUME IInv, UNCHANGED <<arrived, queue, pool, kwargs, batch>>,
         \A r \in Requests : client[r] # "new" => client'[r] # "new"
  PROVE  Served'
<1>1. Arrivals'
  BY SeqRanges DEF IInv, Arrivals, GroupedCount
<1>2. Tasks'
  BY DEF IInv, Tasks, Task, InOrder, GroupedCount, Kwargs
<1>3. FirstComeFirstServed'
  BY DEF IInv, FirstComeFirstServed, Elements, Pooled, Kwargs
<1>4. /\ \A a \in DOMAIN batch' : Kwargs(batch'[a]) = kwargs' /\ client'[batch'[a]] # "new"
      /\ MaxBatchSize > 0 => Len(batch') <= MaxBatchSize
  BY SeqRanges DEF IInv, Running, Kwargs
<1> QED
  BY <1>1, <1>2, <1>3, <1>4 DEF Served, Kwargs

(* A caller that goes on waiting keeps its mail, but for a chunk it reads. *)
LEMMA CallersKeep ==
  ASSUME IInv, UNCHANGED <<arrived, taskVars, batchVars, loaded>>,
         client' \in [Requests -> Clients], mail' \in [Requests -> Seq(Mails)],
         worker' = worker \/ (worker = "none" /\ worker' = "idle"),
         closed \subseteq closed',
         \A r \in Requests :
           /\ client[r] # "new" => client'[r] # "new"
           /\ client'[r] # "ended"
           /\ client'[r] \in {"put", "waiting"} => Calling(r)
           /\ \/ mail'[r] = mail[r]
              \/ mail[r] # << >> /\ Head(mail[r]).kind = "chunk" /\ mail'[r] = Tail(mail[r])
              \/ mail'[r] = << >> /\ client'[r] \notin {"put", "waiting"}
  PROVE  IInv'
<1>0. UNCHANGED <<arrived, queue, pool, kwargs, batch, errors, finished, chunks, loaded>>
  BY DEF taskVars, batchVars
<1>1. Served'
  BY <1>0, ServedSame
<1>2. /\ TypeOK /\ Running /\ Mailbox /\ NothingLost /\ StreamsWhole /\ DiesOfClosedLoopOnly
      /\ \A r \in Requests : mail[r] \in Seq(Mails)
  BY DEF IInv, TypeOK
<1>3. TypeOK'
  <2>1. Busy' <=> Busy
    BY DEF Busy
  <2> QED
    BY <1>0, <1>2, <2>1 DEF TypeOK, Workers
<1>4. \A r \in Requests : /\ EndsWell(mail'[r])
                          /\ Calling(r)' => (HasAnswer(mail[r]) => HasAnswer(mail'[r]))
                          /\ Calling(r)' => (HasLast(mail[r]) => HasLast(mail'[r]))
  <2> TAKE r \in Requests
  <2>1. mail[r] \in Seq(Mails) /\ EndsWell(mail[r])
    BY <1>2 DEF Mailbox
  <2>2. CASE mail'[r] = mail[r]
    BY <2>1, <2>2
  <2>3. CASE mail[r] # << >> /\ Head(mail[r]).kind = "chunk" /\ mail'[r] = Tail(mail[r])
    BY <2>1, <2>3, LessMail
  <2>4. CASE mail'[r] = << >> /\ client'[r] \notin {"put", "waiting"}
    BY <2>4, NoMail DEF Calling
  <2> QED
    BY <2>2, <2>3, <2>4
<1>5. \A r \in Requests : Calling(r)' => Calling(r)
  BY DEF Calling
<1>6. Running'
  <2>1. worker' = "infer" => finished' = {} /\ chunks' = 0
    BY <1>0, <1>2 DEF Running
  <2>2. worker' = "stream" =>
          \A r \in Elements(batch) :
            (Calling(r)' /\ (r \in finished \/ (r \in errors /\ chunks > 0))) => HasLast(mail'[r])
    BY <1>2, <1>4, <1>5, SeqRanges DEF Running
  <2> QED
    BY <1>0, <1>1, <2>1, <2>2 DEF Running, Served, Elements
<1>7. NothingLost'
  <2> SUFFICES ASSUME worker' # "dead", NEW r \in Requests, Calling(r)'
               PROVE  \/ r \in Elements(queue) \cup Pooled \/ (Busy' /\ r \in Elements(batch))
                      \/ HasAnswer(mail'[r])
    BY <1>0 DEF NothingLost, HasAnswer, Elements, Pooled
  <2>1. Busy => Busy'
    BY DEF Busy
  <2> QED
    BY <1>2, <1>4, <1>5, <2>1 DEF NothingLost, HasAnswer
<1>8. StreamsWhole' /\ DiesOfClosedLoopOnly' /\ Mailbox'
  BY <1>0, <1>2, <1>4 DEF StreamsWhole, DiesOfClosedLoopOnly, Mailbox, Elements
<1> QED
  BY <1>1, <1>3, <1>6, <1>7, <1>8 DEF IInv, Served

LEMMA AwaitKeeps ==
  ASSUME IInv, NEW r \in Requests, Await(r)
  PROVE  IInv'
<1>1. /\ client[r] = "put" /\ client' = [client EXCEPT ![r] = "waiting"]
      /\ worker' = IF worker = "none" THEN "idle" ELSE worker
      /\ UNCHANGED <<arrived, closed, taskVars, batchVars, loaded, mail>>
  BY DEF Await
<1>2. client \in [Requests -> Clients] /\ mail \in [Requests -> Seq(Mails)] /\ StreamsWhole
  BY DEF IInv, TypeOK
<1>3. client' \in [Requests -> Clients] /\ mail' \in [Requests -> Seq(Mails)]
  BY <1>1, <1>2 DEF Clients
<1>4. \A s \in Requests :
        /\ client[s] # "new" => client'[s] # "new"
        /\ client'[s] # "ended"
        /\ client'[s] \in {"put", "waiting"} => Calling(s)
        /\ mail'[s] = mail[s]
  BY <1>1, <1>2 DEF Calling, StreamsWhole
<1> QED
  BY <1>1, <1>3, <1>4, CallersKeep

LEMMA ReceiveKeeps ==
  ASSUME IInv, NEW r \in Requests, Receive(r)
  PROVE  IInv'
<1>1. /\ client[r] = "waiting" /\ mail[r] # << >>
      /\ client' = [client EXCEPT ![r] = Outcome(Head(mail[r]))]
      /\ mail' = [mail EXCEPT ![r] = IF client'[r] = "waiting" THEN Tail(@) ELSE << >>]
      /\ UNCHANGED <<arrived, closed, taskVars, worker, batchVars, loaded>>
  BY DEF Receive
<1>2. /\ client \in [Requests -> Clients] /\ mail \in [Requests -> Seq(Mails)] /\ StreamsWhole
      /\ mail[r] \in Seq(Mails) /\ EndsWell(mail[r])
  BY DEF IInv, TypeOK, Mailbox
<1>3. Head(mail[r]).kind \in {"error", "chunk", "final"} /\ Tail(mail[r]) \in Seq(Mails)
  <2>1. Head(mail[r]) \in Mails
    BY <1>1, <1>2, HeadTailProperties
  <2>2. Head(mail[r]).kind # "end" /\ Tail(mail[r]) \in Seq(Mails)
    BY <1>1, <1>2, LessMail
  <2> QED
    BY <2>1, <2>2, MailKinds
<1>4. Outcome(Head(mail[r])) = IF Head(mail[r]).kind = "error" THEN "failed"
                               ELSE IF Head(mail[r]).kind = "final" THEN "answered" ELSE "waiting"
  BY <1>3 DEF Outcome
<1>5. client' \in [Requests -> Clients] /\ mail' \in [Requests -> Seq(Mails)]
  BY <1>1, <1>2, <1>3, <1>4, NoMail DEF Clients
<1>6. \A s \in Requests \ {r} : client'[s] = client[s] /\ mail'[s] = mail[s]
  BY <1>1, <1>2
<1>7. /\ client'[r] = Outcome(Head(mail[r]))
      /\ mail'[r] = IF client'[r] = "waiting" THEN Tail(mail[r]) ELSE << >>
  BY <1>1, <1>2
<1>8. \A s \in Requests :
        /\ client[s] # "new" => client'[s] # "new"
        /\ client'[s] # "ended"
        /\ client'[s] \in {"put", "waiting"} => Calling(s)
        /\ \/ mail'[s] = mail[s]
           \/ mail[s] # << >> /\ Head(mail[s]).kind = "chunk" /\ mail'[s] = Tail(mail[s])
           \/ mail'[s] = << >> /\ client'[s] \notin {"put", "waiting"}
  BY <1>1, <1>2, <1>3, <1>4, <1>6, <1>7 DEF Calling, StreamsWhole
<1> QED
  BY <1>1, <1>5, <1>8, CallersKeep

LEMMA CancelKeeps ==
  ASSUME IInv, NEW r \in Requests, Cancel(r)
  PROVE  IInv'
<1>1. /\ Calling(r) /\ client' = [client EXCEPT ![r] = "cancelled"]
      /\ mail' = [mail EXCEPT ![r] = << >>]
      /\ UNCHANGED <<arrived, closed, taskVars, worker, batchVars, loaded>>
  BY DEF Cancel
<1>2. client \in [Requests -> Clients] /\ mail \in [Requests -> Seq(Mails)] /\ StreamsWhole
  BY DEF IInv, TypeOK
<1>3. client' \in [Requests -> Clients] /\ mail' \in [Requests -> Seq(Mails)]
  BY <1>1, <1>2, NoMail DEF Clients
<1>4. \A s \in Requests :
        /\ client[s] # "new" => client'[s] # "new"
        /\ client'[s] # "ended"
        /\ client'[s] \in {"put", "waiting"} => Calling(s)
        /\ mail'[s] = mail[s] \/ (mail'[s] = << >> /\ client'[s] \notin {"put", "waiting"})
  BY <1>1, <1>2 DEF Calling, StreamsWhole
<1> QED
  BY <1>1, <1>3, <1>4, CallersKeep

LEMMA CloseKeeps ==
  ASSUME IInv, NEW l, CloseLoop(l)
  PROVE  IInv'
<1>1. /\ closed' = closed \cup {l}
      /\ client' = [r \in Requests |-> IF Loop[r] = l /\ Calling(r) THEN "cancelled" ELSE client[r]]
      /\ mail' = [r \in Requests |-> IF Loop[r] = l THEN << >> ELSE mail[r]]
      /\ UNCHANGED <<arrived, taskVars, worker, batchVars, loaded>>
  BY DEF CloseLoop
<1>2. client \in [Requests -> Clients] /\ mail \in [Requests -> Seq(Mails)] /\ StreamsWhole
  BY DEF IInv, TypeOK
<1>3. client' \in [Requests -> Clients] /\ mail' \in [Requests -> Seq(Mails)]
  BY <1>1, <1>2, NoMail DEF Clients
<1>4. \A s \in Requests :
        /\ client[s] # "new" => client'[s] # "new"
        /\ client'[s] # "ended"
        /\ client'[s] \in {"put", "waiting"} => Calling(s)
        /\ mail'[s] = mail[s] \/ (mail'[s] = << >> /\ client'[s] \notin {"put", "waiting"})
  BY <1>1, <1>2 DEF Calling, StreamsWhole
<1> QED
  BY <1>1, <1>3, <1>4, CallersKeep
-----------------------------------------------------------------------------
(* A request is put: it is the latest arrival and the last of the queue.   *)

LEMMA PutKeeps ==
  ASSUME IInv, NEW r \in Requests, Put(r)
  PROVE  IInv'
<1>1. /\ client[r] = "new" /\ client' = [client EXCEPT ![r] = "put"]
      /\ arrived' = Append(arrived, r) /\ queue' = Append(queue, r)
      /\ UNCHANGED <<closed, pool, worker, kwargs, batch, errors, finished, chunks, loaded, mail>>
  BY DEF Put, batchVars
<1>2. /\ TypeOK /\ Arrivals /\ Tasks /\ Running /\ Mailbox /\ NothingLost /\ FirstComeFirstServed
      /\ StreamsWhole /\ DiesOfClosedLoopOnly
      /\ client \in [Requests -> Clients] /\ arrived \in Seq(Requests) /\ queue \in Seq(Requests)
  BY DEF IInv, TypeOK
<1>3. /\ client' \in [Requests -> Clients] /\ client'[r] = "put"
      /\ \A s \in Requests \ {r} : client'[s] = client[s]
  BY <1>1, <1>2 DEF Clients
<1>4. /\ Len(arrived') = Len(arrived) + 1 /\ Len(queue') = Len(queue) + 1
      /\ arrived' \in Seq(Requests) /\ queue' \in Seq(Requests)
      /\ arrived'[Len(arrived) + 1] = r /\ queue'[Len(queue) + 1] = r
      /\ Len(queue) + 1 \in DOMAIN queue'
      /\ \A i \in DOMAIN arrived : i \in DOMAIN arrived' /\ arrived'[i] = arrived[i]
                                   /\ i < Len(arrived) + 1
      /\ \A i \in DOMAIN arrived' : i = Len(arrived) + 1 \/ i \in DOMAIN arrived
      /\ \A i \in DOMAIN queue : queue'[i] = queue[i]
      /\ \A i \in DOMAIN queue' : i = Len(queue) + 1 \/ i \in DOMAIN queue
  BY <1>1, <1>2, AppendHolds
<1>5. Elements(queue') = Elements(queue) \cup {r}
  BY <1>1, <1>2, ElementsAre
<1>6. \A i \in DOMAIN arrived : arrived[i] # r
  BY <1>1, <1>2 DEF Arrivals
<1>7. GroupedCount' = GroupedCount /\ GroupedCount \in Nat /\ Len(arrived) \in Nat /\ Len(queue) \in Nat
  BY <1>2, <1>4, SeqRanges DEF GroupedCount, Arrivals
<1>8. TypeOK'
  BY <1>1, <1>2, <1>3, <1>4 DEF TypeOK, Busy
<1>9. Arrivals'
  <2>1. ASSUME NEW i \in DOMAIN arrived', NEW j \in DOMAIN arrived', arrived'[i] = arrived'[j]
        PROVE  i = j
    BY <1>2, <1>4, <1>6, <2>1 DEF Arrivals
  <2>2. \A i \in DOMAIN arrived' : client'[arrived'[i]] # "new"
    BY <1>2, <1>3, <1>4, <1>6, SeqRanges DEF Arrivals
  <2>3. ASSUME NEW k \in DOMAIN queue' PROVE queue'[k] = arrived'[GroupedCount + k]
    <3>1. CASE k \in DOMAIN queue
      <4>1. GroupedCount + k \in DOMAIN arrived
        BY <1>2, <1>7, <3>1, SeqRanges DEF GroupedCount
      <4> QED
        BY <1>2, <1>4, <3>1, <4>1 DEF Arrivals
    <3>2. CASE k = Len(queue) + 1
      <4>1. GroupedCount + k = Len(arrived) + 1
        BY <1>7, <3>2 DEF GroupedCount
      <4> QED
        BY <1>4, <3>2, <4>1
    <3> QED
      BY <1>4, <3>1, <3>2
  <2>4. Len(queue') <= Len(arrived')
    BY <1>2, <1>4, <1>7 DEF Arrivals
  <2> QED
    BY <1>7, <2>1, <2>2, <2>3, <2>4 DEF Arrivals
<1>10. Tasks'
  <2>1. ASSUME NEW t \in DOMAIN pool, NEW a \in DOMAIN pool[t].data
        PROVE  /\ Kwargs(pool[t].data[a]) = pool[t].kwargs
               /\ \E p \in 1 .. GroupedCount : arrived'[p] = pool[t].data[a]
               /\ pool[t].data[a] # r
    <3>1. PICK p \in 1 .. GroupedCount : arrived[p] = pool[t].data[a]
      BY <1>2 DEF Tasks, Task
    <3>2. p \in DOMAIN arrived
      BY <1>7, <1>2, SeqRanges DEF GroupedCount
    <3> QED
      BY <1>2, <1>4, <1>6, <3>1, <3>2 DEF Tasks, Task
  <2>2. ASSUME NEW t \in DOMAIN pool PROVE InOrder(pool[t].data)'
    <3> SUFFICES ASSUME NEW a \in DOMAIN pool[t].data, NEW b \in DOMAIN pool[t].data,
                        NEW i \in DOMAIN arrived', NEW j \in DOMAIN arrived', a < b,
                        arrived'[i] = pool[t].data[a], arrived'[j] = pool[t].data[b]
                 PROVE  i < j
      BY <1>1 DEF InOrder
    <3>1. i \in DOMAIN arrived /\ j \in DOMAIN arrived
      BY <1>4, <2>1
    <3>2. InOrder(pool[t].data)
      BY <1>2 DEF Tasks, Task
    <3> QED
      BY <1>4, <3>1, <3>2 DEF InOrder
  <2>3. ASSUME NEW t \in DOMAIN pool PROVE Task(pool[t])'
    <3>1. pool[t].data # << >>
      BY <1>2 DEF Tasks, Task
    <3>2. \A a \in DOMAIN pool[t].data : /\ Kwargs(pool[t].data[a]) = pool[t].kwargs
                                         /\ \E p \in 1 .. GroupedCount' : arrived'[p] = pool[t].data[a]
      BY <1>7, <2>1
    <3> QED
      BY <1>1, <2>2, <3>1, <3>2 DEF Task
  <2> QED
    BY <1>1, <1>2, <2>3 DEF Tasks
<1>11. Pooled' = Pooled
  BY <1>1 DEF Pooled, Elements
<1>12. FirstComeFirstServed'
  <2>1. ASSUME NEW i \in DOMAIN arrived', NEW j \in DOMAIN arrived', i < j,
               Kwargs(arrived'[i]) = Kwargs(arrived'[j]), arrived'[i] \in Pending'
        PROVE  arrived'[j] \in Pending'
    <3>1. CASE j = Len(arrived) + 1
      BY <1>4, <1>5, <3>1 DEF Pending
    <3>2. CASE j \in DOMAIN arrived
      <4>1. i \in DOMAIN arrived
        BY <1>4, <2>1, <3>2
      <4>2. arrived[i] \in Pending /\ Kwargs(arrived[i]) = Kwargs(arrived[j])
        BY <1>4, <1>5, <1>6, <1>11, <2>1, <3>2, <4>1 DEF Pending
      <4>3. arrived[j] \in Pending
        BY <1>2, <2>1, <3>2, <4>1, <4>2 DEF FirstComeFirstServed, Pending
      <4> QED
        BY <1>4, <1>5, <1>11, <3>2, <4>3 DEF Pending
    <3> QED
      BY <1>4, <3>1, <3>2
  <2>2. MaxBatchSize > 0 => Len(batch') <= MaxBatchSize
    BY <1>1, <1>2 DEF FirstComeFirstServed
  <2> QED
    BY <2>1, <2>2 DEF FirstComeFirstServed, Pending, Kwargs
<1>13. r \notin Elements(batch)
  BY <1>1, <1>2 DEF Running, Elements
<1>14. \A s \in Requests : (Calling(s)' <=> (Calling(s) \/ s = r))
  BY <1>1, <1>3 DEF Calling
<1>15. Running'
  <2>1. \A a \in DOMAIN batch : client'[batch[a]] # "new"
    BY <1>2, <1>3, SeqRanges DEF Running
  <2>2. worker = "stream" =>
          \A s \in Elements(batch) :
            (Calling(s)' /\ (s \in finished \/ (s \in errors /\ chunks > 0))) => HasLast(mail[s])
    BY <1>2, <1>13, <1>14, SeqRanges DEF Running
  <2> QED
    BY <1>1, <1>2, <2>1, <2>2 DEF Running, Kwargs, Elements
<1>16. NothingLost'
  <2> SUFFICES ASSUME worker' # "dead", NEW s \in Requests, Calling(s)'
               PROVE  \/ s \in Elements(queue)' \cup Pooled' \/ (Busy' /\ s \in Elements(batch)')
                      \/ \E i \in DOMAIN mail'[s] : mail'[s][i].kind # "chunk"
    BY DEF NothingLost
  <2>1. CASE s = r
    BY <1>5, <2>1
  <2>2. CASE Calling(s)
    <3>1. \/ s \in Elements(queue) \cup Pooled \/ (Busy /\ s \in Elements(batch))
          \/ \E i \in DOMAIN mail[s] : mail[s][i].kind # "chunk"
      BY <1>1, <1>2, <2>2 DEF NothingLost
    <3>2. (Busy' <=> Busy) /\ Elements(batch)' = Elements(batch)
      BY <1>1 DEF Busy, Elements
    <3> QED
      BY <1>1, <1>5, <1>11, <3>1, <3>2
  <2> QED
    BY <1>14, <2>1, <2>2
<1>17. StreamsWhole' /\ DiesOfClosedLoopOnly' /\ Mailbox'
  BY <1>1, <1>2, <1>3 DEF StreamsWhole, DiesOfClosedLoopOnly, Mailbox, Elements
<1> QED
  BY <1>8, <1>9, <1>10, <1>12, <1>15, <1>16, <1>17 DEF IInv
-----------------------------------------------------------------------------
(* The first of the queue joins the task of its key, or founds it.         *)

TaskType == [kwargs : Kinds, data : Seq(Requests)]

(* n is the place of that task.                                            *)
Grouping(r, n) ==
  /\ n \in DOMAIN pool' /\ DOMAIN pool \subseteq DOMAIN pool'
  /\ pool'[n].kwargs = Kwargs(r)
  /\ \A t \in DOMAIN pool' \ {n} : t \in DOMAIN pool /\ pool'[t] = pool[t]
  /\ \/ /\ n \in DOMAIN pool /\ pool[n].kwargs = Kwargs(r)
        /\ pool'[n].data = Append(pool[n].data, r)
     \/ /\ n \notin DOMAIN pool /\ pool'[n].data = <<r>>
        /\ \A t \in DOMAIN pool : pool[t].kwargs # Kwargs(r)

LEMMA GroupEffect ==
  ASSUME TypeOK, Tasks, Group
  PROVE  /\ queue # << >> /\ queue' = Tail(queue) /\ Head(queue) \in Requests
         /\ pool' \in Seq(TaskType)
         /\ \E n : Grouping(Head(queue), n)
<1> DEFINE r == Head(queue)
           Same == {i \in DOMAIN pool : Key(pool[i].kwargs) = Key(Kwargs(r))}
<1>1. /\ queue # << >> /\ queue' = Tail(queue)
      /\ pool' = IF Same = {}
                   THEN Append(pool, [kwargs |-> Kwargs(r), data |-> <<r>>])
                   ELSE [i \in DOMAIN pool |->
                           IF i \in Same THEN [pool[i] EXCEPT !.data = Grouped(@, r)] ELSE pool[i]]
  BY DEF Group
<1>2. r \in Requests
  BY <1>1, HeadTailProperties DEF TypeOK
<1> HIDE DEF r
<1>3. Same = {i \in DOMAIN pool : pool[i].kwargs = Kwargs(r)}
  BY DEF Key
<1>4. pool \in Seq(TaskType) /\ DOMAIN pool = 1 .. Len(pool) /\ Len(pool) \in Nat
  BY SeqRanges DEF TypeOK, TaskType
<1>5. CASE Same = {}
  <2> DEFINE e == [kwargs |-> Kwargs(r), data |-> <<r>>]
  <2>1. e \in TaskType /\ e.kwargs = Kwargs(r) /\ e.data = <<r>>
    BY <1>2, Kwargs_Type DEF TaskType
  <2>2. pool' = Append(pool, e)
    BY <1>1, <1>5
  <2> HIDE DEF e, Same
  <2>3. /\ pool' \in Seq(TaskType) /\ pool'[Len(pool) + 1] = e /\ Len(pool) + 1 \in DOMAIN pool'
        /\ \A i \in DOMAIN pool : i \in DOMAIN pool' /\ pool'[i] = pool[i] /\ i < Len(pool) + 1
        /\ \A i \in DOMAIN pool' : i = Len(pool) + 1 \/ i \in DOMAIN pool
    BY <1>4, <2>1, <2>2, AppendHolds
  <2>4. Len(pool) + 1 \notin DOMAIN pool
    BY <1>4
  <2>5. \A t \in DOMAIN pool : pool[t].kwargs # Kwargs(r)
    BY <1>3, <1>5
  <2>6. Grouping(r, Len(pool) + 1)
    BY <2>1, <2>3, <2>4, <2>5 DEF Grouping
  <2> QED
    BY <1>1, <1>2, <2>3, <2>6 DEF r
<1>6. CASE Same # {}
  <2>1. PICK n \in DOMAIN pool : pool[n].kwargs = Kwargs(r)
    BY <1>3, <1>6
  <2>2. \A i \in DOMAIN pool : i \in Same <=> i = n
    BY <1>3, <2>1 DEF Tasks
  <2>3. pool' = [i \in DOMAIN pool |->
                   IF i \in Same THEN [pool[i] EXCEPT !.data = Grouped(@, r)] ELSE pool[i]]
    BY <1>1, <1>6
  <2> HIDE DEF Same
  <2>4. /\ DOMAIN pool' = DOMAIN pool /\ pool'[n] = [pool[n] EXCEPT !.data = Append(@, r)]
        /\ \A t \in DOMAIN pool \ {n} : pool'[t] = pool[t]
    BY <2>1, <2>2, <2>3 DEF Grouped
  <2>5. pool[n] \in TaskType /\ Append(pool[n].data, r) \in Seq(Requests)
    BY <1>2, TaskRanges, AppendHolds DEF TaskType
  <2>6. /\ pool'[n] \in TaskType /\ pool'[n].kwargs = pool[n].kwargs
        /\ pool'[n].data = Append(pool[n].data, r)
    BY <2>4, <2>5 DEF TaskType
  <2>7. pool' \in Seq(TaskType)
    <3>1. pool' = [pool EXCEPT ![n] = pool'[n]]
      <4>1. \A t \in DOMAIN pool : pool'[t] = [pool EXCEPT ![n] = pool'[n]][t]
        BY <2>4
      <4>2. pool' = [t \in DOMAIN pool |-> pool'[t]]
        BY <2>3
      <4> QED
        BY <4>1, <4>2
    <3> QED
      BY <1>4, <2>1, <2>6, <3>1, ExceptSeq
  <2>8. Grouping(r, n)
    BY <2>1, <2>4, <2>6 DEF Grouping
  <2> QED
    BY <1>1, <1>2, <2>7, <2>8 DEF r
<1> QED
  BY <1>5, <1>6

LEMMA GroupKeeps == IInv /\ Group => IInv'
<1> SUFFICES ASSUME IInv, Group PROVE IInv'
  OBVIOUS
<1> DEFINE r == Head(queue)
<1>1. /\ worker = "idle"
      /\ UNCHANGED <<client, arrived, closed, worker, kwargs, batch, errors, finished, chunks,
                     loaded, mail>>
  BY DEF Group, callerVars, batchVars
<1>2. /\ TypeOK /\ Arrivals /\ Tasks /\ Running /\ Mailbox /\ NothingLost /\ FirstComeFirstServed
      /\ StreamsWhole /\ DiesOfClosedLoopOnly /\ queue \in Seq(Requests)
  BY DEF IInv, TypeOK
<1>3. queue # << >> /\ queue' = Tail(queue) /\ r \in Requests /\ pool' \in Seq(TaskType)
  BY <1>2, GroupEffect
<1>4. PICK n : Grouping(r, n)
  BY <1>2, GroupEffect
<1>5. /\ queue' \in Seq(Requests) /\ Len(queue') = Len(queue) - 1 /\ r = queue[1] /\ 1 \in DOMAIN queue
      /\ \A i \in DOMAIN queue' : i + 1 \in DOMAIN queue /\ queue'[i] = queue[i + 1]
  BY <1>2, <1>3, TailHolds
<1>6. Elements(queue) = {r} \cup Elements(queue')
  BY <1>2, <1>3, ElementsAre
<1>7. /\ GroupedCount \in Nat /\ GroupedCount' = GroupedCount + 1 /\ Len(queue) \in Nat \ {0}
      /\ Len(arrived) \in Nat /\ GroupedCount + 1 \in DOMAIN arrived
      /\ arrived[GroupedCount + 1] = r
  BY <1>1, <1>2, <1>5, SeqRanges DEF GroupedCount, Arrivals
<1> HIDE DEF r
<1>8. TypeOK'
  BY <1>1, <1>2, <1>3, <1>5 DEF TypeOK, TaskType, Busy
<1>9. Arrivals'
  <2>1. ASSUME NEW k \in DOMAIN queue' PROVE queue'[k] = arrived[GroupedCount' + k]
    <3>0. k \in Nat
      BY <1>5, LenProperties
    <3>1. GroupedCount + (k + 1) = GroupedCount' + k
      BY <1>7, <3>0
    <3> QED
      BY <1>2, <1>5, <3>1 DEF Arrivals
  <2>2. Len(queue') <= Len(arrived)
    BY <1>2, <1>5, <1>7 DEF Arrivals
  <2> QED
    BY <1>1, <1>2, <2>1, <2>2 DEF Arrivals
<1>10. \A t \in DOMAIN pool : \A a \in DOMAIN pool[t].data :
         /\ pool[t].data[a] \in Requests
         /\ \A i \in DOMAIN arrived : arrived[i] = pool[t].data[a] => i < GroupedCount + 1
         /\ \E p \in 1 .. GroupedCount' : arrived[p] = pool[t].data[a]
  <2> SUFFICES ASSUME NEW t \in DOMAIN pool, NEW a \in DOMAIN pool[t].data
               PROVE  /\ pool[t].data[a] \in Requests
                      /\ \A i \in DOMAIN arrived : arrived[i] = pool[t].data[a] => i < GroupedCount + 1
                      /\ \E p \in 1 .. GroupedCount' : arrived[p] = pool[t].data[a]
    OBVIOUS
  <2>1. PICK p \in 1 .. GroupedCount : arrived[p] = pool[t].data[a]
    BY <1>2 DEF Tasks, Task
  <2>2. p \in DOMAIN arrived /\ p < GroupedCount + 1 /\ p \in 1 .. GroupedCount'
    BY <1>2, <1>7, <2>1, SeqRanges DEF Arrivals, GroupedCount
  <2> QED
    BY <1>2, <2>1, <2>2, TaskRanges DEF Arrivals
<1>11. ASSUME NEW t \in DOMAIN pool'
       PROVE  /\ pool'[t].data # << >> /\ InOrder(pool'[t].data)
              /\ \A a \in DOMAIN pool'[t].data :
                   /\ Kwargs(pool'[t].data[a]) = pool'[t].kwargs
                   /\ \E p \in 1 .. GroupedCount' : arrived[p] = pool'[t].data[a]
  <2>1. CASE t # n
    <3>1. t \in DOMAIN pool /\ pool'[t] = pool[t]
      BY <1>4, <1>11, <2>1 DEF Grouping
    <3> QED
      BY <1>2, <1>10, <3>1 DEF Tasks, Task
  <2>2. CASE t = n /\ n \notin DOMAIN pool
    <3>1. pool'[t].data = <<r>> /\ pool'[t].kwargs = Kwargs(r)
      BY <1>4, <2>2 DEF Grouping
    <3>2. DOMAIN <<r>> = {1} /\ <<r>>[1] = r /\ <<r>> # << >>
      OBVIOUS
    <3>3. GroupedCount + 1 \in 1 .. GroupedCount' /\ arrived[GroupedCount + 1] = r
      BY <1>7
    <3>4. InOrder(<<r>>)
      BY <3>2 DEF InOrder
    <3> QED
      BY <2>2, <3>1, <3>2, <3>3, <3>4
  <2>3. CASE t = n /\ n \in DOMAIN pool
    <3> DEFINE d == pool[n].data
               u == Append(d, r)
    <3>1. pool'[t].data = u /\ pool'[t].kwargs = Kwargs(r) /\ pool[n].kwargs = Kwargs(r)
      BY <1>4, <2>3 DEF Grouping
    <3>2. d \in Seq(Requests) /\ r \in Requests
      BY <1>2, <1>3, <2>3, TaskRanges
    <3>3. /\ u[Len(d) + 1] = r /\ Len(d) + 1 \in DOMAIN u /\ Len(d) \in Nat
          /\ \A i \in DOMAIN d : i \in DOMAIN u /\ u[i] = d[i] /\ i < Len(d) + 1
          /\ \A i \in DOMAIN u : i = Len(d) + 1 \/ i \in DOMAIN d
      BY <3>2, AppendHolds
    <3>4. /\ InOrder(d) /\ \A a \in DOMAIN d : Kwargs(d[a]) = pool[n].kwargs
          /\ \A a \in DOMAIN d :
               /\ \A i \in DOMAIN arrived : arrived[i] = d[a] => i < GroupedCount + 1
               /\ \E p \in 1 .. GroupedCount' : arrived[p] = d[a]
      BY <1>2, <1>10, <2>3 DEF Tasks, Task
    <3>5. DOMAIN d \subseteq Nat
      BY <3>2
    <3> HIDE DEF u, d
    <3>6. u # << >>
      BY <3>3
    <3>7. GroupedCount + 1 \in 1 .. GroupedCount' /\ arrived[GroupedCount + 1] = r
      BY <1>7
    <3>8. \A a \in DOMAIN u : Kwargs(u[a]) = Kwargs(r) /\ \E p \in 1 .. GroupedCount' : arrived[p] = u[a]
      BY <3>1, <3>3, <3>4, <3>7
    <3>9. ASSUME NEW a \in DOMAIN u, NEW b \in DOMAIN u, NEW i \in DOMAIN arrived, NEW j \in DOMAIN arrived,
                 a < b, arrived[i] = u[a], arrived[j] = u[b]
          PROVE  i < j
      <4>1. a \in DOMAIN d /\ u[a] = d[a]
        BY <3>3, <3>5, <3>9
      <4>2. CASE b = Len(d) + 1
        <5>1. j = GroupedCount + 1
          BY <1>2, <1>7, <3>3, <3>9, <4>2 DEF Arrivals
        <5> QED
          BY <3>4, <3>9, <4>1, <5>1
      <4>3. CASE b \in DOMAIN d
        BY <3>3, <3>4, <3>9, <4>1, <4>3 DEF InOrder
      <4> QED
        BY <3>3, <4>2, <4>3
    <3>10. InOrder(u)
      BY <3>9 DEF InOrder
    <3> QED
      BY <2>3, <3>1, <3>6, <3>8, <3>10
  <2> QED
    BY <2>1, <2>2, <2>3
<1>12. \A t, u \in DOMAIN pool' : pool'[t].kwargs = pool'[u].kwargs => t = u
  BY <1>2, <1>4 DEF Grouping, Tasks
<1>13. Tasks'
  BY <1>1, <1>11, <1>12 DEF Tasks, Task, InOrder, Kwargs
<1>14. Pooled' = Pooled \cup {r}
  <2>1. \A x \in Pooled : x \in Pooled'
    <3> SUFFICES ASSUME NEW t \in DOMAIN pool, NEW a \in DOMAIN pool[t].data
                 PROVE  pool[t].data[a] \in Pooled'
      BY DEF Pooled, Elements
    <3>1. t \in DOMAIN pool'
      BY <1>4 DEF Grouping
    <3>2. a \in DOMAIN pool'[t].data /\ pool'[t].data[a] = pool[t].data[a]
      <4>1. CASE t # n
        BY <1>4, <3>1, <4>1 DEF Grouping
      <4>2. CASE t = n
        <5>1. pool'[t].data = Append(pool[t].data, r) /\ pool[t].data \in Seq(Requests)
          BY <1>2, <1>4, <4>2, TaskRanges DEF Grouping
        <5> QED
          BY <1>3, <5>1, AppendHolds
      <4> QED
        BY <4>1, <4>2
    <3> QED
      BY <3>1, <3>2 DEF Pooled, Elements
  <2>2. r \in Pooled' /\ \A a \in DOMAIN pool'[n].data : pool'[n].data[a] \in Pooled \cup {r}
    <3>1. n \in DOMAIN pool'
      BY <1>4 DEF Grouping
    <3>2. CASE n \in DOMAIN pool
      <4>1. pool'[n].data = Append(pool[n].data, r) /\ pool[n].data \in Seq(Requests)
        BY <1>2, <1>4, <3>2, TaskRanges DEF Grouping
      <4>2. /\ pool'[n].data[Len(pool[n].data) + 1] = r /\ Len(pool[n].data) + 1 \in DOMAIN pool'[n].data
            /\ \A i \in DOMAIN pool[n].data : pool'[n].data[i] = pool[n].data[i]
            /\ \A i \in DOMAIN pool'[n].data : i = Len(pool[n].data) + 1 \/ i \in DOMAIN pool[n].data
        BY <1>3, <4>1, AppendHolds
      <4> QED
        BY <3>1, <3>2, <4>2 DEF Pooled, Elements
    <3>3. CASE n \notin DOMAIN pool
      <4>1. pool'[n].data = <<r>> /\ DOMAIN <<r>> = {1} /\ <<r>>[1] = r
        BY <1>4, <3>3 DEF Grouping
      <4> QED
        BY <3>1, <4>1 DEF Pooled, Elements
    <3> QED
      BY <3>2, <3>3
  <2>3. \A x \in Pooled' : x \in Pooled \cup {r}
    <3> SUFFICES ASSUME NEW t \in DOMAIN pool', NEW a \in DOMAIN pool'[t].data
                 PROVE  pool'[t].data[a] \in Pooled \cup {r}
      BY DEF Pooled, Elements
    <3>1. CASE t = n
      BY <2>2, <3>1
    <3>2. CASE t # n
      BY <1>4, <3>2 DEF Grouping, Pooled, Elements
    <3> QED
      BY <3>1, <3>2
  <2> QED
    BY <2>1, <2>2, <2>3
<1>15. Pending' = Pending
  BY <1>6, <1>14 DEF Pending
<1>16. FirstComeFirstServed'
  <2>1. \A i, j \in DOMAIN arrived :
          (i < j /\ Kwargs(arrived[i]) = Kwargs(arrived[j]) /\ arrived[i] \in Pending)
            => arrived[j] \in Pending
    BY <1>2 DEF FirstComeFirstServed, Pending
  <2>2. MaxBatchSize > 0 => Len(batch) <= MaxBatchSize
    BY <1>2 DEF FirstComeFirstServed
  <2>3. \A i, j \in DOMAIN arrived' :
          (i < j /\ Kwargs(arrived'[i]) = Kwargs(arrived'[j]) /\ arrived'[i] \in Pending')
            => arrived'[j] \in Pending'
    BY <1>1, <1>15, <2>1
  <2> QED
    BY <1>1, <2>2, <2>3 DEF FirstComeFirstServed, Pending, Kwargs
<1>17. Running'
  BY <1>1, <1>2, SeqRanges DEF Running, Kwargs
<1>18. NothingLost'
  <2>1. (Elements(queue) \cup Pooled)' = Elements(queue) \cup Pooled
    BY <1>15 DEF Pending
  <2> QED
    BY <1>1, <1>2, <2>1 DEF NothingLost, Calling, Busy
<1>19. StreamsWhole' /\ DiesOfClosedLoopOnly' /\ Mailbox'
  BY <1>1, <1>2 DEF StreamsWhole, DiesOfClosedLoopOnly, Mailbox
<1> QED
  BY <1>8, <1>9, <1>13, <1>16, <1>17, <1>18, <1>19 DEF IInv
-----------------------------------------------------------------------------
(* A batch is taken: the beginning of the first task; what does not fit    *)
(* stays in its place (d = 0), or the task is gone (d = 1).                *)

Taking(n, d) ==
  LET first == pool[1].data
  IN  /\ n \in 1 .. Len(first) /\ d \in {0, 1}
      /\ batch' \in Seq(Requests) /\ Len(batch') = n
      /\ \A b \in 1 .. n : batch'[b] = first[b]
      /\ DOMAIN pool' = 1 .. Len(pool) - d
      /\ \A t \in DOMAIN pool' : t + d # 1 => t + d \in DOMAIN pool /\ pool'[t] = pool[t + d]
      /\ d = 1 => n = Len(first)
      /\ d = 0 => /\ n < Len(first) /\ pool'[1].kwargs = pool[1].kwargs
                  /\ pool'[1].data \in Seq(Requests) /\ Len(pool'[1].data) = Len(first) - n
                  /\ \A a \in 1 .. Len(first) - n : pool'[1].data[a] = first[n + a]

LEMMA SubSeqHolds ==
  ASSUME NEW S, NEW s \in Seq(S), NEW m \in 1 .. Len(s), NEW n \in 1 .. Len(s), m <= n
  PROVE  /\ SubSeq(s, m, n) \in Seq(S) /\ Len(SubSeq(s, m, n)) = n - m + 1
         /\ \A i \in 1 .. n - m + 1 : SubSeq(s, m, n)[i] = s[m + i - 1]
<1>1. Len(s) \in Nat /\ m \in Int /\ n \in Int
  BY LenProperties
<1>2. \A i \in m .. n : s[i] \in S
  BY <1>1, ElementOfSeq
<1> QED
  BY <1>1, <1>2, SubSeqProperties

LEMMA BatchLengthIs ==
  ASSUME NEW l \in Nat \ {0}
  PROVE  BatchLength(l) \in 1 .. l /\ (MaxBatchSize > 0 => BatchLength(l) <= MaxBatchSize)
BY InferAssumption DEF BatchLength

LEMMA TakeEffect ==
  ASSUME TypeOK, Tasks, TakeBatch
  PROVE  /\ 1 \in DOMAIN pool /\ pool' \in Seq(TaskType) /\ kwargs' = pool[1].kwargs
         /\ \E d : Taking(BatchLength(Len(pool[1].data)), d)
<1> DEFINE task == Head(pool)
           first == pool[1].data
           n == BatchLength(Len(first))
           rest == [task EXCEPT !.data = SubSeq(@, n + 1, Len(@))]
<1>1. /\ pool # << >> /\ kwargs' = task.kwargs /\ batch' = SubSeq(task.data, 1, n)
      /\ pool' = Rest(task, n) \o Tail(pool) /\ task = pool[1]
  <2>1. pool # << >> /\ pool \in Seq(TaskType)
    BY DEF TakeBatch, TypeOK, TaskType
  <2>2. task = pool[1]
    BY <2>1, TailHolds
  <2> QED
    BY <2>1, <2>2 DEF TakeBatch
<1>2. pool \in Seq(TaskType) /\ Len(pool) \in Nat /\ DOMAIN pool = 1 .. Len(pool)
  BY SeqRanges DEF TypeOK, TaskType
<1>3. /\ 1 \in DOMAIN pool /\ Tail(pool) \in Seq(TaskType) /\ Len(Tail(pool)) = Len(pool) - 1
      /\ \A i \in DOMAIN Tail(pool) : i + 1 \in DOMAIN pool /\ Tail(pool)[i] = pool[i + 1]
  BY <1>1, <1>2, TailHolds
<1>4. /\ first \in Seq(Requests) /\ Len(first) \in Nat \ {0} /\ task \in TaskType
      /\ task.data = first
  <2>1. first # << >> /\ first \in Seq(Requests) /\ pool[1] \in TaskType
    BY <1>3, TaskRanges DEF Tasks, Task, TaskType
  <2> QED
    BY <1>1, <2>1, EmptySeq
<1>5. n \in 1 .. Len(first)
  BY <1>4, BatchLengthIs
<1> HIDE DEF n, first
<1>6. /\ batch' \in Seq(Requests) /\ Len(batch') = n
      /\ \A b \in 1 .. n : batch'[b] = first[b]
  <2>1. 1 \in 1 .. Len(first) /\ 1 <= n /\ n - 1 + 1 = n /\ \A b \in 1 .. n : 1 + b - 1 = b
    BY <1>4, <1>5
  <2>2. /\ SubSeq(first, 1, n) \in Seq(Requests) /\ Len(SubSeq(first, 1, n)) = n - 1 + 1
        /\ \A b \in 1 .. n - 1 + 1 : SubSeq(first, 1, n)[b] = first[1 + b - 1]
    BY <1>4, <1>5, <2>1, SubSeqHolds
  <2>3. batch' = SubSeq(first, 1, n)
    BY <1>1, <1>4
  <2> QED
    BY <2>1, <2>2, <2>3
<1>7. CASE ~ (n < Len(first))
  <2>1. Rest(task, n) = << >>
    BY <1>4, <1>7 DEF Rest
  <2>2. pool' = Tail(pool)
    BY <1>1, <1>3, <2>1, ConcatEmptySeq
  <2>3. DOMAIN pool' = 1 .. Len(pool) - 1
    BY <1>3, <2>2, LenProperties
  <2>4. n = Len(first)
    BY <1>4, <1>5, <1>7
  <2>5. Taking(n, 1)
    BY <1>3, <1>5, <1>6, <2>2, <2>3, <2>4 DEF Taking, first
  <2> QED
    BY <1>1, <1>3, <2>2, <2>5 DEF n, first
<1>8. CASE n < Len(first)
  <2> HIDE DEF task
  <2>1. Rest(task, n) = <<rest>>
    BY <1>4, <1>8 DEF Rest
  <2>2. /\ n + 1 \in 1 .. Len(first) /\ n + 1 <= Len(first) /\ Len(first) \in 1 .. Len(first)
        /\ Len(first) - (n + 1) + 1 = Len(first) - n /\ Len(first) - n \in Nat \ {0}
        /\ \A a \in 1 .. Len(first) - n : (n + 1) + a - 1 = n + a
    BY <1>4, <1>5, <1>8
  <2> DEFINE s == SubSeq(first, n + 1, Len(first))
  <2>3. /\ s \in Seq(Requests) /\ Len(s) = Len(first) - n
        /\ \A a \in 1 .. Len(first) - n : s[a] = first[n + a]
    <3>1. /\ s \in Seq(Requests) /\ Len(s) = Len(first) - (n + 1) + 1
          /\ \A a \in 1 .. Len(first) - (n + 1) + 1 : s[a] = first[(n + 1) + a - 1]
      BY <1>4, <2>2, SubSeqHolds
    <3> HIDE DEF s
    <3> QED
      BY <2>2, <3>1
  <2>4. rest = [task EXCEPT !.data = s]
    BY <1>4
  <2> HIDE DEF s, rest
  <2>5. rest \in TaskType /\ rest.kwargs = task.kwargs /\ rest.data = s
    BY <1>4, <2>3, <2>4 DEF TaskType
  <2>6. <<rest>> \in Seq(TaskType) /\ Len(<<rest>>) = 1 /\ DOMAIN <<rest>> = {1} /\ <<rest>>[1] = rest
    BY <2>5
  <2>7. pool' = <<rest>> \o Tail(pool)
    BY <1>1, <2>1
  <2>8. /\ pool' \in Seq(TaskType) /\ Len(pool') = 1 + (Len(pool) - 1)
        /\ pool'[1] = rest
        /\ \A i \in DOMAIN Tail(pool) : pool'[i + 1] = Tail(pool)[i]
    <3> DEFINE o == <<rest>>
               u == Tail(pool)
    <3>1. o \in Seq(TaskType) /\ u \in Seq(TaskType) /\ Len(o) = 1 /\ 1 \in DOMAIN o /\ o[1] = rest
          /\ Len(u) = Len(pool) - 1 /\ pool' = o \o u
      BY <1>3, <2>6, <2>7
    <3> HIDE DEF o, u
    <3>2. Len(o \o u) = Len(o) + Len(u)
      BY <3>1, ConcatProperties
    <3>3. /\ o \o u \in Seq(TaskType) /\ (o \o u)[1] = o[1]
          /\ \A i \in DOMAIN u : (o \o u)[i + Len(o)] = u[i]
      BY <3>1, ConcatHolds
    <3> QED
      BY <3>1, <3>2, <3>3 DEF u
  <2>9. DOMAIN pool' = 1 .. Len(pool) /\ 1 + (Len(pool) - 1) = Len(pool)
    BY <1>2, <2>8, LenProperties
  <2>10. \A t \in DOMAIN pool' : t # 1 => t \in DOMAIN pool /\ pool'[t] = pool[t]
    <3> SUFFICES ASSUME NEW t \in DOMAIN pool', t # 1 PROVE t \in DOMAIN pool /\ pool'[t] = pool[t]
      OBVIOUS
    <3>1. t - 1 \in 1 .. Len(pool) - 1 /\ (t - 1) + 1 = t /\ t \in DOMAIN pool
      BY <1>2, <2>9
    <3>2. DOMAIN Tail(pool) = 1 .. Len(pool) - 1
      BY <1>3, LenProperties
    <3> QED
      BY <1>3, <2>8, <3>1, <3>2
  <2>11. \A t \in DOMAIN pool' : t + 0 = t
    BY <1>2, <2>9
  <2>12. Taking(n, 0)
    <3>1. 0 \in {0, 1} /\ DOMAIN pool' = 1 .. Len(pool) - 0
      BY <1>2, <2>9
    <3>2. /\ pool'[1].kwargs = pool[1].kwargs /\ pool'[1].data \in Seq(Requests)
          /\ Len(pool'[1].data) = Len(first) - n
          /\ \A a \in 1 .. Len(first) - n : pool'[1].data[a] = first[n + a]
      BY <1>1, <2>3, <2>5, <2>8
    <3>3. \A t \in DOMAIN pool' : t + 0 # 1 => t + 0 \in DOMAIN pool /\ pool'[t] = pool[t + 0]
      BY <2>10, <2>11
    <3> QED
      BY <1>5, <1>6, <1>8, <3>1, <3>2, <3>3 DEF Taking, first
  <2> QED
    BY <1>1, <1>3, <2>8, <2>12 DEF n, first, task
<1> QED
  BY <1>7, <1>8
LEMMA TakeKeeps == IInv /\ TakeBatch => IInv'
<1> SUFFICES ASSUME IInv, TakeBatch PROVE IInv'
  OBVIOUS
<1> DEFINE first == pool[1].data
           n == BatchLength(Len(first))
<1>1. /\ worker = "idle" /\ queue = << >> /\ worker' = "infer" /\ finished' = {} /\ chunks' = 0
      /\ UNCHANGED <<client, arrived, closed, queue, loaded, mail>>
  BY DEF TakeBatch, callerVars
<1>2. /\ TypeOK /\ Arrivals /\ Tasks /\ Mailbox /\ NothingLost /\ FirstComeFirstServed /\ StreamsWhole
  BY DEF IInv
<1>3. 1 \in DOMAIN pool /\ pool' \in Seq(TaskType) /\ kwargs' = pool[1].kwargs
  BY <1>2, TakeEffect
<1>4. PICK d : Taking(n, d)
  BY <1>2, TakeEffect
<1>5. /\ n \in 1 .. Len(first) /\ d \in {0, 1} /\ batch' \in Seq(Requests) /\ Len(batch') = n
      /\ \A b \in 1 .. n : batch'[b] = first[b]
      /\ DOMAIN pool' = 1 .. Len(pool) - d
      /\ \A t \in DOMAIN pool' : t + d # 1 => t + d \in DOMAIN pool /\ pool'[t] = pool[t + d]
      /\ d = 1 => n = Len(first)
      /\ d = 0 => /\ n < Len(first) /\ pool'[1].kwargs = pool[1].kwargs
                  /\ pool'[1].data \in Seq(Requests) /\ Len(pool'[1].data) = Len(first) - n
                  /\ \A a \in 1 .. Len(first) - n : pool'[1].data[a] = first[n + a]
  BY <1>4 DEF Taking
<1>6. /\ first \in Seq(Requests) /\ Len(first) \in Nat \ {0} /\ DOMAIN first = 1 .. Len(first)
      /\ InOrder(first)
      /\ \A a \in DOMAIN first : /\ Kwargs(first[a]) = pool[1].kwargs
                                 /\ \E p \in 1 .. GroupedCount : arrived[p] = first[a]
  <2>1. first # << >> /\ first \in Seq(Requests) /\ DOMAIN first = 1 .. Len(first)
    BY <1>2, <1>3, TaskRanges DEF Tasks, Task
  <2> QED
    BY <1>2, <1>3, <2>1, EmptySeq DEF Tasks, Task
<1>7. MaxBatchSize > 0 => n <= MaxBatchSize
  BY <1>6, BatchLengthIs
<1>8. Len(pool) \in Nat /\ DOMAIN pool = 1 .. Len(pool)
  BY <1>2, SeqRanges
<1> HIDE DEF n, first
<1>9. n \in Nat /\ Len(first) \in Nat /\ \A b \in 1 .. n : b \in DOMAIN first
  <2>1. n \in 1 .. Len(first) /\ Len(first) \in Nat /\ DOMAIN first = 1 .. Len(first)
    BY <1>5, <1>6, Zenon
  <2> QED
    BY <2>1
<1>10. ASSUME NEW t \in DOMAIN pool'
       PROVE  \/ t + d # 1 /\ t + d \in DOMAIN pool /\ pool'[t] = pool[t + d]
              \/ d = 0 /\ t = 1
  <2>1. t \in Nat \ {0}
    BY <1>5, <1>8
  <2> QED
    BY <1>5, <2>1
<1>11. d = 0 => DOMAIN pool'[1].data = 1 .. Len(first) - n
  BY <1>5, LenProperties
<1>12. ASSUME NEW t \in DOMAIN pool'
       PROVE  /\ pool'[t].data # << >> /\ InOrder(pool'[t].data)
              /\ \A a \in DOMAIN pool'[t].data :
                   /\ Kwargs(pool'[t].data[a]) = pool'[t].kwargs
                   /\ \E p \in 1 .. GroupedCount : arrived[p] = pool'[t].data[a]
  <2>1. CASE t + d \in DOMAIN pool /\ pool'[t] = pool[t + d]
    BY <1>2, <2>1 DEF Tasks, Task
  <2>2. CASE d = 0 /\ t = 1
    <3> DEFINE rest == pool'[1].data
    <3>1. /\ Len(rest) = Len(first) - n /\ DOMAIN rest = 1 .. Len(first) - n
          /\ \A a \in 1 .. Len(first) - n : rest[a] = first[n + a]
          /\ Len(first) - n \in Nat \ {0} /\ pool'[1].kwargs = pool[1].kwargs
      BY <1>5, <1>9, <1>11, <2>2
    <3>2. \A a \in 1 .. Len(first) - n : n + a \in DOMAIN first
      BY <1>6, <1>9
    <3> HIDE DEF rest
    <3>3. rest # << >>
      <4>1. 1 \in DOMAIN rest
        BY <3>1
      <4> QED
        BY <4>1
    <3>4. InOrder(rest)
      <4>1. \A a, b \in 1 .. Len(first) - n : a < b => n + a < n + b
        BY <1>9
      <4> QED
        BY <1>6, <3>1, <3>2, <4>1 DEF InOrder
    <3>5. \A a \in DOMAIN rest : /\ Kwargs(rest[a]) = pool[1].kwargs
                                 /\ \E p \in 1 .. GroupedCount : arrived[p] = rest[a]
      BY <1>6, <3>1, <3>2
    <3> QED
      BY <2>2, <3>1, <3>3, <3>4, <3>5 DEF rest
  <2> QED
    BY <1>10, <2>1, <2>2
<1>13. ASSUME NEW t \in DOMAIN pool', NEW u \in DOMAIN pool', pool'[t].kwargs = pool'[u].kwargs
       PROVE  t = u
  <2>1. /\ t + d \in DOMAIN pool /\ u + d \in DOMAIN pool
        /\ pool'[t].kwargs = pool[t + d].kwargs /\ pool'[u].kwargs = pool[u + d].kwargs
    BY <1>3, <1>5, <1>10
  <2>2. t + d = u + d
    BY <1>2, <1>13, <2>1 DEF Tasks
  <2> QED
    BY <1>5, <1>8, <2>2
<1>14. GroupedCount' = GroupedCount
  BY <1>1 DEF GroupedCount
<1>15. Tasks'
  BY <1>1, <1>12, <1>13, <1>14 DEF Tasks, Task, InOrder, Kwargs
<1>16. ASSUME NEW x \in Pooled
       PROVE  x \in Pooled' \/ \E b \in 1 .. n : x = first[b]
  <2>0. PICK u \in DOMAIN pool : x \in Elements(pool[u].data)
    BY <1>16 DEF Pooled
  <2>1. PICK a \in DOMAIN pool[u].data : x = pool[u].data[a]
    BY <2>0 DEF Elements
  <2>2. CASE u # 1
    <3>1. u - d \in DOMAIN pool' /\ (u - d) + d = u
      BY <1>5, <1>8, <2>1, <2>2
    <3>2. pool'[u - d] = pool[u]
      BY <1>5, <2>2, <3>1
    <3> QED
      BY <2>1, <3>1, <3>2 DEF Pooled, Elements
  <2>3. CASE u = 1 /\ a <= n
    BY <1>6, <2>1, <2>3 DEF first
  <2>4. CASE u = 1 /\ ~ (a <= n)
    <3>1. a \in 1 .. Len(first) /\ x = first[a]
      BY <1>6, <2>1, <2>4 DEF first
    <3>2. d = 0 /\ a - n \in 1 .. Len(first) - n /\ n + (a - n) = a
      BY <1>5, <1>9, <2>4, <3>1
    <3>3. pool'[1].data[a - n] = x /\ a - n \in DOMAIN pool'[1].data /\ 1 \in DOMAIN pool'
      BY <1>3, <1>5, <1>8, <1>11, <3>1, <3>2
    <3> QED
      BY <3>3 DEF Pooled, Elements
  <2> QED
    BY <2>2, <2>3, <2>4
<1>17. ASSUME NEW x \in Pooled'
       PROVE  /\ x \in Pooled
              /\ \/ \E c \in DOMAIN first : n < c /\ x = first[c]
                 \/ \E u \in DOMAIN pool : u # 1 /\ x \in Elements(pool[u].data)
  <2>0. PICK t \in DOMAIN pool' : x \in Elements(pool'[t].data)
    BY <1>17 DEF Pooled, Elements
  <2>1. PICK a \in DOMAIN pool'[t].data : x = pool'[t].data[a]
    BY <2>0 DEF Elements
  <2>2. CASE t + d # 1 /\ t + d \in DOMAIN pool /\ pool'[t] = pool[t + d]
    BY <2>1, <2>2 DEF Pooled, Elements
  <2>3. CASE d = 0 /\ t = 1
    <3>1. a \in 1 .. Len(first) - n /\ x = first[n + a]
      BY <1>5, <1>11, <2>1, <2>3
    <3>2. n + a \in DOMAIN first /\ n < n + a
      BY <1>6, <1>9, <3>1
    <3> QED
      BY <1>3, <3>1, <3>2 DEF first, Pooled, Elements
  <2> QED
    BY <1>10, <2>2, <2>3
<1>18. Elements(queue) = {} /\ Elements(queue)' = {} /\ Pending = Pooled /\ Pending' = Pooled'
  BY <1>1 DEF Elements, Pending
<1>19. FirstComeFirstServed'
  <2>1. ASSUME NEW i \in DOMAIN arrived, NEW j \in DOMAIN arrived, i < j,
               Kwargs(arrived[i]) = Kwargs(arrived[j]), arrived[i] \in Pooled'
        PROVE  arrived[j] \in Pooled'
    <3>1. arrived[i] \in Pooled
      BY <1>17, <2>1
    <3>2. arrived[j] \in Pooled
      BY <1>2, <1>18, <2>1, <3>1 DEF FirstComeFirstServed, Pending
    <3>3. ASSUME NEW b \in 1 .. n, arrived[j] = first[b] PROVE FALSE
      <4>1. b \in DOMAIN first
        BY <1>9
      <4>2. Kwargs(arrived[i]) = pool[1].kwargs
        BY <1>6, <2>1, <3>3, <4>1
      <4>3. ASSUME NEW c \in DOMAIN first, n < c, arrived[i] = first[c] PROVE FALSE
        <5>1. b < c
          BY <1>6, <1>9, <4>3
        <5>2. j < i
          BY <1>6, <3>3, <4>1, <4>3, <5>1 DEF InOrder
        <5> QED
          BY <1>2, <2>1, <5>2, SeqRanges
      <4>4. ASSUME NEW u \in DOMAIN pool, u # 1, arrived[i] \in Elements(pool[u].data) PROVE FALSE
        <5>1. Kwargs(arrived[i]) = pool[u].kwargs
          BY <1>2, <4>4 DEF Tasks, Task, Elements
        <5> QED
          BY <1>2, <1>3, <4>2, <4>4, <5>1 DEF Tasks
      <4> QED
        BY <1>17, <2>1, <4>3, <4>4
    <3> QED
      BY <1>16, <3>2, <3>3
  <2>2. \A i, j \in DOMAIN arrived' :
          (i < j /\ Kwargs(arrived'[i]) = Kwargs(arrived'[j]) /\ arrived'[i] \in Pending')
            => arrived'[j] \in Pending'
    BY <1>1, <1>18, <2>1
  <2>3. MaxBatchSize > 0 => Len(batch') <= MaxBatchSize
    BY <1>5, <1>7
  <2> QED
    BY <2>2, <2>3 DEF FirstComeFirstServed, Pending, Kwargs
<1>20. TypeOK'
  BY <1>1, <1>2, <1>3, <1>5, TaskRanges DEF TypeOK, TaskType, Workers
<1>21. Arrivals'
  BY <1>1, <1>2, <1>14 DEF Arrivals
<1>22. Running'
  <2>1. DOMAIN batch' = 1 .. n
    BY <1>5, LenProperties
  <2>2. ASSUME NEW b \in 1 .. n PROVE Kwargs(batch'[b]) = kwargs' /\ client[batch'[b]] # "new"
    <3>1. b \in DOMAIN first /\ batch'[b] = first[b]
      BY <1>5, <1>9
    <3>2. PICK p \in 1 .. GroupedCount : arrived[p] = first[b]
      BY <1>6, <3>1
    <3>3. p \in DOMAIN arrived
      BY <1>1, <1>2, <3>2, SeqRanges DEF GroupedCount, Arrivals
    <3>4. Kwargs(first[b]) = pool[1].kwargs /\ client[first[b]] # "new"
      BY <1>2, <1>6, <3>1, <3>2, <3>3 DEF Arrivals
    <3> QED
      BY <1>3, <3>1, <3>4
  <2> QED
    BY <1>1, <1>5, <1>7, <2>1, <2>2 DEF Running, Kwargs
<1>23. NothingLost'
  <2> SUFFICES ASSUME NEW r \in Requests, Calling(r)'
               PROVE  \/ r \in Elements(queue)' \cup Pooled' \/ (Busy' /\ r \in Elements(batch)')
                      \/ \E i \in DOMAIN mail'[r] : mail'[r][i].kind # "chunk"
    BY DEF NothingLost
  <2>1. Calling(r) /\ ~ Busy /\ Busy'
    BY <1>1 DEF Calling, Busy
  <2>2. \/ r \in Pooled
        \/ \E i \in DOMAIN mail[r] : mail[r][i].kind # "chunk"
    BY <1>1, <1>2, <1>18, <2>1 DEF NothingLost
  <2>3. ASSUME NEW b \in 1 .. n, r = first[b] PROVE r \in Elements(batch)'
    <3>1. DOMAIN batch' = 1 .. n /\ batch'[b] = r
      BY <1>5, <2>3, LenProperties
    <3> QED
      BY <3>1 DEF Elements
  <2> QED
    BY <1>1, <1>16, <2>1, <2>2, <2>3
<1>24. StreamsWhole' /\ DiesOfClosedLoopOnly' /\ Mailbox'
  BY <1>1, <1>2 DEF StreamsWhole, DiesOfClosedLoopOnly, Mailbox
<1> QED
  BY <1>15, <1>19, <1>20, <1>21, <1>22, <1>23, <1>24 DEF IInv
-----------------------------------------------------------------------------
(* The worker sends: add[r] is what caller r is sent in the step           *)

Sent(add) ==
  /\ add \in [Requests -> Seq(Mails)]
  /\ mail' \in [Requests -> Seq(Mails)]
  /\ \A r \in Requests : /\ Calling(r) => mail'[r] = mail[r] \o add[r]
                         /\ ~ Calling(r) => mail'[r] \in {mail[r], << >>}

LEMMA MailedSends ==
  ASSUME TypeOK, NEW add \in [Requests -> Seq(Mails)], mail' = Mailed(add)
  PROVE  Sent(add)
<1>1. \A r \in Requests : mail[r] \in Seq(Mails) /\ mail[r] \o add[r] \in Seq(Mails)
  BY MoreMail DEF TypeOK
<1>2. mail' = [r \in Requests |-> IF Calling(r) THEN mail[r] \o add[r] ELSE << >>]
  BY DEF Mailed
<1>3. mail' \in [Requests -> Seq(Mails)]
  BY <1>1, <1>2, NoMail
<1> QED
  BY <1>2, <1>3 DEF Sent

LEMMA BeforeIs ==
  /\ \A blockers : Before(blockers) \subseteq Elements(batch)
  /\ TypeOK => Before({}) = Elements(batch)
BY SeqRanges DEF Before, Elements

(* Whoever is reached gets the items, and the exception when the batch     *)
(* stumbles over a closed loop.                                            *)
LEMMA DeliverEffect ==
  ASSUME TypeOK, NEW items \in [Requests -> Seq(Mails)], NEW next, Deliver(items, next)
  PROVE  \E add :
           /\ Sent(add)
           /\ \A r \in Requests :
                \/ add[r] = << >>
                \/ /\ r \in Elements(batch)
                   /\ add[r] \in {items[r], <<Error>>, items[r] \o <<Error>>}
           /\ \/ worker' = next /\ \A r \in Elements(batch) : add[r] = items[r]
              \/ worker' = "dead" /\ \E r \in Elements(batch) : Loop[r] \in closed
<1> DEFINE Closed == {r \in Elements(batch) : Loop[r] \in closed}
           Hit == {r \in Closed : items[r] # << >>}
           first == [r \in Requests |-> IF r \in Before(Hit) THEN items[r] ELSE << >>]
           then == [r \in Requests |-> IF Hit # {} /\ r \in Before(Closed) THEN <<Error>> ELSE << >>]
           add == [r \in Requests |-> first[r] \o then[r]]
<1>1. <<Error>> \in Seq(Mails) /\ << >> \in Seq(Mails)
  BY MailKinds, OneMail, NoMail
<1>2. \A s \in Seq(Mails) : s \o << >> = s /\ << >> \o s = s /\ s \o <<Error>> \in Seq(Mails)
  BY <1>1, ConcatEmptySeq, MoreMail
<1>3. /\ mail' = Mailed([r \in Requests |->
                   (IF r \in Before(Hit) THEN items[r] ELSE << >>)
                   \o (IF Hit # {} /\ r \in Before(Closed) THEN <<Error>> ELSE << >>)])
      /\ worker' = IF Hit = {} THEN next ELSE "dead"
  BY DEF Deliver
<1>4. mail' = Mailed(add)
  <2>1. add = [r \in Requests |->
                   (IF r \in Before(Hit) THEN items[r] ELSE << >>)
                   \o (IF Hit # {} /\ r \in Before(Closed) THEN <<Error>> ELSE << >>)]
    OBVIOUS
  <2> QED
    BY <1>3, <2>1, Zenon
<1>5. /\ Before(Hit) \subseteq Elements(batch) /\ Before(Closed) \subseteq Elements(batch)
      /\ Hit = {} => Before(Hit) = Elements(batch)
      /\ Hit # {} => \E r \in Elements(batch) : Loop[r] \in closed
  BY BeforeIs
<1> HIDE DEF Hit, Closed
<1>6. ASSUME NEW r \in Requests
      PROVE  /\ add[r] \in Seq(Mails)
             /\ \/ add[r] = << >>
                \/ /\ r \in Elements(batch)
                   /\ add[r] \in {items[r], <<Error>>, items[r] \o <<Error>>}
             /\ Hit = {} /\ r \in Elements(batch) => add[r] = items[r]
  <2>1. items[r] \in Seq(Mails) /\ add[r] = first[r] \o then[r]
    OBVIOUS
  <2>2. CASE r \in Before(Hit) /\ Hit # {} /\ r \in Before(Closed)
    <3>1. add[r] = items[r] \o <<Error>>
      BY <2>1, <2>2
    <3> QED
      BY <1>2, <1>5, <2>1, <2>2, <3>1
  <2>3. CASE r \in Before(Hit) /\ ~ (Hit # {} /\ r \in Before(Closed))
    <3>1. add[r] = items[r]
      BY <1>2, <2>1, <2>3
    <3> QED
      BY <1>5, <2>1, <2>3, <3>1
  <2>4. CASE r \notin Before(Hit) /\ Hit # {} /\ r \in Before(Closed)
    <3>1. add[r] = <<Error>>
      BY <1>1, <1>2, <2>1, <2>4
    <3> QED
      BY <1>1, <1>5, <2>4, <3>1
  <2>5. CASE r \notin Before(Hit) /\ ~ (Hit # {} /\ r \in Before(Closed))
    <3>1. add[r] = << >>
      BY <1>1, <1>2, <2>1, <2>5
    <3> QED
      BY <1>1, <1>5, <2>5, <3>1
  <2> QED
    BY <2>2, <2>3, <2>4, <2>5
<1>7. add \in [Requests -> Seq(Mails)]
  BY <1>6
<1> HIDE DEF add
<1>8. Sent(add)
  BY <1>4, <1>7, MailedSends
<1>9. \/ worker' = next /\ \A r \in Elements(batch) : add[r] = items[r]
      \/ worker' = "dead" /\ \E r \in Elements(batch) : Loop[r] \in closed
  BY <1>3, <1>5, <1>6, SeqRanges
<1> QED
  BY <1>6, <1>8, <1>9

(* What a step of the worker must send, for the invariant to be kept.      *)
Works(add) ==
  /\ Sent(add)
  /\ UNCHANGED <<callerVars, taskVars, kwargs, batch>>
  /\ worker \in {"infer", "stream"} /\ worker' \in {"idle", "stream", "blocked", "dead"}
  /\ chunks' \in Nat /\ \A n \in DOMAIN loaded' : loaded'[n] \in STRING
  /\ \A r \in Requests : Calling(r) => EndsWell(add[r]) \/ HasLast(mail[r])
  /\ worker' = "idle" => \A r \in Elements(batch) : HasAnswer(add[r])
  /\ worker' = "stream" =>
       \A r \in Elements(batch) :
         (Calling(r) /\ (r \in finished' \/ (r \in errors' /\ chunks' > 0)))
           => HasLast(mail[r]) \/ HasLast(add[r])
  /\ worker' = "dead" => \E r \in Elements(batch) : Loop[r] \in closed
  /\ \A r \in Requests :
       add[r] = << >> \/ (r \in Elements(batch) /\ Rightly(add[r], Used(kwargs)))

LEMMA WorkerKeeps ==
  ASSUME IInv, NEW add, Works(add)
  PROVE  IInv'
<1> USE DEF Works
<1>0. UNCHANGED <<client, arrived, closed, queue, pool, kwargs, batch>>
  BY DEF callerVars, taskVars
<1>1. Served'
  BY <1>0, ServedSame
<1>2. /\ TypeOK /\ Running /\ Mailbox /\ NothingLost /\ StreamsWhole
      /\ \A r \in Requests : mail[r] \in Seq(Mails) /\ add[r] \in Seq(Mails)
  BY DEF IInv, TypeOK, Sent
<1>3. TypeOK'
  BY <1>0, <1>2 DEF TypeOK, Workers, Busy, Sent
<1>4. \A r \in Requests : Calling(r)' <=> Calling(r)
  BY <1>0 DEF Calling
<1>5. \A r \in Requests : Calling(r) =>
        /\ HasAnswer(mail[r]) \/ HasAnswer(add[r]) => HasAnswer(mail'[r])
        /\ HasLast(mail[r]) \/ HasLast(add[r]) => HasLast(mail'[r])
  BY <1>2, MoreMail DEF Sent
<1>6. Mailbox'
  <2> SUFFICES ASSUME NEW r \in Requests PROVE EndsWell(mail'[r])
    BY DEF Mailbox, EndsWell
  <2>1. mail[r] \in Seq(Mails) /\ add[r] \in Seq(Mails) /\ EndsWell(mail[r])
    BY <1>2 DEF Mailbox
  <2>2. CASE Calling(r)
    BY <2>1, <2>2, MoreMail DEF Sent
  <2>3. CASE ~ Calling(r)
    BY <2>1, <2>3, NoMail DEF Sent
  <2> QED
    BY <2>2, <2>3
<1>7. Running'
  <2>1. worker' = "stream" =>
          \A r \in Elements(batch) :
            (Calling(r)' /\ (r \in finished' \/ (r \in errors' /\ chunks' > 0))) => HasLast(mail'[r])
    BY <1>2, <1>4, <1>5, SeqRanges
  <2>2. Elements(batch)' = Elements(batch)
    BY <1>0 DEF Elements
  <2> QED
    BY <1>1, <2>1, <2>2 DEF Running, Served
<1>8. NothingLost'
  <2> SUFFICES ASSUME worker' # "dead", NEW r \in Requests, Calling(r)'
               PROVE  \/ r \in Elements(queue)' \cup Pooled' \/ (Busy' /\ r \in Elements(batch)')
                      \/ HasAnswer(mail'[r])
    BY DEF NothingLost, HasAnswer
  <2>1. /\ Elements(queue)' = Elements(queue) /\ Pooled' = Pooled
        /\ Elements(batch)' = Elements(batch)
    BY <1>0 DEF Elements, Pooled
  <2>2. \/ r \in Elements(queue) \cup Pooled \/ r \in Elements(batch) \/ HasAnswer(mail[r])
    BY <1>2, <1>4 DEF NothingLost, HasAnswer
  <2>3. CASE worker' = "idle"
    BY <1>4, <1>5, <2>1, <2>2, <2>3
  <2>4. CASE worker' # "idle"
    <3>1. Busy'
      BY <2>4 DEF Busy
    <3> QED
      BY <1>4, <1>5, <2>1, <2>2, <3>1
  <2> QED
    BY <2>3, <2>4
<1>9. StreamsWhole' /\ DiesOfClosedLoopOnly'
  BY <1>0, <1>2 DEF StreamsWhole, DiesOfClosedLoopOnly, Elements
<1> QED
  BY <1>1, <1>3, <1>6, <1>7, <1>8, <1>9 DEF IInv, Served
(* An adapter that is used is loaded, under its name, from some path.      *)
LEMMA LoadedTypes ==
  ASSUME TypeOK, kwargs \in Kinds
  PROVE  /\ \A n \in DOMAIN LoadedWith(kwargs.adapter) : LoadedWith(kwargs.adapter)[n] \in STRING
         /\ Used(kwargs) \in Kinds
<1> DEFINE a == kwargs.adapter
           now == LoadedWith(a)
<1>1. a \in [name : STRING, path : STRING] /\ a.name \in STRING /\ a.path \in STRING
  BY DEF Kinds
<1>2. \A n \in DOMAIN loaded : loaded[n] \in STRING
  BY DEF TypeOK
<1>3. /\ \A n \in DOMAIN now : now[n] \in STRING
      /\ a # NoAdapter => a.name \in DOMAIN now
  BY <1>1, <1>2 DEF LoadedWith
<1>4. Used(kwargs) = IF a = NoAdapter THEN kwargs ELSE [kwargs EXCEPT !.adapter.path = now[a.name]]
  BY DEF Used
<1> HIDE DEF now
<1>5. Used(kwargs) \in Kinds
  <2>1. CASE a = NoAdapter
    BY <1>4, <2>1
  <2>2. CASE a # NoAdapter
    <3>1. now[a.name] \in STRING
      BY <1>3, <2>2
    <3> HIDE DEF now
    <3>2. [kwargs EXCEPT !.adapter.path = now[a.name]] \in Kinds
      BY <3>1 DEF Kinds
    <3> QED
      BY <1>4, <2>2, <3>2
  <2> QED
    BY <2>1, <2>2
<1> QED
  BY <1>3, <1>5 DEF now

LEMMA WorkingTypes ==
  ASSUME IInv, worker \in {"infer", "stream"}
  PROVE  /\ TypeOK /\ kwargs \in Kinds /\ Used(kwargs) \in Kinds /\ chunks \in Nat
         /\ Elements(batch) \subseteq Requests
         /\ \A n \in DOMAIN loaded : loaded[n] \in STRING
         /\ \A n \in DOMAIN LoadedWith(kwargs.adapter) : LoadedWith(kwargs.adapter)[n] \in STRING
<1>1. TypeOK /\ kwargs \in Kinds
  BY DEF IInv, TypeOK, Busy
<1> QED
  BY <1>1, LoadedTypes, SeqRanges DEF TypeOK

LEMMA DeliveredWorks ==
  ASSUME IInv, NEW items \in [Requests -> Seq(Mails)], NEW next \in {"idle", "stream"},
         Deliver(items, next), UNCHANGED <<callerVars, taskVars, kwargs, batch>>,
         worker \in {"infer", "stream"},
         chunks' \in Nat, \A n \in DOMAIN loaded' : loaded'[n] \in STRING,
         \A r \in Elements(batch) :
           /\ Calling(r) => EndsWell(items[r]) \/ HasLast(mail[r])
           /\ Rightly(items[r], Used(kwargs))
           /\ next = "idle" => HasAnswer(items[r])
           /\ (next = "stream" /\ Calling(r) /\ (r \in finished' \/ (r \in errors' /\ chunks' > 0)))
                => HasLast(mail[r]) \/ HasLast(items[r])
  PROVE  \E add : Works(add)
<1>0. TypeOK /\ Elements(batch) \subseteq Requests
  BY WorkingTypes
<1>1. PICK add :
        /\ Sent(add)
        /\ \A r \in Requests :
             \/ add[r] = << >>
             \/ /\ r \in Elements(batch)
                /\ add[r] \in {items[r], <<Error>>, items[r] \o <<Error>>}
        /\ \/ worker' = next /\ \A r \in Elements(batch) : add[r] = items[r]
           \/ worker' = "dead" /\ \E r \in Elements(batch) : Loop[r] \in closed
  BY <1>0, DeliverEffect
<1>2. <<Error>> \in Seq(Mails) /\ EndsWell(<<Error>>) /\ Rightly(<<Error>>, Used(kwargs))
  BY MailKinds, OneMail
<1>3. ASSUME NEW r \in Requests
      PROVE  /\ Calling(r) => EndsWell(add[r]) \/ HasLast(mail[r])
             /\ add[r] = << >> \/ (r \in Elements(batch) /\ Rightly(add[r], Used(kwargs)))
  <2>1. CASE add[r] = << >>
    BY <2>1, NoMail
  <2>2. CASE r \in Elements(batch) /\ add[r] = items[r]
    BY <2>2
  <2>3. CASE r \in Elements(batch) /\ add[r] = <<Error>>
    BY <1>2, <2>3
  <2>4. CASE r \in Elements(batch) /\ add[r] = items[r] \o <<Error>>
    <3>1. items[r] \in Seq(Mails)
      OBVIOUS
    <3>2. EndsWell(items[r]) => EndsWell(add[r])
      BY <1>2, <2>4, <3>1, MoreMail
    <3>3. Rightly(add[r], Used(kwargs))
      BY <1>2, <2>4, <3>1, MoreMail
    <3> QED
      BY <2>4, <3>2, <3>3
  <2> QED
    BY <1>1, <2>1, <2>2, <2>3, <2>4
<1>4. worker' \in {"idle", "stream", "blocked", "dead"}
  BY <1>1
<1>5. worker' = "idle" => \A r \in Elements(batch) : HasAnswer(add[r])
  BY <1>1
<1>6. worker' = "stream" =>
        \A r \in Elements(batch) :
          (Calling(r) /\ (r \in finished' \/ (r \in errors' /\ chunks' > 0)))
            => HasLast(mail[r]) \/ HasLast(add[r])
  BY <1>1
<1>7. worker' = "dead" => \E r \in Elements(batch) : Loop[r] \in closed
  BY <1>1
<1> QED
  BY <1>1, <1>3, <1>4, <1>5, <1>6, <1>7 DEF Works

LEMMA FailsWorks == IInv /\ BatchFails => \E add : Works(add)
<1> SUFFICES ASSUME IInv, BatchFails PROVE \E add : Works(add)
  OBVIOUS
<1> DEFINE Closed == {r \in Elements(batch) : Loop[r] \in closed}
           add == [r \in Requests |-> IF r \in Before(Closed) THEN <<Error>> ELSE << >>]
<1>1. /\ worker \in {"infer", "stream"} /\ mail' = Mailed(add)
      /\ worker' = IF Closed = {} THEN "idle" ELSE "dead"
      /\ loaded' \in {loaded, LoadedWith(kwargs.adapter)}
      /\ UNCHANGED <<callerVars, taskVars, kwargs, batch, errors, finished, chunks>>
  BY DEF BatchFails, AfterFailure, batchVars
<1>2. /\ TypeOK /\ kwargs \in Kinds /\ chunks \in Nat /\ Elements(batch) \subseteq Requests
      /\ \A n \in DOMAIN loaded : loaded[n] \in STRING
      /\ \A n \in DOMAIN LoadedWith(kwargs.adapter) : LoadedWith(kwargs.adapter)[n] \in STRING
  BY <1>1, WorkingTypes
<1>3. /\ <<Error>> \in Seq(Mails) /\ EndsWell(<<Error>>) /\ HasAnswer(<<Error>>)
      /\ Rightly(<<Error>>, Used(kwargs))
      /\ << >> \in Seq(Mails) /\ EndsWell(<< >>)
  BY MailKinds, OneMail, NoMail
<1>4. add \in [Requests -> Seq(Mails)]
  BY <1>3
<1>5. /\ Before(Closed) \subseteq Elements(batch)
      /\ Closed = {} => Before(Closed) = Elements(batch)
      /\ Closed # {} => \E r \in Elements(batch) : Loop[r] \in closed
  BY <1>2, BeforeIs
<1> HIDE DEF Closed
<1>6. \A r \in Requests :
        /\ EndsWell(add[r])
        /\ add[r] = << >> \/ (r \in Elements(batch) /\ Rightly(add[r], Used(kwargs)))
        /\ Closed = {} /\ r \in Elements(batch) => HasAnswer(add[r])
  BY <1>3, <1>5
<1> HIDE DEF add
<1>7. Sent(add)
  BY <1>1, <1>2, <1>4, MailedSends
<1>8. \A n \in DOMAIN loaded' : loaded'[n] \in STRING
  BY <1>1, <1>2
<1>9. worker' = "idle" => \A r \in Elements(batch) : HasAnswer(add[r])
  BY <1>1, <1>2, <1>6
<1>10. worker' = "dead" => \E r \in Elements(batch) : Loop[r] \in closed
  BY <1>1, <1>5
<1>11. worker' \in {"idle", "dead"} /\ chunks' \in Nat
  BY <1>1, <1>2
<1> QED
  BY <1>1, <1>6, <1>7, <1>8, <1>9, <1>10, <1>11 DEF Works
(* What the worker hands out, item by item.                                *)
LEMMA ItemKinds ==
  ASSUME NEW kw \in Kinds
  PROVE  /\ <<Error>> \in Seq(Mails) /\ EndsWell(<<Error>>) /\ HasLast(<<Error>>)
         /\ HasAnswer(<<Error>>) /\ Rightly(<<Error>>, kw)
         /\ <<End>> \in Seq(Mails) /\ HasAnswer(<<End>>) /\ Rightly(<<End>>, kw)
         /\ <<Part("final", kw)>> \in Seq(Mails) /\ EndsWell(<<Part("final", kw)>>)
         /\ HasLast(<<Part("final", kw)>>) /\ HasAnswer(<<Part("final", kw)>>)
         /\ Rightly(<<Part("final", kw)>>, kw)
         /\ <<Part("chunk", kw)>> \in Seq(Mails) /\ EndsWell(<<Part("chunk", kw)>>)
         /\ Rightly(<<Part("chunk", kw)>>, kw)
         /\ << >> \in Seq(Mails) /\ EndsWell(<< >>) /\ Rightly(<< >>, kw)
<1>1. /\ Error \in Mails /\ End \in Mails /\ Error.kind = "error" /\ End.kind = "end"
      /\ Part("final", kw) \in Mails /\ Part("final", kw).kind = "final" /\ Part("final", kw).kw = kw
      /\ Part("chunk", kw) \in Mails /\ Part("chunk", kw).kind = "chunk" /\ Part("chunk", kw).kw = kw
  BY MailKinds
<1>2. /\ <<Error>> \in Seq(Mails) /\ EndsWell(<<Error>>) /\ HasLast(<<Error>>)
      /\ HasAnswer(<<Error>>) /\ Rightly(<<Error>>, kw)
  BY <1>1, OneMail
<1>3. <<End>> \in Seq(Mails) /\ HasAnswer(<<End>>) /\ Rightly(<<End>>, kw)
  BY <1>1, OneMail
<1>4. /\ <<Part("final", kw)>> \in Seq(Mails) /\ EndsWell(<<Part("final", kw)>>)
      /\ HasLast(<<Part("final", kw)>>) /\ HasAnswer(<<Part("final", kw)>>)
      /\ Rightly(<<Part("final", kw)>>, kw)
  BY <1>1, OneMail
<1>5. /\ <<Part("chunk", kw)>> \in Seq(Mails) /\ EndsWell(<<Part("chunk", kw)>>)
      /\ Rightly(<<Part("chunk", kw)>>, kw)
  BY <1>1, OneMail
<1> QED
  BY <1>2, <1>3, <1>4, <1>5, NoMail, Zenon

LEMMA FullWorks == IInv /\ InferFull => \E add : Works(add)
<1> SUFFICES ASSUME IInv, InferFull PROVE \E add : Works(add)
  OBVIOUS
<1> DEFINE kw == Used(kwargs)
           Items(E) == [r \in Requests |-> IF r \in E THEN <<Error>> ELSE <<Part("final", kw)>>]
<1>1. /\ worker = "infer" /\ UNCHANGED <<callerVars, taskVars, kwargs, batch, chunks>>
      /\ \E E \in EncodingErrors :
           /\ loaded' \in {loaded, LoadedWith(kwargs.adapter)}
           /\ Deliver(Items(E), "idle")
  BY DEF InferFull, batchVars
<1>2. PICK E \in EncodingErrors :
        loaded' \in {loaded, LoadedWith(kwargs.adapter)} /\ Deliver(Items(E), "idle")
  BY <1>1
<1>3. /\ kw \in Kinds /\ chunks \in Nat
      /\ \A n \in DOMAIN loaded : loaded[n] \in STRING
      /\ \A n \in DOMAIN LoadedWith(kwargs.adapter) : LoadedWith(kwargs.adapter)[n] \in STRING
      /\ Elements(batch) \subseteq Requests
  BY <1>1, WorkingTypes
<1> HIDE DEF kw
<1>4. \A r \in Requests : /\ Items(E)[r] \in Seq(Mails) /\ EndsWell(Items(E)[r])
                          /\ Rightly(Items(E)[r], kw) /\ HasAnswer(Items(E)[r])
  BY <1>3, ItemKinds
<1>5. Items(E) \in [Requests -> Seq(Mails)]
  BY <1>4
<1>6. \A n \in DOMAIN loaded' : loaded'[n] \in STRING
  BY <1>2, <1>3
<1> DEFINE items == Items(E)
<1> HIDE DEF items, Items
<1>7. /\ items \in [Requests -> Seq(Mails)] /\ Deliver(items, "idle")
      /\ \A r \in Elements(batch) : /\ EndsWell(items[r]) /\ Rightly(items[r], Used(kwargs))
                                    /\ HasAnswer(items[r])
  BY <1>2, <1>3, <1>4, <1>5 DEF items, kw
<1>8. chunks' \in Nat
  BY <1>1, <1>3
<1> QED
  BY <1>1, <1>6, <1>7, <1>8, DeliveredWorks

LEMMA ChunkWorks == IInv /\ StreamChunk => \E add : Works(add)
<1> SUFFICES ASSUME IInv, StreamChunk PROVE \E add : Works(add)
  OBVIOUS
<1> DEFINE kw == Used(kwargs)
           Items(S, F) == [r \in Requests |->
             IF r \in errors THEN <<Error>>
             ELSE IF r \in F THEN <<Part("final", kw)>>
             ELSE IF r \in S THEN <<Part("chunk", kw)>> ELSE << >>]
<1>1. /\ worker = "stream" /\ UNCHANGED <<callerVars, taskVars, kwargs, batch, errors, loaded>>
      /\ chunks' = chunks + 1
      /\ \E S \in SUBSET Unfinished : \E F \in SUBSET S :
           Deliver(Items(S, F), "stream") /\ finished' = finished \cup F
  BY DEF StreamChunk, MissingChunk
<1>2. PICK S \in SUBSET Unfinished : \E F \in SUBSET S :
        Deliver(Items(S, F), "stream") /\ finished' = finished \cup F
  BY <1>1
<1>3. PICK F \in SUBSET S : Deliver(Items(S, F), "stream") /\ finished' = finished \cup F
  BY <1>2
<1>4. /\ kw \in Kinds /\ chunks \in Nat /\ \A n \in DOMAIN loaded : loaded[n] \in STRING
      /\ Elements(batch) \subseteq Requests
  BY <1>1, WorkingTypes
<1>5. \A r \in Elements(batch) :
        (Calling(r) /\ (r \in finished \/ (r \in errors /\ chunks > 0))) => HasLast(mail[r])
  BY <1>1 DEF IInv, Running
<1> HIDE DEF kw
<1> DEFINE items == Items(S, F)
<1>6. \A r \in Requests : /\ items[r] \in Seq(Mails) /\ EndsWell(items[r]) /\ Rightly(items[r], kw)
                          /\ r \in errors \/ r \in F => HasLast(items[r])
  BY <1>4, ItemKinds
<1>7. items \in [Requests -> Seq(Mails)]
  BY <1>6
<1>8. Deliver(items, "stream")
  BY <1>3
<1> HIDE DEF items
<1>9. \A r \in Elements(batch) :
        /\ EndsWell(items[r]) /\ Rightly(items[r], Used(kwargs))
        /\ (Calling(r) /\ (r \in finished' \/ (r \in errors' /\ chunks' > 0)))
             => HasLast(mail[r]) \/ HasLast(items[r])
  BY <1>1, <1>3, <1>4, <1>5, <1>6 DEF kw
<1>10. chunks' \in Nat /\ \A n \in DOMAIN loaded' : loaded'[n] \in STRING
  BY <1>1, <1>4
<1> QED
  BY <1>1, <1>7, <1>8, <1>9, <1>10, DeliveredWorks

LEMMA EndWorks == IInv /\ StreamEnd => \E add : Works(add)
<1> SUFFICES ASSUME IInv, StreamEnd PROVE \E add : Works(add)
  OBVIOUS
<1> DEFINE items == [r \in Requests |-> <<End>>]
<1>1. /\ worker = "stream" /\ chunks > 0 /\ Unfinished = {} /\ Deliver(items, "idle")
      /\ UNCHANGED <<callerVars, taskVars, kwargs, batch, chunks, loaded>>
  BY DEF StreamEnd, batchVars
<1>2. /\ Used(kwargs) \in Kinds /\ chunks \in Nat /\ \A n \in DOMAIN loaded : loaded[n] \in STRING
      /\ Elements(batch) \subseteq Requests
  BY <1>1, WorkingTypes
<1>3. \A r \in Elements(batch) : Calling(r) => HasLast(mail[r])
  <2>1. \A r \in Elements(batch) : r \in errors \/ r \in finished
    BY <1>1 DEF Unfinished
  <2> QED
    BY <1>1, <2>1 DEF IInv, Running
<1>4. <<End>> \in Seq(Mails) /\ HasAnswer(<<End>>) /\ Rightly(<<End>>, Used(kwargs))
  BY <1>2, ItemKinds
<1>5. /\ items \in [Requests -> Seq(Mails)]
      /\ \A r \in Requests : HasAnswer(items[r]) /\ Rightly(items[r], Used(kwargs))
  BY <1>4
<1> HIDE DEF items
<1>6. \A r \in Elements(batch) :
        /\ Calling(r) => HasLast(mail[r])
        /\ Rightly(items[r], Used(kwargs)) /\ HasAnswer(items[r])
  BY <1>2, <1>3, <1>5
<1>7. chunks' \in Nat /\ \A n \in DOMAIN loaded' : loaded'[n] \in STRING
  BY <1>1, <1>2
<1> QED
  BY <1>1, <1>5, <1>6, <1>7, DeliveredWorks

(* A stream that starts, and a generation that dies, send nothing.         *)
LEMMA SilentWorks ==
  ASSUME IInv, worker \in {"infer", "stream"}, UNCHANGED <<callerVars, taskVars, kwargs, batch, mail>>,
         chunks' = chunks, loaded' \in {loaded, LoadedWith(kwargs.adapter)},
         worker' = "blocked" \/ (worker' = "stream" /\ finished' = {} /\ chunks = 0)
  PROVE  \E add : Works(add)
<1> DEFINE add == [r \in Requests |-> << >>]
<1>1. /\ chunks \in Nat /\ \A n \in DOMAIN loaded : loaded[n] \in STRING
      /\ \A n \in DOMAIN LoadedWith(kwargs.adapter) : LoadedWith(kwargs.adapter)[n] \in STRING
      /\ mail \in [Requests -> Seq(Mails)]
  BY WorkingTypes DEF TypeOK
<1>2. \A s \in Seq(Mails) : s \o << >> = s
  BY ConcatEmptySeq
<1>3. add \in [Requests -> Seq(Mails)]
  BY NoMail
<1>4. Sent(add)
  BY <1>1, <1>2, <1>3 DEF Sent
<1>5. \A r \in Requests : add[r] = << >> /\ EndsWell(add[r])
  BY NoMail
<1> HIDE DEF add
<1>6. chunks' \in Nat /\ \A n \in DOMAIN loaded' : loaded'[n] \in STRING
  BY <1>1
<1>7. worker' = "stream" =>
        \A r \in Elements(batch) :
          (Calling(r) /\ (r \in finished' \/ (r \in errors' /\ chunks' > 0)))
            => HasLast(mail[r]) \/ HasLast(add[r])
  BY <1>1
<1>8. worker' \in {"blocked", "stream"}
  OBVIOUS
<1> QED
  BY <1>4, <1>5, <1>6, <1>7, <1>8 DEF Works

LEMMA StartWorks == IInv /\ StartStream => \E add : Works(add)
<1> SUFFICES ASSUME IInv, StartStream PROVE \E add : Works(add)
  OBVIOUS
<1>1. /\ worker = "infer" /\ worker' = "stream"
      /\ loaded' \in {loaded, LoadedWith(kwargs.adapter)}
      /\ UNCHANGED <<callerVars, taskVars, kwargs, batch, mail>>
      /\ chunks' = chunks /\ finished' = finished
  BY DEF StartStream
<1>2. finished = {} /\ chunks = 0
  BY <1>1 DEF IInv, Running
<1> QED
  BY <1>1, <1>2, SilentWorks

LEMMA DiesWorks == IInv /\ GenerateDies => \E add : Works(add)
<1> SUFFICES ASSUME IInv, GenerateDies PROVE \E add : Works(add)
  OBVIOUS
<1>1. /\ worker = "stream" /\ worker' = "blocked" /\ loaded' = loaded /\ chunks' = chunks
      /\ UNCHANGED <<callerVars, taskVars, kwargs, batch, mail>>
  BY DEF GenerateDies, batchVars
<1> QED
  BY <1>1, SilentWorks
-----------------------------------------------------------------------------
(* The invariant                                                           *)

BatchWorks == InferFull \/ StartStream \/ StreamChunk \/ StreamEnd \/ BatchFails \/ GenerateDies

LEMMA BatchWorksKeep == IInv /\ BatchWorks => IInv' /\ \E add : Works(add)
<1>1. IInv /\ BatchWorks => \E add : Works(add)
  BY FullWorks, StartWorks, ChunkWorks, EndWorks, FailsWorks, DiesWorks, Zenon DEF BatchWorks
<1>2. ASSUME IInv, BatchWorks PROVE IInv'
  <2>1. PICK add : Works(add)
    BY <1>1, <1>2
  <2> QED
    BY <1>2, <2>1, WorkerKeeps
<1> QED
  BY <1>1, <1>2

LEMMA NextIs ==
  Next => \/ Group \/ TakeBatch \/ BatchWorks
          \/ \E r \in Requests : Put(r) \/ Await(r) \/ Receive(r) \/ Cancel(r)
          \/ \E l : CloseLoop(l)
BY Zenon DEF Next, Worker, Caller, BatchWorks

LEMMA StutterKeeps == IInv /\ UNCHANGED vars => IInv'
<1> SUFFICES ASSUME IInv, UNCHANGED vars PROVE IInv'
  OBVIOUS
<1>1. /\ UNCHANGED <<arrived, taskVars, batchVars, loaded>>
      /\ client' = client /\ mail' = mail /\ worker' = worker /\ closed' = closed
  BY DEF vars, callerVars
<1>2. client \in [Requests -> Clients] /\ mail \in [Requests -> Seq(Mails)] /\ StreamsWhole
  BY DEF IInv, TypeOK
<1>3. \A s \in Requests :
        /\ client[s] # "new" => client'[s] # "new"
        /\ client'[s] # "ended"
        /\ client'[s] \in {"put", "waiting"} => Calling(s)
        /\ mail'[s] = mail[s]
  BY <1>1, <1>2 DEF Calling, StreamsWhole
<1> QED
  BY <1>1, <1>2, <1>3, CallersKeep

LEMMA Inductive == IInv /\ [Next]_vars => IInv'
<1> SUFFICES ASSUME IInv, [Next]_vars PROVE IInv'
  OBVIOUS
<1>1. CASE Group
  BY <1>1, GroupKeeps
<1>2. CASE TakeBatch
  BY <1>2, TakeKeeps
<1>3. CASE BatchWorks
  BY <1>3, BatchWorksKeep
<1>4. ASSUME NEW r \in Requests, Put(r) PROVE IInv'
  BY <1>4, PutKeeps
<1>5. ASSUME NEW r \in Requests, Await(r) PROVE IInv'
  BY <1>5, AwaitKeeps
<1>6. ASSUME NEW r \in Requests, Receive(r) PROVE IInv'
  BY <1>6, ReceiveKeeps
<1>7. ASSUME NEW r \in Requests, Cancel(r) PROVE IInv'
  BY <1>7, CancelKeeps
<1>8. ASSUME NEW l, CloseLoop(l) PROVE IInv'
  BY <1>8, CloseKeeps
<1>9. CASE UNCHANGED vars
  BY <1>9, StutterKeeps
<1> QED
  BY <1>1, <1>2, <1>3, <1>4, <1>5, <1>6, <1>7, <1>8, <1>9, NextIs, Zenon

LEMMA Invariance == Spec => []IInv
<1> QED
  BY InitInv, Inductive, PTL DEF Spec

(* As long as the worker lives, a caller that waits is accounted for: its  *)
(* request is queued, in the pool or in the batch, or its answer is in its *)
(* mail, however the requests group, batches fill and fail, and callers    *)
(* leave.                                                                  *)
THEOREM NobodyForgotten == Spec => []NothingLost
<1>1. IInv => NothingLost
  BY DEF IInv
<1> QED
  BY <1>1, Invariance, PTL

(* Requests that may share a batch are run in the order in which they      *)
(* arrived, at most max_batch_size together.                               *)
THEOREM InOrderOfArrival == Spec => []FirstComeFirstServed
<1>1. IInv => FirstComeFirstServed
  BY DEF IInv
<1> QED
  BY <1>1, Invariance, PTL

(* A stream never ends without its last chunk or an exception before the   *)
(* end.                                                                    *)
THEOREM WholeStreams == Spec => []StreamsWhole
<1>1. IInv => StreamsWhole
  BY DEF IInv
<1> QED
  BY <1>1, Invariance, PTL

(* A failing batch does not kill the worker thread: only an answer for a   *)
(* caller whose event loop is closed does.                                 *)
THEOREM OnlyClosedLoopsKill == Spec => []DiesOfClosedLoopOnly
<1>1. IInv => DiesOfClosedLoopOnly
  BY DEF IInv
<1> QED
  BY <1>1, Invariance, PTL
-----------------------------------------------------------------------------
(* Everyone gets its own config and adapter                                *)

LEMMA AnsweredIs == AnsweredAsAsked <=> \A r \in Requests : Rightly(mail[r], Kwargs(r))
BY Zenon DEF AnsweredAsAsked, Rightly

(* With adapters that are named apart, the adapter loaded under a name is  *)
(* the one that is asked for, and stays so when it is loaded now.          *)
LEMMA UsedAsAsked ==
  ASSUME NamesDiffer, LoadedAsNamed, NEW q \in Requests
  PROVE  /\ Used(Kwargs(q)) = Kwargs(q)
         /\ \A s \in Requests :
              (Adapter[s] # NoAdapter /\ Adapter[s].name \in DOMAIN LoadedWith(Adapter[q]))
                => LoadedWith(Adapter[q])[Adapter[s].name] = Adapter[s].path
<1> DEFINE a == Adapter[q]
           now == LoadedWith(a)
<1>1. /\ a \in [name : STRING, path : STRING]
      /\ Kwargs(q) = [config |-> Config[q], adapter |-> a] /\ Kwargs(q).adapter = a
  BY InferAssumption DEF Kwargs
<1>2. CASE a = NoAdapter \/ a.name \in DOMAIN loaded
  <2>1. now = loaded
    BY <1>2 DEF LoadedWith
  <2>2. a # NoAdapter => now[a.name] = a.path
    BY <1>2, <2>1 DEF LoadedAsNamed
  <2>3. Used(Kwargs(q)) = IF a = NoAdapter THEN Kwargs(q)
                          ELSE [Kwargs(q) EXCEPT !.adapter.path = now[a.name]]
    BY <1>1 DEF Used
  <2> HIDE DEF now
  <2>4. a # NoAdapter => [Kwargs(q) EXCEPT !.adapter.path = a.path] = Kwargs(q)
    BY <1>1
  <2>5. Used(Kwargs(q)) = Kwargs(q)
    BY <2>2, <2>3, <2>4
  <2>6. \A s \in Requests :
          (Adapter[s] # NoAdapter /\ Adapter[s].name \in DOMAIN now) => now[Adapter[s].name] = Adapter[s].path
    BY <2>1 DEF LoadedAsNamed
  <2> QED
    BY <2>5, <2>6 DEF now
<1>3. CASE a # NoAdapter /\ a.name \notin DOMAIN loaded
  <2>1. now = [n \in DOMAIN loaded \cup {a.name} |-> IF n = a.name THEN a.path ELSE loaded[n]]
    BY <1>3 DEF LoadedWith
  <2>2. /\ now[a.name] = a.path /\ DOMAIN now = DOMAIN loaded \cup {a.name}
        /\ \A n \in DOMAIN loaded : now[n] = loaded[n]
    BY <1>3, <2>1
  <2>3. Used(Kwargs(q)) = [Kwargs(q) EXCEPT !.adapter.path = now[a.name]]
    BY <1>1, <1>3 DEF Used
  <2> HIDE DEF now
  <2>4. [Kwargs(q) EXCEPT !.adapter.path = a.path] = Kwargs(q)
    BY <1>1
  <2>5. Used(Kwargs(q)) = Kwargs(q)
    BY <2>2, <2>3, <2>4
  <2>6. ASSUME NEW s \in Requests, Adapter[s] # NoAdapter, Adapter[s].name \in DOMAIN now
        PROVE  now[Adapter[s].name] = Adapter[s].path
    <3>1. CASE Adapter[s].name \in DOMAIN loaded
      BY <2>2, <2>6, <3>1 DEF LoadedAsNamed
    <3>2. CASE Adapter[s].name = a.name
      <4>1. Adapter[s] = a
        BY <1>3, <2>6, <3>2 DEF NamesDiffer
      <4> QED
        BY <2>2, <4>1
    <3> QED
      BY <2>2, <2>6, <3>1, <3>2
  <2> QED
    BY <2>5, <2>6 DEF now
<1> QED
  BY <1>2, <1>3

(* A batch adds what it was asked for.                                     *)
LEMMA WorksAsAsked ==
  ASSUME NamesDiffer, IInv, Answers, NEW add, Works(add),
         loaded' \in {loaded, LoadedWith(kwargs.adapter)}
  PROVE  Answers'
<1>1. PICK q \in Requests : kwargs = Kwargs(q)
  BY DEF Answers, RunsARequest, Busy, Works
<1>2. kwargs.adapter = Adapter[q]
  BY <1>1 DEF Kwargs
<1>3. /\ Used(kwargs) = kwargs
      /\ \A s \in Requests :
           (Adapter[s] # NoAdapter /\ Adapter[s].name \in DOMAIN LoadedWith(kwargs.adapter))
             => LoadedWith(kwargs.adapter)[Adapter[s].name] = Adapter[s].path
  BY <1>1, <1>2, UsedAsAsked DEF Answers
<1>4. LoadedAsNamed'
  <2>1. CASE loaded' = loaded
    BY <2>1 DEF Answers, LoadedAsNamed
  <2>2. CASE loaded' = LoadedWith(kwargs.adapter)
    BY <1>3, <2>2 DEF LoadedAsNamed
  <2> QED
    BY <2>1, <2>2
<1>5. RunsARequest'
  <2>1. kwargs' = kwargs
    BY DEF Works
  <2> QED
    BY <1>1, <2>1 DEF RunsARequest, Kwargs
<1>6. ASSUME NEW r \in Requests PROVE Rightly(mail'[r], Kwargs(r))
  <2>1. mail[r] \in Seq(Mails) /\ add[r] \in Seq(Mails)
    BY DEF IInv, TypeOK, Works, Sent
  <2>2. Rightly(mail[r], Kwargs(r))
    BY AnsweredIs DEF Answers
  <2>3. Rightly(add[r], Kwargs(r))
    <3>1. CASE add[r] = << >>
      BY <3>1, NoMail
    <3>2. CASE r \in Elements(batch) /\ Rightly(add[r], Used(kwargs))
      <4>1. Kwargs(r) = kwargs
        BY <3>2 DEF IInv, Running, Elements
      <4> QED
        BY <1>3, <3>2, <4>1
    <3> QED
      BY <3>1, <3>2 DEF Works
  <2>4. Rightly(mail[r] \o add[r], Kwargs(r))
    BY <2>1, <2>2, <2>3, MoreMail
  <2>5. mail'[r] \in {mail[r] \o add[r], mail[r], << >>}
    BY DEF Works, Sent
  <2> QED
    BY <2>2, <2>4, <2>5, NoMail
<1>7. AnsweredAsAsked'
  <2> SUFFICES \A r \in Requests : \A i \in DOMAIN mail'[r] :
                 mail'[r][i].kind \in {"chunk", "final"} => mail'[r][i].kw = Kwargs(r)
    BY Zenon DEF AnsweredAsAsked, Kwargs
  <2> QED
    BY <1>6, Zenon DEF Rightly
<1> QED
  BY <1>4, <1>5, <1>7 DEF Answers

(* All other steps leave the mail, read it or drop it.                     *)
LEMMA OthersAsAsked ==
  ASSUME IInv, Answers, loaded' = loaded,
         Busy' => \E r \in Requests : kwargs' = Kwargs(r),
         \A r \in Requests : \/ mail'[r] \in {mail[r], << >>}
                             \/ mail[r] # << >> /\ mail'[r] = Tail(mail[r])
  PROVE  Answers'
<1>1. ASSUME NEW r \in Requests PROVE Rightly(mail'[r], Kwargs(r))
  <2>1. mail[r] \in Seq(Mails) /\ Rightly(mail[r], Kwargs(r))
    BY AnsweredIs DEF IInv, TypeOK, Answers
  <2>2. mail[r] # << >> => Rightly(Tail(mail[r]), Kwargs(r))
    BY <2>1, LessMail
  <2> QED
    BY <2>1, <2>2, NoMail
<1>2. AnsweredAsAsked'
  <2> SUFFICES \A r \in Requests : \A i \in DOMAIN mail'[r] :
                 mail'[r][i].kind \in {"chunk", "final"} => mail'[r][i].kw = Kwargs(r)
    BY Zenon DEF AnsweredAsAsked, Kwargs
  <2> QED
    BY <1>1, Zenon DEF Rightly
<1>3. LoadedAsNamed' /\ RunsARequest'
  BY DEF Answers, LoadedAsNamed, RunsARequest, Kwargs
<1> QED
  BY <1>2, <1>3 DEF Answers

LEMMA AnswersInductive == NamesDiffer /\ IInv /\ Answers /\ [Next]_vars => Answers'
<1> SUFFICES ASSUME NamesDiffer, IInv, Answers, [Next]_vars PROVE Answers'
  OBVIOUS
<1>1. mail \in [Requests -> Seq(Mails)] /\ client \in [Requests -> Clients]
  BY DEF IInv, TypeOK
<1>2. Busy => \E r \in Requests : kwargs = Kwargs(r)
  BY DEF Answers, RunsARequest
<1>3. CASE BatchWorks
  <2>1. PICK add : Works(add)
    BY <1>3, BatchWorksKeep
  <2>2. loaded' \in {loaded, LoadedWith(kwargs.adapter)}
    BY <1>3 DEF BatchWorks, InferFull, StartStream, StreamChunk, StreamEnd, BatchFails, GenerateDies
  <2> QED
    BY <2>1, <2>2, WorksAsAsked
<1>4. CASE Group
  BY <1>2, <1>4, OthersAsAsked DEF Group, Busy, batchVars
<1>5. CASE TakeBatch
  <2>1. kwargs' = Head(pool).kwargs /\ pool # << >> /\ mail' = mail /\ loaded' = loaded
    BY <1>5 DEF TakeBatch
  <2>2. Head(pool) = pool[1] /\ 1 \in DOMAIN pool
    BY <2>1, TailHolds DEF IInv, TypeOK
  <2>3. Task(pool[1])
    BY <2>2 DEF IInv, Tasks
  <2>4. pool[1].data \in Seq(Requests)
    <3>1. pool[1] \in [kwargs : Kinds, data : Seq(Requests)]
      <4> DEFINE T == [kwargs : Kinds, data : Seq(Requests)]
      <4>1. pool \in Seq(T)
        BY DEF IInv, TypeOK
      <4> HIDE DEF T
      <4>2. pool[1] \in T
        BY <2>2, <4>1
      <4> QED
        BY <4>2 DEF T
    <3> QED
      BY <3>1
  <2>5. 1 \in DOMAIN pool[1].data /\ pool[1].data[1] \in Requests
    BY <2>3, <2>4, TailHolds, ElementOfSeq DEF Task
  <2>6. kwargs' = Kwargs(pool[1].data[1])
    BY <2>1, <2>2, <2>3, <2>5 DEF Task
  <2> QED
    BY <2>1, <2>5, <2>6, OthersAsAsked
<1>6. ASSUME NEW r \in Requests, Put(r) \/ Await(r) \/ Receive(r) \/ Cancel(r) PROVE Answers'
  <2>1. loaded' = loaded /\ kwargs' = kwargs /\ (Busy' => Busy)
    BY <1>6 DEF Put, Await, Receive, Cancel, batchVars, Busy
  <2>2. \A s \in Requests : \/ mail'[s] \in {mail[s], << >>}
                            \/ mail[s] # << >> /\ mail'[s] = Tail(mail[s])
    BY <1>1, <1>6 DEF Put, Await, Receive, Cancel
  <2> QED
    BY <1>2, <2>1, <2>2, OthersAsAsked
<1>7. ASSUME NEW l, CloseLoop(l) PROVE Answers'
  <2>1. loaded' = loaded /\ kwargs' = kwargs /\ (Busy' => Busy)
    BY <1>7 DEF CloseLoop, batchVars, Busy
  <2>2. \A s \in Requests : mail'[s] \in {mail[s], << >>}
    BY <1>1, <1>7 DEF CloseLoop
  <2> QED
    BY <1>2, <2>1, <2>2, OthersAsAsked
<1>8. CASE UNCHANGED vars
  BY <1>2, <1>8, OthersAsAsked DEF vars, batchVars, Busy
<1> QED
  BY <1>3, <1>4, <1>5, <1>6, <1>7, <1>8, NextIs, Zenon

(* Whatever shares a batch or came before, a caller is given answers for   *)
(* its own request config and its own adapter, provided that adapters of   *)
(* one name have one path: the worker loads a name once.                   *)
THEOREM OwnConfigAndAdapter ==
  ASSUME NamesDiffer
  PROVE  Spec => []AnsweredAsAsked
<1>1. Init => Answers
  BY DEF Init, Answers, LoadedAsNamed, RunsARequest, Busy, AnsweredAsAsked
<1>2. IInv /\ Answers /\ [Next]_vars => Answers'
  BY AnswersInductive
<1>3. Answers => AnsweredAsAsked
  BY DEF Answers
<1> QED
  BY <1>1, <1>2, <1>3, Invariance, PTL DEF Spec
=============================================================================
