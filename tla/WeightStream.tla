---------------------------- MODULE WeightStream ----------------------------
(***************************************************************************)
(* What one weight synchronisation promises its consumers, whatever        *)
(* transport carries it: the trainer offers a stream of numbered weights,  *)
(* every consumer takes each of them, and a consumer reports success only  *)
(* when it holds the complete stream of this very synchronisation.  The    *)
(* NCCL broadcast (NcclCheckpoint) and the ZMQ/IPC bucket transfer         *)
(* (BucketIpc) are shown to implement this specification.                  *)
(***************************************************************************)
EXTENDS Integers, Sequences

CONSTANTS Consumers,   \* the processes that load the weights
          Streams      \* the weight streams the trainer may offer

VARIABLES stream,      \* the sizes of the weights of the current stream
          loaded,      \* per consumer, the weights of this stream it holds
          phase        \* per consumer: "closed", "open" while it takes weights

vars == <<stream, loaded, phase>>

Weights == DOMAIN stream

Init ==
  /\ stream = << >>
  /\ loaded = [c \in Consumers |-> {}]
  /\ phase = [c \in Consumers |-> "closed"]

(* A synchronisation starts for all consumers together, and never while one *)
(* of them is still taking the previous stream.                             *)
Begin ==
  /\ \A c \in Consumers : phase[c] = "closed"
  /\ stream' \in Streams
  /\ loaded' = [c \in Consumers |-> {}]
  /\ phase' = [c \in Consumers |-> "open"]

(* Weights arrive one at a time or bucket by bucket, each of them once.     *)
Take(c) ==
  /\ phase[c] = "open"
  /\ \E ws \in SUBSET (Weights \ loaded[c]) :
        loaded' = [loaded EXCEPT ![c] = @ \cup ws]
  /\ UNCHANGED <<stream, phase>>

Close(c) ==
  /\ phase[c] = "open"
  /\ loaded[c] = Weights
  /\ phase' = [phase EXCEPT ![c] = "closed"]
  /\ UNCHANGED <<stream, loaded>>

Next == Begin \/ \E c \in Consumers : Take(c) \/ Close(c)

Spec == Init /\ [][Next]_vars
=============================================================================
