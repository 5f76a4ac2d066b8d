--------------------------- MODULE MCStreamPacking ---------------------------
(* Small instances of StreamPacking for TLC: streams that end within and    *)
(* at the end of a round, pieces longer than a pack, and trouble.           *)
EXTENDS StreamPacking

Job(stream, strategy, strict, batchSize, skip) ==
  [stream |-> stream, strategy |-> strategy, strict |-> strict,
   batchSize |-> batchSize, skip |-> skip]

S(lengths)   == [lengths |-> lengths, trouble |-> "none"]
Bad(trouble) == [lengths |-> << >>, trouble |-> trouble]

Mixed   == <<S(<<2>>), S(<<1, 2>>), S(<<3>>), Bad("tooLong"),
             S(<<5>>), S(<<1>>), S(<<2>>), S(<<4>>)>>
Rounds  == <<S(<<1>>), S(<<3>>), S(<<2>>), S(<<2>>), S(<<1>>), S(<<1>>)>>
Invalid == <<S(<<2>>), Bad("invalid"), S(<<2>>), S(<<1>>)>>
Crash   == <<S(<<2>>), S(<<4>>), S(<<1>>), Bad("kills"), S(<<2>>)>>

MCJobs ==
  {Job(s, st, FALSE, b, 0) : s \in {Mixed, Rounds}, st \in {"binpack", "sequential"}, b \in {1, 2}}
    \cup {Job(Mixed, st, FALSE, 1, k) : st \in {"binpack", "sequential"}, k \in {1, 4}}
    \cup {Job(Invalid, "sequential", strict, 1, 0) : strict \in BOOLEAN}
    \cup {Job(Crash, "binpack", FALSE, 1, 0), Job(<< >>, "binpack", FALSE, 1, 0)}
=============================================================================
