---------------------------- MODULE MCInferWorker ----------------------------
(* Small instances of InferWorker for TLC.  Requests are numbers; 1, 2 and *)
(* 3 may share a batch, and so may 4 and 7 unless one of them is streamed; *)
(* 4, 5 and 6 differ in their adapters, and those of 4 and 6 have one name *)
(* and two paths.                                                          *)
EXTENDS InferWorker

CONSTANTS Streams   \* the requests that are streamed

Lora(name, path) == [name |-> name, path |-> path]

MCConfig    == [r \in Requests |-> IF r \in Streams THEN "stream" ELSE "full"]
MCAdapter   == [r \in Requests |-> CASE r \in {4, 7} -> Lora("a", "/adapters/a")
                                     [] r = 5 -> Lora("b", "/adapters/b")
                                     [] r = 6 -> Lora("a", "/adapters/other")
                                     [] OTHER -> NoAdapter]
MCLoop      == [r \in Requests |-> IF r \in {1, 4} THEN "main" ELSE "other"]
MCStreaming == {"stream"}
=============================================================================
