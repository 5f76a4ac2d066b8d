--------------------------- MODULE MCRayTrainLoop ---------------------------
(* Small instances of RayTrainLoop for TLC: two workers, each the primary  *)
(* of one of two replicas.                                                 *)
EXTENDS RayTrainLoop

CONSTANTS w0, w1, r0, r1

MCPrimary == [r \in {r0, r1} |-> IF r = r0 THEN w0 ELSE w1]

Setting(colocated, sleepMode, lora, merge, offload, offPolicy, failures) ==
  [colocated |-> colocated, sleepMode |-> sleepMode, lora |-> lora, mergeAndSync |-> merge,
   offload |-> offload, offPolicy |-> offPolicy, failures |-> failures]

(* Colocated: a merged adapter with calls that raise, full weights with    *)
(* and without sleep mode, and a synchronised adapter.  Separate: the      *)
(* adapter with offloading, a merged adapter, and calls that raise.        *)
MCSettings ==
  {Setting(TRUE, TRUE, TRUE, TRUE, FALSE, TRUE, TRUE),
   Setting(TRUE, TRUE, FALSE, TRUE, TRUE, FALSE, FALSE),
   Setting(TRUE, FALSE, FALSE, TRUE, TRUE, FALSE, FALSE),
   Setting(TRUE, TRUE, TRUE, FALSE, FALSE, FALSE, FALSE),
   Setting(FALSE, TRUE, TRUE, FALSE, TRUE, FALSE, FALSE),
   Setting(FALSE, TRUE, TRUE, TRUE, FALSE, TRUE, FALSE),
   Setting(FALSE, TRUE, TRUE, TRUE, TRUE, FALSE, TRUE)}

MCSeparate == {Setting(FALSE, TRUE, FALSE, TRUE, FALSE, FALSE, FALSE)}
=============================================================================
