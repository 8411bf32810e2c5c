--------------------------- MODULE MCAIMDController ---------------------------
(* Constants for TLC: three finite edges around the thresholds, and batches *)
(* of every verdict: idle, too few, fast, in the deadband, exactly 99% and  *)
(* just below 99% within an edge, slow, and beyond the last edge.           *)
EXTENDS AIMDController

MCEdges == <<10, 20, 40>>

MCBatches ==
    {<<0, 0, 0, 0>>, <<6, 6, 6, 6>>, <<10, 10, 10, 10>>, <<0, 10, 10, 10>>,
     <<0, 99, 100, 100>>, <<0, 98, 100, 100>>, <<0, 0, 0, 10>>}
==============================================================================
