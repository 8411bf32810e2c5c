------------------------ MODULE MCWorkerCapacityWatcher ------------------------
(* Constants for TLC: two slices that may hold one endpoint each.          *)
EXTENDS WorkerCapacityWatcher

CONSTANTS s1, s2, e1

MCSlice    == {s1, s2}
MCEndpoint == {e1}
==============================================================================
