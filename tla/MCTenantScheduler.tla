-------------------------- MODULE MCTenantScheduler --------------------------
(* Constants for TLC: two tenants of weights 2 and 1, three requests of    *)
(* the first and one of the second; the third finds a full queue, or fills *)
(* the place of one that was given up.                                     *)
EXTENDS TenantScheduler, TLC

CONSTANTS a1, a2, a3, b1

MCWeight   == <<2, 1>>
MCQueueMax == <<2, 1>>
MCRequest  == {a1, a2, a3, b1}
MCTenantOf == [r \in MCRequest |-> IF r = b1 THEN 2 ELSE 1]
MCSymmetry == Permutations({a1, a2, a3})

(* Three requests suffice where no symmetry can be used.                   *)
MCFewRequest  == {a1, a2, b1}
MCFewTenantOf == [r \in MCFewRequest |-> IF r = b1 THEN 2 ELSE 1]
==============================================================================
