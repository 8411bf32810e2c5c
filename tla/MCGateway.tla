------------------------------- MODULE MCGateway -------------------------------
(* Constants for TLC: two requests for one slot, and files that load or do *)
(* not for each of the reasons the code has.                               *)
EXTENDS Gateway, TLC

CONSTANTS r1, r2

MCRequest == {r1, r2}
MCEnv     == "A_KEY" :> "ka" @@ "B_KEY" :> "kb" @@ "ALSO_A_KEY" :> "ka" @@ "EMPTY_KEY" :> ""
MCToken   == {"ka", "kx"}

Entry(id, weight, key_env) == [id |-> id, weight |-> weight, key_env |-> key_env]

Base == [caps_enabled |-> TRUE, num_workers |-> 1, cap_per_worker |-> 1,
         tenants |-> <<Entry("a", 1, "A_KEY"), Entry("b", 2, "B_KEY")>>]

Block == [enabled |-> TRUE, complete |-> TRUE, acceptable |-> TRUE]

Without(map, key) == [k \in DOMAIN map \ {key} |-> map[k]]

(* Both controllers and a tenant listed twice; a shared key, the later     *)
(* entry in effect; the same with an empty id there; caps off.             *)
Valid ==
    {[Base EXCEPT !.tenants = @ \o <<Entry("a", 3, "A_KEY")>>]
         @@ [aimd |-> Block, worker_watcher |-> Block],
     [Base EXCEPT !.tenants = @ \o <<Entry("c", 1, "ALSO_A_KEY")>>],
     [Base EXCEPT !.tenants = @ \o <<Entry("", 1, "ALSO_A_KEY")>>],
     [Base EXCEPT !.caps_enabled = FALSE] @@ [worker_watcher |-> Block]}

Invalid ==
    {Without(Base, "num_workers"),
     [Base EXCEPT !.num_workers = -1],
     [Base EXCEPT !.tenants = <<Entry("a", 1, "UNSET_KEY")>>],
     [Base EXCEPT !.tenants = <<Entry("a", 1, "EMPTY_KEY")>>],
     Base @@ [aimd |-> [Block EXCEPT !.complete = FALSE]],
     Base @@ [aimd |-> [Block EXCEPT !.acceptable = FALSE]],
     Base @@ [worker_watcher |-> [Block EXCEPT !.complete = FALSE]]}

MCRawConfigs == Valid \cup Invalid
================================================================================
