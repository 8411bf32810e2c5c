------------------------------- MODULE Registry -------------------------------
(***************************************************************************)
(* load_registry() and TenantRegistry of app/tenants.py: what a parsed     *)
(* tenants.yaml and the environment turn into, as plain operators.  The    *)
(* file is a record with the keys it gives; entries of `tenants` are       *)
(* records with id, key_env and weight, which stands for all else they     *)
(* say.  Of the blocks `aimd` and `worker_watcher` only this matters:      *)
(* whether they are enabled, complete, and acceptable to the constructor.  *)
(***************************************************************************)
EXTENDS Integers, Sequences

CONSTANT Env   \* environment: variable name -> key, for the names that are set

Nobody == [id |-> "unknown"]

(* A block the file does not have is like an empty one.                    *)
Absent == [enabled |-> FALSE, complete |-> FALSE, acceptable |-> FALSE]

(* dict.get with a default.                                                *)
Given(map, key, default) == IF key \in DOMAIN map THEN map[key] ELSE default

LastOf(S) == CHOOSE i \in S : \A j \in S : j <= i
FirstOf(S) == CHOOSE i \in S : \A j \in S : i <= j

-----------------------------------------------------------------------------
(* _parse_aimd() and _parse_worker_watcher() return: a block may lack      *)
(* required fields, or have empty ones, as long as it is not enabled.      *)
Parses(block) == block.enabled => block.complete

(* The key of an entry; an unset variable is as good as an empty one.      *)
Key(entry) == Given(Env, entry.key_env, "")

(* load_registry() returns; otherwise it raises.                           *)
Loads(raw) ==
    /\ {"num_workers", "cap_per_worker", "tenants"} \subseteq DOMAIN raw
    /\ Parses(Given(raw, "aimd", Absent))
    /\ Parses(Given(raw, "worker_watcher", Absent))
    /\ \A i \in DOMAIN raw.tenants : Key(raw.tenants[i]) # ""

(* token_to_id and _by_id: dictionaries filled in the order of the file,   *)
(* in which a later entry replaces an earlier one.                         *)
TokenToId(tenants) ==
    [key \in {Key(tenants[i]) : i \in DOMAIN tenants} |->
        tenants[LastOf({i \in DOMAIN tenants : Key(tenants[i]) = key})].id]

ByIdFirst(tenants) ==
    [id \in {tenants[i].id : i \in DOMAIN tenants} |->
        tenants[FirstOf({i \in DOMAIN tenants : tenants[i].id = id})]]

ById(tenants) ==
    [id \in {tenants[i].id : i \in DOMAIN tenants} |->
        tenants[LastOf({i \in DOMAIN tenants : tenants[i].id = id})]]

LoadRegistry(raw) ==
    [caps_enabled |-> Given(raw, "caps_enabled", FALSE),
     all          |-> raw.tenants,
     by_id        |-> ById(raw.tenants),
     token_to_id  |-> TokenToId(raw.tenants),
     budget       |-> raw.num_workers * raw.cap_per_worker,
     aimd         |-> Given(raw, "aimd", Absent),
     watcher      |-> Given(raw, "worker_watcher", Absent)]

(* TenantRegistry.resolve().                                               *)
Resolve(registry, token) ==
    IF /\ token # "" /\ token \in DOMAIN registry.token_to_id
       /\ registry.token_to_id[token] # ""
    THEN registry.by_id[registry.token_to_id[token]]
    ELSE Nobody

-----------------------------------------------------------------------------
(* The scheduler's own view of the tenants, TenantScheduler.__init__.      *)
Scheduled(registry) ==
    [id \in {registry.all[i].id : i \in DOMAIN registry.all} |->
        registry.all[LastOf({i \in DOMAIN registry.all : registry.all[i].id = id})]]

(* TenantScheduler.start(): a semaphore cannot be created below zero.      *)
SchedulerStarts(registry) == registry.caps_enabled => registry.budget >= 0

(* AIMDController.__init__ finds no value out of its range.                *)
AIMDAccepts(block) == block.acceptable
===============================================================================
