------------------------ MODULE WorkerCapacityWatcher ------------------------
(***************************************************************************)
(* app/scheduler/watcher.py: the task that follows the EndpointSlices of   *)
(* the engine Service and sets the scheduler's num_workers to the number   *)
(* of Ready endpoints.                                                     *)
(*                                                                         *)
(* The cluster and its watch are external: a new stream first lists the    *)
(* slices that exist, in any order, then reports every change; a stream    *)
(* that ends loses what it has not delivered, and nothing reports what     *)
(* happens while none is open.                                             *)
(***************************************************************************)
EXTENDS Integers, Sequences, FiniteSets, Functions, SequencesExt

CONSTANTS
    Slice,        \* names of EndpointSlices
    Endpoint,     \* endpoints a slice may hold
    InitWorkers,  \* num_workers of the config
    MaxChanges,   \* bound on the changes of the cluster
    MaxEnds       \* bound on the streams that end or fail to open

ASSUME WatcherAssumption ==
    /\ IsFiniteSet(Slice) /\ IsFiniteSet(Endpoint)
    /\ InitWorkers \in Nat /\ MaxChanges \in Nat /\ MaxEnds \in Nat

(* conditions.ready of an endpoint: True, False, or unknown (None).        *)
Condition == {"true", "false", "unknown"}

(* The endpoints of a slice with their conditions.                         *)
Endpoints == UNION {[E -> Condition] : E \in SUBSET Endpoint}

VARIABLES
    cluster,       \* the slices that exist: name -> endpoints
    pc,            \* where the watcher task is
    feed,          \* events of the open stream not yet delivered
    counts,        \* self._slice_ready_counts
    lastObserved,  \* self._last_observed, -1 for None
    numWorkers,    \* the scheduler's num_workers
    changes, ends  \* how often the cluster changed and streams ended so far

vars == <<cluster, pc, feed, counts, lastObserved, numWorkers, changes, ends>>

(* _count_ready_endpoints: only an explicit True counts.  CountNotFalse,   *)
(* StreamOpensAnew and TotalFromNone are faulty variants of the definition *)
(* that follows each: no specification uses them, they serve to show that  *)
(* the properties notice the fault.                                        *)
CountNotFalse(eps) == Cardinality({e \in DOMAIN eps : eps[e] # "false"})

CountReady(eps) == Cardinality({e \in DOMAIN eps : eps[e] = "true"})

(* A watch event; ADDED and MODIFIED are handled alike, one name serves.   *)
Event == [type : {"MODIFIED", "DELETED"}, name : Slice, object : Endpoints]

TypeOK ==
    /\ \E S \in SUBSET Slice : cluster \in [S -> Endpoints]
    /\ pc \in {"opening", "consuming", "backoff", "aborted", "stopped"}
    /\ feed \in Seq(Event)
    /\ \E S \in SUBSET Slice : counts \in [S -> Nat]
    /\ lastObserved \in Nat \cup {-1}
    /\ numWorkers \in Nat
    /\ changes \in 0 .. MaxChanges /\ ends \in 0 .. MaxEnds

Init ==
    /\ \E S \in SUBSET Slice : cluster \in [S -> Endpoints]
    /\ pc = "opening" /\ feed = <<>>
    /\ counts = <<>> /\ lastObserved = -1 /\ numWorkers = InitWorkers
    /\ changes = 0 /\ ends = 0

-----------------------------------------------------------------------------
(* External: the cluster changes, and the open stream will say so.         *)
Report(type, name, object) ==
    feed' = IF pc = "consuming"
            THEN Append(feed, [type |-> type, name |-> name, object |-> object])
            ELSE feed

PutSlice(name, eps) ==
    /\ changes < MaxChanges /\ changes' = changes + 1
    /\ cluster' = [n \in DOMAIN cluster \cup {name} |->
                      IF n = name THEN eps ELSE cluster[n]]
    /\ cluster' # cluster
    /\ Report("MODIFIED", name, eps)
    /\ UNCHANGED <<pc, counts, lastObserved, numWorkers, ends>>

DeleteSlice(name) ==
    /\ changes < MaxChanges /\ changes' = changes + 1
    /\ name \in DOMAIN cluster
    /\ cluster' = [n \in DOMAIN cluster \ {name} |-> cluster[n]]
    /\ Report("DELETED", name, cluster[name])
    /\ UNCHANGED <<pc, counts, lastObserved, numWorkers, ends>>

-----------------------------------------------------------------------------
Present(name) == [type |-> "MODIFIED", name |-> name, object |-> cluster[name]]

(* External: what a new stream may deliver first.                          *)
Listings ==
    {[i \in DOMAIN order |-> Present(order[i])] : order \in SetToSeqs(DOMAIN cluster)}

(* _make_stream() and the first response; the counts of an earlier stream  *)
(* are kept.                                                               *)
StreamOpensAnew ==
    /\ pc = "opening"
    /\ pc' = "consuming"
    /\ feed' \in Listings
    /\ counts' = <<>>
    /\ UNCHANGED <<cluster, lastObserved, numWorkers, changes, ends>>

StreamOpens ==
    /\ pc = "opening"
    /\ pc' = "consuming"
    /\ feed' \in Listings
    /\ UNCHANGED <<cluster, counts, lastObserved, numWorkers, changes, ends>>

(* sum(self._slice_ready_counts.values()), as the size of a disjoint union *)
(* with c[n] elements for each n.                                          *)
Units(c) == UNION {{n} \X (1 .. c[n]) : n \in DOMAIN c}

TotalFromNone(c) == Cardinality(Units(c)) - 1

Total(c) == Cardinality(Units(c))

(* One event of _consume_stream.  set_num_workers does not suspend, its    *)
(* lock is never contended.                                                *)
ConsumeEvent ==
    /\ pc = "consuming" /\ feed # <<>>
    /\ feed' = Tail(feed)
    /\ LET ev == Head(feed) IN
       counts' = IF ev.type = "DELETED"
                 THEN [n \in DOMAIN counts \ {ev.name} |-> counts[n]]
                 ELSE [n \in DOMAIN counts \cup {ev.name} |->
                          IF n = ev.name THEN CountReady(ev.object) ELSE counts[n]]
    /\ lastObserved' = Total(counts')
    /\ numWorkers' = IF Total(counts') # lastObserved THEN Total(counts') ELSE numWorkers
    /\ UNCHANGED <<cluster, pc, changes, ends>>

StreamEndsIn(phase) ==
    /\ ends < MaxEnds /\ ends' = ends + 1
    /\ pc' = phase /\ feed' = <<>>
    /\ UNCHANGED <<cluster, counts, lastObserved, numWorkers, changes>>

(* The stream closes normally: reconnect at once.                          *)
StreamCloses == pc = "consuming" /\ StreamEndsIn("opening")

(* Opening or reading fails: sleep, then reconnect.                        *)
StreamFails == pc \in {"opening", "consuming"} /\ StreamEndsIn("backoff")

(* 401 or 403: the loop returns for good.                                  *)
AuthFails == pc \in {"opening", "consuming"} /\ StreamEndsIn("aborted")

BackoffEnds ==
    /\ pc = "backoff" /\ pc' = "opening"
    /\ UNCHANGED <<cluster, feed, counts, lastObserved, numWorkers, changes, ends>>

(* stop() cancels the task, which is suspended at one of its awaits.       *)
Stop ==
    /\ pc \in {"opening", "consuming", "backoff", "aborted"}
    /\ pc' = "stopped" /\ feed' = <<>>
    /\ UNCHANGED <<cluster, counts, lastObserved, numWorkers, changes, ends>>

WatcherStep == StreamOpens \/ ConsumeEvent \/ BackoffEnds

Next ==
    \/ \E n \in Slice : DeleteSlice(n) \/ \E eps \in Endpoints : PutSlice(n, eps)
    \/ WatcherStep
    \/ StreamCloses \/ StreamFails \/ AuthFails \/ Stop

Spec == Init /\ [][Next]_vars

(* The task runs when it can: a stream that may open opens, unless an      *)
(* attempt fails; events are delivered; the sleep ends.                    *)
FairSpec == Spec /\ WF_vars(WatcherStep)

-----------------------------------------------------------------------------
(* Ready endpoints of the cluster.                                         *)
ReadyTotal ==
    Cardinality({p \in Slice \X Endpoint :
                    /\ p[1] \in DOMAIN cluster /\ p[2] \in DOMAIN cluster[p[1]]
                    /\ cluster[p[1]][p[2]] = "true"})

(* Counts of slices that no longer exist and that no event in flight will  *)
(* remove: their deletion fell between two streams.                        *)
Stale == {n \in DOMAIN counts \ DOMAIN cluster :
             \A i \in DOMAIN feed : feed[i].name # n}
StaleTotal == Total([n \in Stale |-> counts[n]])

(* Once the watcher has caught up with an open stream, num_workers is the  *)
(* number of Ready endpoints plus what it still counts of slices deleted   *)
(* while no stream was open (watcher.py:197-214).                          *)
CaughtUp ==
    pc = "consuming" /\ feed = <<>> /\ lastObserved # -1 =>
        numWorkers = ReadyTotal + StaleTotal

(* Every slice that exists is counted as it is, and the feed only repeats  *)
(* how the slices are.                                                     *)
Steady ==
    /\ lastObserved # -1
    /\ \A n \in DOMAIN cluster : n \in DOMAIN counts /\ counts[n] = CountReady(cluster[n])
    /\ \A i \in DOMAIN feed : /\ feed[i].name \in DOMAIN cluster
                              /\ feed[i] = Present(feed[i].name)

(* Only the first listing is summed up slice by slice in plain sight: once *)
(* the slices are counted, streams may end, fail and list them again in    *)
(* any order, and until the cluster changes num_workers does not move      *)
(* (watcher.py:107-131, 197-214).                                          *)
ReconnectIsQuiet ==
    [][Steady /\ UNCHANGED cluster => numWorkers' = numWorkers /\ Steady']_vars

(* The watcher never gets stuck: unless its credentials are refused or it  *)
(* is stopped, num_workers ends at the number of Ready endpoints, given    *)
(* that no deletion was missed and the cluster reported anything at all    *)
(* (watcher.py:104-131, 197-214).                                          *)
Converges ==
    <>[](\/ pc \in {"aborted", "stopped"}
         \/ lastObserved = -1
         \/ Stale # {}
         \/ numWorkers = ReadyTotal)

(* "Current K8s EndpointSlice-observed Ready endpoint count" (the help of  *)
(* gateway_num_workers, metrics.py): with a stream open and nothing in     *)
(* flight, num_workers is the number of Ready endpoints.                   *)
InSync ==
    pc = "consuming" /\ feed = <<>> /\ lastObserved # -1 => numWorkers = ReadyTotal
==============================================================================
