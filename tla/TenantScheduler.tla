--------------------------- MODULE TenantScheduler ---------------------------
(***************************************************************************)
(* The started TenantScheduler of app/scheduler/core.py (caps on):         *)
(* per-tenant queues, the deficit-round-robin drain task, the global       *)
(* semaphore with deferred contraction, timeouts, cancellation and stop(). *)
(*                                                                         *)
(* One asyncio event loop runs everything.  A coroutine gives the loop     *)
(* back only where it really suspends, so the unit of interleaving is the  *)
(* code between two suspensions.  The drain's run is cut into the steps    *)
(* of its two loops; while it runs (Running) nothing else may step, since  *)
(* `await sem.acquire()` does not suspend when a slot is free.  Callbacks  *)
(* that are ready at the same time run in any order.                       *)
(***************************************************************************)
EXTENDS Integers, Sequences, FiniteSets

CONSTANTS
    NumTenants,   \* tenants are numbered in the order of list(self._states)
    Weight,       \* tenant -> weight, used as its quantum
    QueueMax,     \* tenant -> queue_max
    Request,      \* calls of acquire(), each made at most once
    TenantOf,     \* request -> the tenant it is made for
    InitWorkers, InitCap,   \* num_workers and cap_per_worker of the config
    Workers, Caps,          \* values later given to set_num_workers / set_cap_per_worker
    MaxResizes,   \* bound on how often the budget changes
    DeficitBound  \* bound on a tenant's deficit: visits beyond it are cut off

Tenant == 1 .. NumTenants

ASSUME TenantAssumption ==
    /\ NumTenants \in Nat \ {0}
    /\ Weight \in [Tenant -> Int]
    /\ QueueMax \in [Tenant -> Int]

ASSUME RequestAssumption ==
    /\ IsFiniteSet(Request)
    /\ TenantOf \in [Request -> Tenant]

ASSUME BudgetAssumption ==
    /\ InitWorkers \in Nat /\ InitCap \in Nat
    /\ Workers \subseteq Nat /\ Caps \subseteq Nat
    /\ MaxResizes \in Nat /\ DeficitBound \in Int

VARIABLES
    call,       \* request -> where its acquire() is
    future,     \* request -> state of req.future
    interrupt,  \* request -> what its task is woken with besides the future
    queue,      \* tenant -> state.queue
    live,       \* tenant -> state.live_count
    deficit,    \* tenant -> state.deficit
    pc,         \* where the drain task is
    idx,        \* the tenant the drain visits next
    wakeup,     \* the asyncio.Event self._wakeup
    sem,        \* value of the asyncio.Semaphore self._global_sem
    inflight, pendingShrink, numWorkers, capPerWorker, budget,
    resizes     \* changes of the budget, bounded by MaxResizes

reqVars    == <<call, future, interrupt>>
queueVars  == <<queue, live, deficit>>
resizeVars == <<numWorkers, capPerWorker, budget, resizes>>
slotVars   == <<sem, inflight, pendingShrink>>
vars == <<reqVars, queueVars, pc, idx, wakeup, slotVars, resizeVars>>

(* The drain has the event loop in these states and is suspended, done or  *)
(* cancelled in all others.                                                *)
Running    == pc \in {"top", "inner", "got"}
Suspended  == pc \in {"start", "idle", "blocked", "granted"}
StopPhases == {"unwinding", "returning", "stopped", "flushed"}

TypeOK ==
    /\ call \in [Request -> {"new", "waiting", "held", "released",
                             "shed", "expired", "cancelled"}]
    /\ future \in [Request -> {"none", "pending", "result", "error", "cancelled"}]
    /\ interrupt \in [Request -> {"none", "timeout", "cancel"}]
    /\ queue \in [Tenant -> Seq(Request)]
    /\ live \in [Tenant -> Int]
    /\ deficit \in [Tenant -> Int]
    /\ pc \in {"start", "idle", "blocked", "granted", "top", "inner", "got"}
                  \cup StopPhases
    /\ idx \in Tenant
    /\ wakeup \in BOOLEAN
    /\ sem \in Nat /\ inflight \in Int /\ pendingShrink \in Nat
    /\ numWorkers \in Nat /\ capPerWorker \in Nat /\ budget \in Nat
    /\ resizes \in 0 .. MaxResizes

(* __init__ and start(): the drain task is created but has not run yet.    *)
Init ==
    /\ call = [r \in Request |-> "new"]
    /\ future = [r \in Request |-> "none"]
    /\ interrupt = [r \in Request |-> "none"]
    /\ queue = [t \in Tenant |-> <<>>]
    /\ live = [t \in Tenant |-> 0]
    /\ deficit = [t \in Tenant |-> 0]
    /\ pc = "start" /\ idx = 1 /\ wakeup = FALSE
    /\ numWorkers = InitWorkers /\ capPerWorker = InitCap
    /\ budget = InitWorkers * InitCap
    /\ sem = InitWorkers * InitCap
    /\ inflight = 0 /\ pendingShrink = 0 /\ resizes = 0

-----------------------------------------------------------------------------
(* Operators named after a definition, such as ReleaseSlotKept, are        *)
(* faulty variants of it: no specification uses them, they serve to show   *)
(* that the properties notice the fault.                                   *)

(* asyncio.Semaphore.release(), n times: the drain is the only task that   *)
(* ever waits for a slot, and a slot released while it is blocked is       *)
(* handed to it directly.                                                  *)
SemRelease(n) ==
    /\ sem' = sem + n - (IF pc = "blocked" THEN 1 ELSE 0)
    /\ pc' = IF pc = "blocked" THEN "granted" ELSE pc

(* release(): a slot owed to an earlier contraction is absorbed.           *)
ReleaseSlotOffByOne ==
    /\ inflight' = inflight - 1
    /\ pendingShrink' = pendingShrink - 1
    /\ UNCHANGED <<sem, pc>>

ReleaseSlotBothWays ==
    /\ inflight' = inflight - 1
    /\ pendingShrink' = IF pendingShrink > 0 THEN pendingShrink - 1 ELSE 0
    /\ SemRelease(1)

ReleaseSlotKept ==
    /\ inflight' = inflight - 1
    /\ pendingShrink' = IF pendingShrink > 0 THEN pendingShrink - 1 ELSE 0
    /\ UNCHANGED <<sem, pc>>

ReleaseSlot ==
    /\ inflight' = inflight - 1
    /\ \/ /\ pendingShrink > 0
          /\ pendingShrink' = pendingShrink - 1
          /\ UNCHANGED <<sem, pc>>
       \/ /\ pendingShrink = 0
          /\ SemRelease(1)
          /\ UNCHANGED pendingShrink

(* The logical queue capacity counts live entries, not queued ones.        *)
FullByLength(t) == Len(queue[t]) >= QueueMax[t]
FullPastMax(t)  == live[t] > QueueMax[t]

Full(t) == live[t] >= QueueMax[t]

(* acquire() up to its await: refused at queue_max, else queued.           *)
Acquire(r) ==
    LET t == TenantOf[r] IN
    /\ ~Running /\ call[r] = "new"
    /\ \/ /\ Full(t)
          /\ call' = [call EXCEPT ![r] = "shed"]
          /\ UNCHANGED <<future, queue, live, wakeup>>
       \/ /\ ~Full(t)
          /\ call' = [call EXCEPT ![r] = "waiting"]
          /\ future' = [future EXCEPT ![r] = "pending"]
          /\ queue' = [queue EXCEPT ![t] = Append(@, r)]
          /\ live' = [live EXCEPT ![t] = @ + 1]
          /\ wakeup' = TRUE
    /\ UNCHANGED <<interrupt, deficit, pc, idx, slotVars, resizeVars>>

(* Task.cancel() on a task awaiting req.future: a pending future is        *)
(* cancelled; a settled one keeps its state, and the task is interrupted   *)
(* although its future already has a result.                               *)
Interrupt(r, kind) ==
    /\ interrupt' = [interrupt EXCEPT ![r] = kind]
    /\ future' = [future EXCEPT ![r] = IF @ = "pending" THEN "cancelled" ELSE @]
    /\ UNCHANGED <<call, queueVars, pc, idx, wakeup, slotVars, resizeVars>>

(* The timer of asyncio.wait_for fires.                                    *)
TimerFires(r) ==
    /\ ~Running /\ call[r] = "waiting" /\ interrupt[r] = "none"
    /\ Interrupt(r, "timeout")

(* The caller of acquire() is cancelled; this outranks an expired timer.   *)
CancelCaller(r) ==
    /\ ~Running /\ call[r] = "waiting" /\ interrupt[r] # "cancel"
    /\ Interrupt(r, "cancel")

(* A request's task runs again once its future is settled.                 *)
Awake(r) == ~Running /\ call[r] = "waiting" /\ future[r] # "pending"

(* acquire() returns: the caller holds a slot.                             *)
AcquireReturns(r) ==
    /\ Awake(r) /\ interrupt[r] = "none" /\ future[r] = "result"
    /\ call' = [call EXCEPT ![r] = "held"]
    /\ UNCHANGED <<future, interrupt, queueVars, pc, idx, wakeup, slotVars, resizeVars>>

(* acquire() raises the LimiterTimeout that stop() put into the future.    *)
AcquireStopped(r) ==
    /\ Awake(r) /\ interrupt[r] = "none" /\ future[r] = "error"
    /\ call' = [call EXCEPT ![r] = "shed"]
    /\ UNCHANGED <<future, interrupt, queueVars, pc, idx, wakeup, slotVars, resizeVars>>

(* except asyncio.TimeoutError.                                            *)
AcquireTimesOut(r) ==
    /\ Awake(r) /\ interrupt[r] = "timeout"
    /\ call' = [call EXCEPT ![r] = "expired"]
    /\ live' = [live EXCEPT ![TenantOf[r]] = @ - 1]
    /\ UNCHANGED <<future, interrupt, queue, deficit, pc, idx, wakeup, slotVars, resizeVars>>

(* req.future.done() and not req.future.cancelled().                       *)
SettledIgnored(r) == FALSE

Settled(r) == future[r] \notin {"pending", "cancelled"}

(* except asyncio.CancelledError: a settled future is taken for a slot.    *)
AcquireCancelled(r) ==
    /\ Awake(r) /\ interrupt[r] = "cancel"
    /\ call' = [call EXCEPT ![r] = "cancelled"]
    /\ \/ /\ Settled(r)
          /\ ReleaseSlot
          /\ UNCHANGED live
       \/ /\ ~Settled(r)
          /\ live' = [live EXCEPT ![TenantOf[r]] = @ - 1]
          /\ UNCHANGED <<pc, slotVars>>
    /\ UNCHANGED <<future, interrupt, queue, deficit, idx, wakeup, resizeVars>>

(* The holder of a slot calls release().                                   *)
Release(r) ==
    /\ ~Running /\ call[r] = "held"
    /\ call' = [call EXCEPT ![r] = "released"]
    /\ ReleaseSlot
    /\ UNCHANGED <<future, interrupt, queueVars, idx, wakeup, resizeVars>>

-----------------------------------------------------------------------------
(* New slots of a larger budget are released one by one.                   *)
GrowUnheard(delta) == sem' = sem + delta /\ UNCHANGED <<pc, pendingShrink>>

Grow(delta) == SemRelease(delta) /\ UNCHANGED pendingShrink

(* _resize_budget_locked(): growth is handed to the semaphore at once,     *)
(* contraction is owed by later releases.  _resize_lock is never contended *)
(* (nothing suspends while it is held), so a resize is one step.           *)
ResizeBudget(w, c) ==
    LET delta == w * c - budget IN
    /\ ~Running /\ pc \notin StopPhases /\ resizes < MaxResizes
    /\ resizes' = resizes + (IF delta = 0 THEN 0 ELSE 1)
    /\ numWorkers' = w /\ capPerWorker' = c /\ budget' = w * c
    /\ \/ /\ delta > 0
          /\ Grow(delta)
       \/ /\ delta <= 0
          /\ pendingShrink' = pendingShrink - delta
          /\ UNCHANGED <<sem, pc>>
    /\ UNCHANGED <<reqVars, queueVars, idx, wakeup, inflight>>

(* The lifespan stops both controllers before the scheduler, hence the     *)
(* guard on StopPhases above.                                              *)
SetCapPerWorker(c) == ResizeBudget(numWorkers, c)
SetNumWorkers(w)   == ResizeBudget(w, capPerWorker)

-----------------------------------------------------------------------------
(* The tenant whose queue the drain's inner loop serves: order[idx - 1].   *)
Current == IF idx = 1 THEN NumTenants ELSE idx - 1

AnyQueueNonemptyAtIdx == live[idx] > 0

AnyQueueNonemptyByLength == \E t \in Tenant : queue[t] # <<>>

AnyQueueNonempty == \E t \in Tenant : live[t] > 0

(* The entries _next_live_request does not drop; req.cancelled is set      *)
(* exactly when acquire() leaves through one of its two handlers.          *)
IsLive(r) == call[r] \notin {"expired", "cancelled"} /\ future[r] = "pending"
LiveAtHead(t) == {i \in DOMAIN queue[t] : i = 1 /\ IsLive(queue[t][i])}

LiveAt(t) == {i \in DOMAIN queue[t] : IsLive(queue[t][i])}

DrainResumesAtFirst ==
    /\ \/ pc = "start" /\ pc' = "top" /\ UNCHANGED idx
       \/ pc = "idle" /\ wakeup /\ pc' = "top" /\ idx' = 1
       \/ pc = "granted" /\ pc' = "got" /\ UNCHANGED idx
    /\ UNCHANGED <<reqVars, queueVars, wakeup, slotVars, resizeVars>>

(* The drain is scheduled: first run, _wakeup set, or slot handed over.    *)
DrainResumes ==
    /\ \/ pc = "start" /\ pc' = "top"
       \/ pc = "idle" /\ wakeup /\ pc' = "top"
       \/ pc = "granted" /\ pc' = "got"
    /\ UNCHANGED <<reqVars, queueVars, idx, wakeup, slotVars, resizeVars>>

(* Nothing queued: clear the event and wait for it.                        *)
DrainSleeps ==
    /\ pc = "top" /\ ~AnyQueueNonempty
    /\ wakeup' = FALSE /\ pc' = "idle"
    /\ UNCHANGED <<reqVars, queueVars, idx, slotVars, resizeVars>>

(* One visit of the round: an empty queue forfeits its deficit.            *)
DrainVisits ==
    /\ pc = "top" /\ AnyQueueNonempty
    /\ idx' = (idx % NumTenants) + 1
    /\ \/ /\ live[idx] = 0
          /\ deficit' = [deficit EXCEPT ![idx] = 0]
          /\ pc' = "top"
       \/ /\ live[idx] # 0
          /\ deficit[idx] + Weight[idx] <= DeficitBound
          /\ deficit' = [deficit EXCEPT ![idx] = @ + Weight[idx]]
          /\ pc' = "inner"
    /\ UNCHANGED <<reqVars, queue, live, wakeup, slotVars, resizeVars>>

(* The inner loop's condition and `await self._global_sem.acquire()`.      *)
DrainAcquires ==
    /\ pc = "inner"
    /\ \/ /\ deficit[Current] > 0 /\ live[Current] > 0
          /\ \/ sem > 0 /\ sem' = sem - 1 /\ pc' = "got"
             \/ sem = 0 /\ pc' = "blocked" /\ UNCHANGED sem
       \/ /\ deficit[Current] <= 0 \/ live[Current] <= 0
          /\ pc' = "top" /\ UNCHANGED sem
    /\ UNCHANGED <<reqVars, queueVars, idx, wakeup, inflight, pendingShrink, resizeVars>>

DrainDispatchesNewest ==
    /\ pc = "got"
    /\ \E i \in LiveAt(Current) :
          /\ \A j \in LiveAt(Current) : i >= j
          /\ future' = [future EXCEPT ![queue[Current][i]] = "result"]
          /\ queue' = [queue EXCEPT ![Current] = SubSeq(@, 1, i - 1)]
    /\ live' = [live EXCEPT ![Current] = @ - 1]
    /\ deficit' = [deficit EXCEPT ![Current] = @ - 1]
    /\ inflight' = inflight + 1 /\ pc' = "inner"
    /\ UNCHANGED <<call, interrupt, idx, wakeup, sem, pendingShrink, resizeVars>>

(* A slot in hand: pop up to the first live request and dispatch it.       *)
DrainDispatches ==
    /\ pc = "got"
    /\ \E i \in LiveAt(Current) :
          /\ \A j \in LiveAt(Current) : i <= j
          /\ future' = [future EXCEPT ![queue[Current][i]] = "result"]
          /\ queue' = [queue EXCEPT ![Current] = SubSeq(@, i + 1, Len(@))]
    /\ live' = [live EXCEPT ![Current] = @ - 1]
    /\ deficit' = [deficit EXCEPT ![Current] = @ - 1]
    /\ inflight' = inflight + 1
    /\ pc' = "inner"
    /\ UNCHANGED <<call, interrupt, idx, wakeup, sem, pendingShrink, resizeVars>>

(* A slot in hand and only dead entries: give the slot back.               *)
DrainPutsBack ==
    /\ pc = "got" /\ LiveAt(Current) = {}
    /\ queue' = [queue EXCEPT ![Current] = <<>>]
    /\ deficit' = [deficit EXCEPT ![Current] = 0]
    /\ sem' = sem + 1
    /\ pc' = "top"
    /\ UNCHANGED <<reqVars, live, idx, wakeup, inflight, pendingShrink, resizeVars>>

-----------------------------------------------------------------------------
(* stop(): cancel the drain task.                                          *)
StopCancelsDrain ==
    /\ Suspended
    /\ pc' = IF pc = "granted" THEN "returning" ELSE "unwinding"
    /\ UNCHANGED <<reqVars, queueVars, idx, wakeup, slotVars, resizeVars>>

(* The drain unwinds; Semaphore.acquire() returns a slot already granted.  *)
DrainUnwinds ==
    /\ pc \in {"unwinding", "returning"}
    /\ sem' = sem + (IF pc = "returning" THEN 1 ELSE 0)
    /\ pc' = "stopped"
    /\ UNCHANGED <<reqVars, queueVars, idx, wakeup, inflight, pendingShrink, resizeVars>>

(* The requests stop() fails: those still live in a queue.                 *)
FlushedDeadToo(t) == {queue[t][i] : i \in DOMAIN queue[t]}
FlushedToFirstDead(t) ==
    {queue[t][i] : i \in {j \in LiveAt(t) : 1 .. j \subseteq LiveAt(t)}}

Flushed(t) == {queue[t][i] : i \in LiveAt(t)}

(* The rest of stop(): empty every queue and fail its live requests.       *)
StopFlushes ==
    /\ pc = "stopped"
    /\ future' = [r \in Request |->
                    IF r \in Flushed(TenantOf[r]) THEN "error" ELSE future[r]]
    /\ live' = [t \in Tenant |-> live[t] - Cardinality(Flushed(t))]
    /\ queue' = [t \in Tenant |-> <<>>]
    /\ pc' = "flushed"
    /\ UNCHANGED <<call, interrupt, deficit, idx, wakeup, slotVars, resizeVars>>

-----------------------------------------------------------------------------
(* Everything the drain task does.                                         *)
DrainStep ==
    \/ DrainResumes \/ DrainSleeps \/ DrainVisits
    \/ DrainAcquires \/ DrainDispatches \/ DrainPutsBack \/ DrainUnwinds

(* acquire() after its await.                                              *)
TaskWakes(r) ==
    AcquireReturns(r) \/ AcquireStopped(r) \/ AcquireTimesOut(r) \/ AcquireCancelled(r)

Next ==
    \/ \E r \in Request :
          Acquire(r) \/ TimerFires(r) \/ CancelCaller(r) \/ TaskWakes(r) \/ Release(r)
    \/ \E c \in Caps : SetCapPerWorker(c)
    \/ \E w \in Workers : SetNumWorkers(w)
    \/ DrainStep
    \/ StopCancelsDrain \/ StopFlushes

Spec == Init /\ [][Next]_vars

(* What the loop owes: it runs every callback that is ready, so the drain, *)
(* the tasks of requests and the rest of stop() are weakly fair.  That a   *)
(* holder releases is the caller's part (a `finally`, bounded by the       *)
(* upstream's timeouts).  Arrivals, timers, cancellations, resizes and     *)
(* stop() itself are not fair: nothing relies on a timer to be served.     *)
FairSpec ==
    /\ Spec
    /\ WF_vars(DrainStep) /\ WF_vars(StopFlushes)
    /\ \A r \in Request : WF_vars(TaskWakes(r)) /\ WF_vars(Release(r))

-----------------------------------------------------------------------------
(* Requests of tenant t that wait for a slot; a future that was cancelled  *)
(* still counts until its task has run.                                    *)
Unserved(t) == {r \in Request : /\ TenantOf[r] = t /\ call[r] = "waiting"
                                /\ future[r] \in {"pending", "cancelled"}}

(* Requests of tenant t whose timeout handler ran although their future    *)
(* had been settled first: live_count was decremented for them twice.      *)
Raced(t) == {r \in Request : /\ TenantOf[r] = t /\ call[r] = "expired"
                             /\ future[r] \in {"result", "error"}}

(* Requests that own a dispatched slot, own one nobody will ever return    *)
(* (they timed out after the dispatch), or returned one they never had     *)
(* (cancelled after stop() failed them).                                   *)
Owner  == {r \in Request : \/ call[r] = "held"
                           \/ call[r] = "waiting" /\ future[r] = "result"}
Leaked == {r \in Request : call[r] = "expired" /\ future[r] = "result"}
Ghost  == {r \in Request : call[r] = "cancelled" /\ future[r] = "error"}

(* Slots the drain has taken from the semaphore and not yet dispatched.    *)
Reserved == IF pc \in {"granted", "got", "returning"} THEN 1 ELSE 0

(* No slot is created or lost by any interleaving of acquire, release,     *)
(* resize, cancellation and stop: free, reserved and in-flight slots make  *)
(* up the budget plus the contraction still owed (core.py:142-157, 224-    *)
(* 249, 279-287).                                                          *)
SlotConservation == sem + Reserved + inflight = budget + pendingShrink

(* The in-flight count is the number of slot owners, off by exactly the    *)
(* slots leaked by a timeout that met a dispatch and those returned by     *)
(* callers cancelled during a stop (core.py:121-140, 287).                 *)
InflightExact ==
    inflight = Cardinality(Owner) + Cardinality(Leaked) - Cardinality(Ghost)

(* The budget bounds who holds a slot: owners and leaked slots stay within *)
(* the budget and the contraction still owed, but for slots returned by    *)
(* callers that never had one (core.py:56-57, 142-157, 279-287).           *)
OwnersWithinBudget ==
    Cardinality(Owner) + Cardinality(Leaked)
        <= budget + pendingShrink + Cardinality(Ghost)

(* live_count is the number of unserved requests of the tenant, less one   *)
(* for each of its raced timeouts: cancelled entries that are still in the *)
(* queue take no room (core.py:67-69, 113-139, 286).                       *)
LiveExact ==
    \A t \in Tenant :
        live[t] = Cardinality(Unserved(t)) - Cardinality(Raced(t))

(* No more than queue_max requests of a tenant wait, dead entries in its   *)
(* queue aside, but for one more for each of its raced timeouts: each of   *)
(* these opens the queue to one request too many (core.py:113-139).        *)
WaitingWithinMax ==
    \A t \in Tenant :
        LET waiting == Cardinality(Unserved(t)) - Cardinality(Raced(t))
        IN  waiting <= 0 \/ waiting <= QueueMax[t]

(* The queue stays the canonical record of pending requests: whatever the  *)
(* drain pops, drops or puts back, a request with a pending future is in   *)
(* the queue of its tenant (core.py:276-278).                              *)
PendingQueued ==
    \A r \in Request : future[r] = "pending" =>
        \E i \in DOMAIN queue[TenantOf[r]] : queue[TenantOf[r]][i] = r

(* No lost wake-up at the semaphore: the drain is blocked only while every *)
(* slot of the budget, and every slot still owed, is in flight             *)
(* (core.py:255, 279).                                                     *)
NoIdleSlotWhileBlocked == pc = "blocked" => inflight = budget + pendingShrink

(* No lost wake-up at the event: when the drain sleeps with nothing to     *)
(* wake it, no tenant has an unserved request beyond its raced timeouts    *)
(* (core.py:117-119, 261-264).                                             *)
WorkConserving ==
    pc = "idle" /\ ~wakeup =>
        \A t \in Tenant : Cardinality(Unserved(t)) <= Cardinality(Raced(t))

(* A request is refused on arrival only when queue_max requests of its     *)
(* tenant really wait; dead entries in the queue are no ground to refuse   *)
(* (core.py:67-69, 113-114).                                               *)
ShedOnlyWhenFull ==
    [][\A r \in Request : call[r] = "new" /\ call'[r] = "shed" =>
          Cardinality(Unserved(TenantOf[r])) >= QueueMax[TenantOf[r]]]_vars

(* q is queued ahead of r.                                                 *)
Ahead(q, r) ==
    LET entries == queue[TenantOf[r]] IN
    \E i, j \in DOMAIN entries : i < j /\ entries[i] = q /\ entries[j] = r

(* Within a tenant the order of arrival is kept to the dispatch: while a   *)
(* request waits, whoever came after it, or comes now, stays behind it and *)
(* is not dispatched, whatever dies around them (core.py:115, 276-301).    *)
FirstComeFirstServed ==
    [][\A q, r \in Request :
          /\ future[q] = "pending" /\ future'[q] = "pending"
          /\ TenantOf[q] = TenantOf[r] /\ (Ahead(q, r) \/ call[r] = "new")
          => future'[r] # "result" /\ (future'[r] = "pending" => Ahead(q, r)')]_vars

(* What the drain still has to do before it gives the loop back: requests  *)
(* to dispatch, and before the next dispatch the tenants to pass that have *)
(* nothing live from the next visit on (the arc of the round up to them).  *)
Pending == {r \in Request : future[r] = "pending"}
Arc(t)  == IF idx <= t THEN idx .. t ELSE (idx .. NumTenants) \cup (1 .. t)
ToPass  == {t \in Tenant : \A u \in Arc(t) : live[u] <= 0}
Stage ==
    IF pc = "got" THEN IF live[Current] > 0 THEN 1 ELSE 2 * NumTenants + 5
    ELSE IF pc = "top" THEN 2 * Cardinality(ToPass) + 3
    ELSE IF deficit[Current] > 0 /\ live[Current] > 0 THEN 2
    ELSE 2 * Cardinality(ToPass) + 4

(* How many requests of u may still be served before the next visit of t:  *)
(* its credit, and a quantum if the round comes to it first.               *)
Claim(u, t) == deficit[u] + (IF u \in Arc(t) THEN Weight[u] ELSE 0)

Serves(u) == \E r \in Request :
    TenantOf[r] = u /\ future[r] = "pending" /\ future'[r] = "result"
Visits(t) == pc = "top" /\ idx = t /\ idx' # idx

(* No tenant overtakes another beyond its claim: from one visit of t to    *)
(* the next every request of another tenant that is served uses up a part  *)
(* of that tenant's claim, and nothing that happens in between, be it an   *)
(* idle time, a slot put back or a resize, adds to it (core.py:258-293).   *)
TurnsKept ==
    [][\A t, u \in Tenant : t # u /\ ~Visits(t) =>
          /\ Claim(u, t)' <= Claim(u, t)
          /\ Serves(u) => Claim(u, t) > 0 /\ Claim(u, t)' < Claim(u, t)]_vars

(* A caller that was cancelled or timed out but whose handler is yet to    *)
(* run is still counted as live.                                           *)
DeadButCounted(t) == \E r \in Unserved(t) : future[r] = "cancelled"

(* The only way for the drain to keep the event loop for good is to put    *)
(* slots back again and again for a tenant whose live_count still counts a *)
(* caller that gave up: every other step brings it closer to its next      *)
(* suspension (core.py:260-293).                                           *)
DrainProgress ==
    [][Running /\ Running' =>
          \/ pc = "got" /\ LiveAt(Current) = {} /\ DeadButCounted(Current)
          \/ Cardinality(Pending') < Cardinality(Pending)
          \/ Pending' = Pending /\ Stage' < Stage]_vars

(* Starvation freedom: as long as no timeout meets a dispatch, the drain   *)
(* gives the loop back, the scheduler is not stopped and the budget is     *)
(* eventually positive, every queued request is dispatched or given up,    *)
(* without any timer having to fire (core.py:253-293).                     *)
ServedUnlessRaced ==
    /\ [](pc \notin StopPhases /\ \A t \in Tenant : Raced(t) = {})
    /\ []<>~Running /\ <>[](budget > 0)
    => \A r \in Request : future[r] = "pending" ~> future[r] # "pending"

(* stop() wakes every blocked caller, those too that arrive while it waits *)
(* for the drain to unwind (core.py:85-102, 276-278).                      *)
StopReleasesWaiters ==
    \A r \in Request :
        (call[r] = "waiting" /\ pc \in StopPhases \ {"flushed"}) ~> call[r] # "waiting"

-----------------------------------------------------------------------------
(* What the callers of acquire() and release() see of this module.  The    *)
(* slot the drain has taken and not dispatched is still free to them.      *)
Share(r) ==
    LET granted == future[r] = "result" IN
    CASE call[r] = "new"       -> "none"
      [] call[r] = "waiting"   -> IF granted THEN "owning" ELSE "asking"
      [] call[r] = "held"      -> "owning"
      [] call[r] = "released"  -> "returned"
      [] call[r] = "shed"      -> "refused"
      [] call[r] = "expired"   -> IF granted THEN "leaked" ELSE "refused"
      [] call[r] = "cancelled" -> IF granted THEN "returned"
                                  ELSE IF future[r] = "error" THEN "surplus" ELSE "refused"

Pool == INSTANCE SlotPool WITH
    Budgets <- {w * c : w \in Workers \cup {InitWorkers}, c \in Caps \cup {InitCap}},
    own     <- [r \in Request |-> Share(r)],
    avail   <- sem + Reserved,
    used    <- inflight,
    debt    <- pendingShrink,
    closed  <- pc \in StopPhases

(* The scheduler implements the slot pool: whatever the drain, the queues  *)
(* and the futures do, a caller sees slots granted only while one is free  *)
(* and none after stop() began, each returned once, budget changes settled *)
(* by growth or debt, and no faults but the two the pool names             *)
(* (core.py:104-165, 208-301).                                             *)
ImplementsPool == Pool!Spec

-----------------------------------------------------------------------------
(* What comments of the code say and the code does not keep.               *)

(* "live (not-cancelled, not-dispatched) entries in queue" (core.py:38),   *)
(* exported as a queue depth: while the scheduler runs it never goes       *)
(* negative.                                                               *)
QueueDepthNonNegative == pc \notin StopPhases => \A t \in Tenant : live[t] >= 0

(* "blocking on the global semaphore when the budget is full" (core.py:    *)
(* 255): no request is dispatched beyond the budget of the moment.         *)
NoDispatchOverBudget == [][inflight' > inflight => inflight' <= budget]_vars

(* "Dispatches one request per iteration, blocking on the global           *)
(* semaphore" (core.py:254-255): the drain always gives the loop back.     *)
DrainYields == Running ~> ~Running

(* "Deficit round-robin" (core.py:254): a tenant is not given more than    *)
(* its quantum in one visit of the round.                                  *)
CreditWithinQuantum == \A t \in Tenant : deficit[t] <= Weight[t]
==============================================================================
