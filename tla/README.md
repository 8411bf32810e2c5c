# TLA+ models of the vllm-on-eks gateway

The repository deploys a multi-tenant gateway in front of vLLM. Its own logic
is `apps/fastapi-gateway/app`: a scheduler that admits requests per tenant and
hands out a global budget of slots, a controller that tunes the budget from the
time to first token, a watcher that tunes it from the number of Ready engines,
and the process around them: lifespan, configuration, and the path of a request
through middleware, authentication, proxy and streaming. This directory models
these parts, checks them with TLC and proves their safety with TLAPS. Line
numbers refer to files of
`src/apps/fastapi-gateway/app/` (`core.py`, `aimd.py` and `watcher.py` are in
its `scheduler/`).

## 1. Inventory

| Component | State | Operations | Talks to |
|---|---|---|---|
| `TenantScheduler` (core.py) | per tenant: queue, `live_count`, `deficit`; global: `_global_sem`, `_inflight`, `_pending_shrink`, `_budget`, `_wakeup`, the drain task | `acquire`, `release`, `set_cap_per_worker`, `set_num_workers`, `start`, `stop`, drain loop | request tasks through futures; both controllers through `set_*` |
| `AIMDController` (aimd.py) | snapshots of the TTFT histogram, cooldown | one tick every `tick_s`, `stop` | reads `cap_per_worker` and `has_demand()`, calls `set_cap_per_worker` |
| `WorkerCapacityWatcher` (watcher.py) | Ready count per EndpointSlice, last total | watch, reconnect with backoff, abort on 401/403, `stop` | Kubernetes watch in, `set_num_workers` out |
| Request path (main.py 186-212, proxy.py) | per request: its slot, the upstream response, the HTTP client, two nested body iterators | acquire, proxy, stream, close, release in a `finally` | scheduler, upstream router, client |
| Lifespan (main.py 65-115) | the three objects | start scheduler, controller, watcher; stop in reverse | all of the above |
| Registry and auth (tenants.py, auth.py) | parsed `tenants.yaml`, two dictionaries | parse once, resolve a token | scheduler, request path |
| Metrics and middleware (metrics.py, main.py 121-168) | counters | count a request, its stream and its TTFT | controller (TTFT), KEDA |
| infra, charts, bench, dashboards | declarative | - | KEDA scales on `gateway_queue_depth` |

What is hard here, and where it is listed line by line: `hazards` in
`PROJECT.json`. In short: one event loop interleaves request tasks, timers,
cancellations, the drain and two resizers at every suspension point; counters
are kept by hand on both sides of an `await`; a contraction is deferred to later
releases; `stop()` races with arrivals; a watch loses events between streams;
a control loop reads a rolling window whose ticks drift; a slot must survive
exactly as long as a stream whose every `await` can fail, be cancelled, or be
left to the interpreter to finalize. What each component must guarantee is
stated as properties below.

## 2. Modules

| Module | Role |
|---|---|
| `SlotPool` | abstract: what a scheduler with caps on promises its callers |
| `TenantScheduler`, `MCTenantScheduler` | the started scheduler with caps on, and its constants for TLC |
| `TenantSchedulerProofs` | types, slot conservation, no lost wake-up at the semaphore |
| `TenantAccountingProofs` | queues, `live_count`, in-flight count, what budget and `queue_max` bound, refusals, no lost wake-up at the event |
| `DrainProofs` | order of service within a tenant and between tenants; progress of the drain |
| `SlotPoolProofs` | `TenantScheduler` implements `SlotPool` |
| `Registry` | `load_registry`, `resolve` and the constructors' checks, as operators |
| `Gateway`, `MCGateway` | the process: lifespan and requests, over `SlotPool` and `Registry` |
| `GatewayProofs` | all its safety properties |
| `AIMDController`, `MCAIMDController` | the controller and its constants |
| `AIMDControllerProofs`, `AIMDDecisionProofs` | types, bounds and moves of the cap, decisions spaced and on a flushed window; decisions justified and timely |
| `WorkerCapacityWatcher`, `MCWorkerCapacityWatcher` | the watcher and its constants |
| `WatcherProofs` | types, exact counts, quiet reconnects |

`SlotPool` is where the pieces meet. Below it, `TenantScheduler` implements it;
above it, `Gateway` uses it and keeps to its protocol. So the process is checked
without the interleavings of the drain, and what is left out there is proved
here.

Some definitions are named after another with a suffix (`ReleaseSlotKept`,
`P99Bottom`, `StreamOpensAnew` ...). They are faulty variants that no
specification uses. Put in the place of the definition they are named after,
each makes one property fail, which shows that the property depends on the
code being as it is.

### TenantScheduler

A coroutine gives the event loop back only where it really suspends, so the
code between two suspensions is atomic towards everything else.

* `call[r]` is the progress of one `acquire()` call: `new`, `waiting` (at
  core.py:122), `held`, `released`, or one of its three ways to fail: `shed`
  (refused on arrival or failed by `stop()`), `expired`, `cancelled`.
* `future[r]` is the state of `req.future`, `interrupt[r]` what the task will
  find besides it when it runs again. The two are separate because asyncio keeps
  them separate: a timer or a cancellation that meets a *pending* future cancels
  it; one that meets a *settled* future leaves it alone, and the task is
  interrupted although a result is there. `req.cancelled` needs no variable: it
  is set exactly where `call` becomes `expired` or `cancelled`.
* `TimerFires` is the timer of `asyncio.wait_for`, which carries no duration: it
  may fire at any time while the call waits. Callbacks that are ready in the
  same iteration of the loop may run in any order. asyncio runs them first come
  first served, and a timer callback that was queued before the drain's step
  and a task wake-up queued after it give exactly the order in question.
* The drain is cut into the steps of its two loops: `DrainSleeps`,
  `DrainVisits`, `DrainAcquires`, `DrainDispatches`, `DrainPutsBack`. While it
  runs (`Running`) no other action is enabled. `await sem.acquire()` suspends
  only when no slot is free (`pc = "blocked"`); a slot released meanwhile is
  handed to it (`granted`), as `asyncio.Semaphore` does with its only waiter.
* `queue`, `live`, `deficit`, `sem`, `inflight`, `pendingShrink`, `budget`,
  `numWorkers`, `capPerWorker` are the attributes of the same names.
* `ResizeBudget` is `_resize_budget_locked`. The lock is never contended:
  nothing suspends while it is held.
* `stop()` is three steps, because it awaits the cancelled drain:
  `StopCancelsDrain`, `DrainUnwinds`, `StopFlushes`. Requests may still arrive
  in between and after. Resizes may not: the lifespan stops both controllers
  first (main.py:110-115).

Properties: `SlotConservation`, `InflightExact`, `LiveExact`, `PendingQueued`,
`NoIdleSlotWhileBlocked`, `WorkConserving`, `ShedOnlyWhenFull`,
`WaitingWithinMax`, `FirstComeFirstServed`, `TurnsKept`, `DrainProgress`
(safety), `ServedUnlessRaced`, `StopReleasesWaiters` (liveness). The
two counters are not what the code's comments say of them: `InflightExact` and
`LiveExact` name precisely the requests by which they are off (`Leaked`,
`Ghost`, `Raced`), and `OwnersWithinBudget` and `WaitingWithinMax` say what that
does to the two limits the counters stand for: each raced timeout lets one
request more into its tenant's queue and takes a slot away for good, each ghost
return lets one request more through to the engines.

`FirstComeFirstServed` is the order within a tenant: whoever is queued behind a
request that can still be served is not served before it.

`TurnsKept` is the order between tenants, the promise of a round-robin: from one
visit of a tenant `t` to the next, another tenant `u` is served at most its `Claim`,
which is its credit, plus one quantum if the round comes to `u` before it comes back
to `t`. It is stated without a history: each request served lowers the claim of its
tenant, and nothing that happens in between (an idle time, a slot put back, a
resize, a stop) raises it. A drain that started its round again at the first tenant
after an idle time would break it. It bounds `u` by its credit, which
`credit_within_quantum` shows to exceed the quantum after lone requests; the two
together say what is left of the weighted sharing that the README of the repository
promises.

`DrainProgress` is
about the steps between two suspensions of the drain, during which the process
does nothing else: each either serves a request or lowers `Stage`, with one
exception, a slot put back for a tenant whose `live_count` still counts a caller
whose future is cancelled (`DeadButCounted`). The exception is the loop that
`drain_yields` exhibits; the property says that it is the only one.

### SlotPool and the refinement

A caller sees slots: `own[r]` is its share (`asking`, `owning`, `returned`,
`refused`), `avail`, `used`, `debt` and `budget` the accounts, `closed` that
`stop()` has begun. Two faults of the code concern slots and are part of what the
code promises, by name: `Leak` (a raced timeout keeps the slot) and `Surplus` (a
caller failed by `stop()` and cancelled before it notices returns a slot it
never had). `TenantScheduler!ImplementsPool` substitutes `own` by the state of
call and future, `avail` by the semaphore plus the slot the drain has in hand,
`used` by `inflight`, `debt` by `pendingShrink`. The drain's visits, wake-ups and
queue operations are stutters; a dispatch is a `Grant`, each outcome of a wait one
pool action, a resize one `Resize` whichever controller called it.

### Registry

Operators only. The YAML file is a record with the keys it gives, so that a missing
key and a default are what they are in `dict.get` and `raw["..."]`. An entry of
`tenants` has an id, a variable for its key and a weight, which stands for all other
fields. Of the blocks `aimd` and `worker_watcher` only what decides between starting
and not starting is kept: `enabled`, `complete` (no required field is missing) and
`acceptable` (to the constructor). `Loads` says whether `load_registry` returns; `TokenToId` and `ById` keep the last entry, as
dictionaries filled in a loop do; `Scheduled` is the scheduler's own dictionary
over the same list.
Conversions of scalars (`int`, `float`, `str`) are left out: values in the model
already have their type.

### Gateway

* `phase`, `up`: the lifespan. `Startup` is everything before the `yield`, which
  never suspends, with each way to raise; it leaves in `up` what had been
  started. `ShutdownBegins` and `TaskStopped` are the `finally`: watcher,
  controller, scheduler, each awaited. `ControllerResizes` is any resize of a
  controller that has not been stopped yet.
* `at[r]` is the await a request's task is in: `acquire` (main.py:189), `body` and
  `connect` (proxy.py:12-24), `head`, `stream`, `last` while the response is
  sent, `error` while an error response is.
* `iter[r]` is the state of the two nested generators, `iterator()` of proxy.py
  and `_guarded_iterator()` of main.py: `fresh` (made, not started), `pulling`,
  `yielded`, `upclose` and `clclose` (the two awaits of the `finally`), `over`,
  `orphan` (guard finalized, inner generator not yet) and `lost` (dropped without
  having been started, so that no `finally` will ever run).
* `upstream`, `client`: what the proxy opened; `unknown` once a close raised.
* `chunks`, `ttft`, `outcome`: the stream and its samples. `code`: the status the
  middleware counts. It is set when the start of a response passes through
  `send_wrapper`, before it is sent (main.py:146-149), so a request whose head could
  not be sent may be counted under the upstream's status.
* Every await may end well, fail, or be cancelled: `ProxyFails`, `UpstreamBreaks`,
  `SendFails`, `CloseFails`, `AcquireCancelled`. A generator suspended at its
  `yield` when the response is dropped is finalized by the event loop in a task
  of its own (`GuardFinalized`, then `IteratorFinalized`); the guard first, because
  it holds the only reference to the inner one and its `finally` does not close it.
* The server is modelled by its contract (ASGI): any `send` may raise or be
  cancelled. A particular server may never do so at the head of a response;
  `HeadFails` then does not occur, and the exception for `lost` in the properties
  is vacuous.

Properties: `SlotWhileServed`, `UpstreamUnderSlot`, `UpstreamWithinBudget`,
`NothingLeftOpen`, `SamplesTrue`, `CountersAgree`, `ControllersUnderScheduler`,
`KeysServeTheirTenants` (safety); `KeepsProtocol` (the process is a behaviour of
`SlotPool`); `SlotsComeBack`, `OverhangPasses` (liveness).

The budget is there to limit what the engines have to do. That is `Load`: requests
that connect, and responses that are not closed. It is not within the budget at every
moment. When a send fails and the interpreter finalizes the two iterators, the guard
releases the slot first, and the upstream is closed later, in another task
(`Overhang`). Meanwhile the slot may serve the next request, so the engines have one
more than they should. `UpstreamUnderSlot` says that there is no other way to burden
the upstream without a slot, `UpstreamWithinBudget` counts the overhang and adds it to
the budget, and `OverhangPasses` says that it does not last.

`CountersAgree` relates three metrics, kept in three places at three times:
`requests_total` (middleware), `stream_completed_total` and `ttft_seconds` (proxy).

### AIMDController

The code reads a snapshot of the histogram only through its difference from
the newest one, so the model stores with each snapshot its age and what was
observed since. That keeps the state finite without bounding the number of
ticks. `Tick` is one turn of `_loop`: `Observe` pushes a snapshot and trims the
window, and exactly one of `HoldBlind`, `HoldCoolingDown`, `Decrease`,
`Increase`, `HoldSteady` follows, in the order of the code's tests. `P99` is the
interpolation as an exact fraction; seconds are integers and floating-point
rounding is not modelled. The branches of `_observe_p99` for a
counter that went backwards and for a bucket without span cannot be taken (the
counters are in the same process and the first bucket that reaches the rank is
not empty) and have no counterpart. `sinceDecrease` is history for `DecisionOnFlushedWindow`
(seconds), `heldSince` for `DecisionsSpaced` (ticks).

Properties: `CapWithinBounds`, `DecisionOnFlushedWindow` (the purpose of the
cooldown, aimd.py:39-43), `DecisionsSpaced` (a decision needs `cooldown_ticks`
ticks held with a p99 since the last decrease; blind ticks do not count), `DecisionsMove` (no rounding is a fixed point above the floor),
`DecisionsJustified` and `DecisionsTimely` (the interpolated p99 against the plain
count of slow observations: no verdict invented, none missed),
`OverloadReachesFloor`, `RecoversToCeiling`.

### WorkerCapacityWatcher

The cluster (`PutSlice`, `DeleteSlice`) and the watch are external. A new
stream lists the slices that exist in any order, then reports every change; what
it has not delivered when it ends is lost. `Total`, the sum over the counts, is
the size of a disjoint union with as many elements for each slice. `ConsumeEvent`
is one turn of the `async for`. The loop's exits are `StreamCloses` (reconnect at once),
`StreamFails` (sleep first) and `AuthFails` (give up). How long the backoff lasts
is not modelled, only that it ends.

Properties: `CaughtUp` (num_workers equals the Ready endpoints plus the counts of
slices whose deletion no stream reported), `ReconnectIsQuiet` and `Converges`. The
handler sets num_workers after every event, so the first listing is summed up in
plain sight, slice by slice; `ReconnectIsQuiet` says that no later one is: once every
slice is counted (`Steady`), streams may end, fail and list again, and num_workers
does not move until the cluster does.

## 3. Runs

| Run | Shows | States | Time |
|---|---|---|---|
| `scheduler_safety` | all safety properties of the scheduler | 1.2 M (symmetry) | 1-2 min |
| `scheduler_liveness` | its liveness under `FairSpec`; it implements `SlotPool` | 182 k | 2 min |
| `gateway` | all properties of the process | 121 k | 1-1.5 min |
| `watcher` | `CaughtUp`, `ReconnectIsQuiet`, `Converges` | 315 k | 20 s |
| `aimd` | all properties of the controller | 17.5 k | 1 min |
| seven `violation` runs | section 4 | - | seconds |

Bounds, and why they suffice:

* *Scheduler, safety*: tenants of weights 2 and 1 with `queue_max` 2 and 1;
  three interchangeable requests for the first, so one finds the queue full or
  takes the place of a dead entry, one for the second. The budget starts at 2 and
  changes twice, to 0 workers and back (the cap takes the same step, `ResizeBudget`;
  the liveness run changes that one too, and grows first): a contraction of free
  slots, of slots in flight, or of one of each, and a growth that settles what the
  contraction still owes or wakes a blocked drain. `DeficitBound` 4 cuts off visits that would
  raise a deficit beyond it; deficits matter only by their sign, and two quanta
  above are reached.
* *Scheduler, liveness*: three requests and one resize, since no symmetry may be
  used; `DeficitBound` 8 is beyond what three requests can build up while the
  drain still suspends.
* *Gateway*: two requests for an initial budget of one slot, so one waits, takes
  over a returned slot or is refused; a resize to 0, 1 or 2; a body of no chunk or
  one, so that a stream ends, breaks or is dropped before, at and after its first
  chunk; an upstream status that is a success and one that is not; a known and an
  unknown token. Eleven files: with both controllers and a tenant listed twice, with
  a shared key, with an empty id, with caps off, and those that fail to load or to
  start, one for each reason the code has.
* *Watcher*: two slices of one endpoint each whose condition is true, false or
  unknown, any of which may exist at the start, three changes, two streams
  that end. A deletion while disconnected and the re-creation of the same slice
  fit in.
* *AIMD*: edges 10, 20, 40 around thresholds 16 and 24; batches for every
  verdict, among them exactly 99% and just below within an edge, too few, none,
  and beyond the last edge; sleeps of one or two seconds; a window of three
  seconds, as long as the two ticks of the cooldown plus one, so that one tick
  less would break `DecisionOnFlushedWindow`; a bootstrap cap below the minimum;
  factor 3/4, which sticks at 3 if rounded up.

Deadlock is not checked: each model stops legitimately, when every request is
settled, the watcher or the controller stopped, or the bound of changes reached.

Fairness. Scheduler: the event loop runs every ready callback, hence weak
fairness of the drain, of each request's task after its future is settled and
of the rest of `stop()`; and a holder releases: `_proxied` does so in a `finally`,
and `SlotsComeBack` of the gateway says when it gets there, namely unless the
client stalls or the head of its response is lost. Arrivals, timers, cancellations
and resizes are not fair: `ServedUnlessRaced` must not be saved by a timeout.
Its premises name what the code does not guarantee by itself: no raced timeout,
a drain that suspends again and again, a budget that is eventually positive.
Watcher: a task that can step does, so streams open unless they fail, events are
consumed and sleeps end; failures are finitely many by `MaxEnds`. Controller: its
sleep ends. Gateway: weak fairness of `ServerStep`, the steps that wait for
nothing or no longer than a timeout: `acquire()` by its `acquire_timeout_s`, connecting
and every read from the upstream by httpx, finalizers by the event loop. Nothing
bounds how long a client takes to send its body or to read, so `SlotsComeBack`
has the premise `ClientKeepsUp`; and a slot whose generator was never started is
excepted.

## 4. Where the code differs from what is said of it

| Run | Statement | What happens |
|---|---|---|
| `queue_depth_non_negative` | `live_count` counts live entries (core.py:38); a negative gauge "should never trigger" (keda-vllm-scaler.tf:94) | a timeout between the dispatch and the task's wake-up decrements twice and leaks the slot |
| `drain_yields` | the drain blocks on the semaphore (core.py:254-255) | with a free slot and a dead entry that is still counted it loops without suspending; the whole process hangs |
| `no_dispatch_over_budget` | ... when the budget is full (core.py:254-255) | a contraction leaves free slots in the semaphore |
| `credit_within_quantum` | deficit round-robin (core.py:254, README.md:5) | credit survives an idle period and accumulates without bound |
| `watcher_in_sync` | the current number of Ready endpoints (metrics.py:82) | slices deleted between two streams are counted forever |
| `aimd_hold_after_any_action` | cooldown after any non-hold action (tenants.py:40-41) | only after a decrease |
| `failed_start_stops_all` | the `finally` is safe even if construction or start raises (main.py:76-77) | the `try` begins after them (main.py:108): a refused AIMD block leaves the drain running |

The counterexample of `drain_yields` is a real cycle of the drain's steps
(`DrainPutsBack`, `DrainVisits`, `DrainAcquires`), not an effect of `DeficitBound`.
Note that forgetting the counts when a stream opens (`StreamOpensAnew`) would
not repair `watcher_in_sync`: an empty listing brings no event, and the old
value stays.

## 5. Proofs

All theorems hold for every value of the constants under the `ASSUME`s of their
modules: any number of tenants, any integer weights and capacities, any finite
set of requests, any naturals as workers and caps; for the controller any tick,
window, bounds, factor below 1 and histogram with cumulative batches.

* `TypeCorrect`: `TypeOK` is inductive by itself. It includes that the semaphore
  and the shrink debt never go negative.
* `SlotsConserved`, `BlockedOnlyAtBudget`: by
  `SlotInv == SlotConservation /\ (pc = "blocked" => sem = 0)`. Conservation
  alone does not tell that nothing is free while the drain is blocked, and
  the step of a release needs both.
* `PendingAlwaysQueued`, `LiveCountExact`, `InflightCountExact`,
  `RefusalMeansFull`: by `AccountInv`, which adds `Coherent` (a pending future
  belongs to a waiting call) and `QueueOwn` (a queue holds its own tenant's
  requests). The counters are sums over requests; each step moves at most one
  request's contribution (`LiveWeight`, `SlotWeight`), except the flush of
  `stop()`, which has a lemma of its own, and lemma `CardMove` turns such a
  move into the change of a cardinality.
* `BudgetBoundsOwners`: `OwnersWithinBudget`, from `SlotConservation` and
  `InflightExact`, since a semaphore is never negative; being a corollary of these
  two, it has no place in the run. `BudgetHoldsUntilFlushed` (`SlotPoolProofs`) drops the
  ghosts from it: before the flush of `stop()` there are none (`ErrorsFromStop`).
* `WaitingBounded`: by `LiveCapped` (`live_count` rises only at an arrival that finds it
  below `queue_max`) and `LiveExact`.
* `FlushFailsEveryWaiter`: from `PendingQueued` and `Coherent`, the safety half of
  `StopReleasesWaiters`.
* `ServedInOrder`: `FirstComeFirstServed`, by `OrderInv`, which adds to `AccountInv` that a
  queue holds no request twice (`QueueDistinct`) and none that has not arrived
  (`QueueFresh`). Appending keeps who is ahead of whom; popping up to the first live
  entry removes only entries that are settled.
* `DrainMakesProgress`: `DrainProgress`, for any number of tenants, by `CreditInv` (no
  deficit is negative, and a slot is only awaited for a tenant with credit). The
  measure is lexicographic: the number of pending futures, then `Stage`, which is
  twice the number of tenants still to pass before one with work (`ToPass`), plus
  the position within the step. A visit to a tenant without work takes it out of
  `ToPass` (`PassingLeavesLess`), a visit to one with work ends in an acquire, that in a
  dispatch or a slot put back. `BurstBounded` counts: with a history variable for the
  steps taken in a row that neither serve nor suspend nor fall under the exception,
  `burst + Stage` never grows (`BurstInv`), so there are at most `2 * NumTenants + 4`
  of them, whatever the state the drain starts from. Both theorems assume
  `PositiveWeights`, which the registry does not enforce: with a weight of 0 TLC
  refutes `DrainProgress` at once, and a tenant of weight 0 or less that alone has
  work makes the drain spin. The assumption is the hazard, not a convenience.
* `TurnsAreKept`: `TurnsKept`, for any number of tenants. The places the round still has
  to pass before `t` (`Arc`) lose the place it leaves (`ArcShrinks`), so a visit of `u`
  turns the quantum of its claim into credit or forfeits both; a dispatch serves the
  tenant whose turn it is, whose credit is positive by `CreditInv`, and costs it one.
  `PositiveWeights` is assumed for the same reason as above: a visit with a weight
  below 0 would leave `CreditInv` behind.
* `NoLostWakeup`: by `IdleInv` (a drain asleep with the event clear sees no
  positive `live_count`) and `LiveExact`.
* `PoolImplemented`: every step of the scheduler maps to a step of `SlotPool` or a
  stutter. The mapping needs `PoolInv`: the types, `Coherent` (a pending future
  belongs to a waiting call), `ErrorsFromStop` (only the flush of `stop()` puts an
  error into a future) and `KnownFactors` (a budget is a product of values that
  were set).
* `CapBounded`: `CapWithinBounds` is inductive with the types.
* `WindowFlushed`: by `CooldownPaid`, which says that the held ticks already spent
  since the last decrease took at least their nominal time.
* `Spaced`: `DecisionsSpaced`, by `HeldInv`: the ticks held since the last decrease and
  what is left of the cooldown make up the whole cooldown. It counts ticks and does
  not depend on the window, so it also says something of the shipped configuration,
  whose cooldown of 3 ticks of 5 s is longer than its window of 10 s.
* `CapMoves`: `DecisionsMove`; `CutLowers` shows `(c * num) \div den < c` for every
  factor below 1 and every positive cap.
* `CapStaysPositive` and `ShortWindowNeverDecides` are about two configurations the
  constructor accepts. With `cap_per_worker_min` above 0 the cap never reaches 0,
  where nothing would be dispatched, observed or decided any more. With a window
  shorter than a tick the trim keeps only the newest snapshot, every observation is
  blind, and the cap stays at its bootstrap value for good.
* `Justified`, `Timely`: `DecisionsJustified` and `DecisionsTimely`, by `CumulativeInv` (every snapshot is
  cumulative). `BucketFound` says that the search of `_p99` ends at the first
  bucket to reach the rank, `Between` that the interpolated point stays within the
  bucket's edges; a point above an edge then puts the rank beyond it, and a rank
  beyond an edge the point above it. The bucket is
  found by `LeastNatural`, a minimal-element argument from the library's
  well-foundedness of `<`.
* `TypeCorrect` and the eight safety properties of `Gateway` (`SlotHeldWhileServed`,
  `UpstreamHoldsSlot`, `UpstreamBounded`, `ClosedBehind`, `SamplesAgree`, `CountersInAgreement`,
  `ControllersNested`, `KeysAgree`): for any requests, files, stream lengths,
  statuses and budgets, by `GatewayInv`. Its parts: `PathInv` (which iterator states
  go with which await), `OwnInv` (`SlotWhileServed` made inductive: what each await
  says of the slot), `SampleInv`, `CountInv`, `LifespanInv`. `UpstreamBounded` adds the
  accounts: `PoolSum` (free and used make up budget and debt) and `PoolCount` (used
  is the number of owners and leaks less the surplus). The load outside of the
  overhang, being owners, is at most `used` plus the surplus, and `used` at most
  `budget + debt`.
  `KeysAgree` is about the operators of `Registry` only, for every file that loads;
  an entry whose id is empty is admitted by nobody.
* `ProtocolKept`: the gateway's steps are steps of `SlotPool`, by `OwnInv` and
  `LifespanInv` (no controller resizes once the scheduler is stopped). Together with
  `PoolImplemented` this is the argument that the two halves fit.
* `CountsRight`: `CaughtUp`, by two invariants. `SyncInv`: `num_workers` is the last
  total. `FeedInv`: with a stream open, the last event due about a slice tells how
  it is now, and a slice that exists and has no event due is counted as it is; the
  property says nothing while events are due, so it is not inductive by itself.
  When the feed is empty the counts split into those of existing slices, whose sum
  is the number of Ready endpoints by a bijection (`TotalReady`), and the stale
  ones (`TotalSplit`). `ListingComplete` needs that a sequence without repetitions,
  as long as a finite set, lists all of it.
* `ReconnectQuiet`: by `SyncInv`. A listing repeats how the slices are
  (`ListingRepeats`), and an event that repeats what is counted leaves counts and
  total alone (`RepeatChangesNothing`).

Only model-checked: liveness. TLAPS proves nothing here about fairness or
`ENABLED`, so `ServedUnlessRaced`, `StopReleasesWaiters`, `Converges`,
`OverloadReachesFloor`, `RecoversToCeiling` `SlotsComeBack` and
`OverhangPasses` rest on their runs. The
safety facts they turn on are proved: `DrainMakesProgress`, `ServedInOrder` and
`NoLostWakeup` for the first, `FlushFailsEveryWaiter` for the second, `CountsRight` for
the third, `Timely` and `CapMoves` for the two of the controller.

## 6. Not modelled

* Durations: of waits, of the backoff, of the upstream; only their order is.
* Conversions of scalars in `tenants.yaml`, the YAML syntax, header parsing; which
  fields of a configuration block are required or out of range, and which values they
  have, beyond whether the process starts.
* Metrics beyond the counted status, the TTFT samples and the outcome of a stream:
  the received and in-flight counts are the first and last statement of the
  middleware, labels and pre-created series carry no state of the program, gauges
  mirror variables of the scheduler.
* With caps off a resize recomputes a product nobody reads.
* That the upstream response and the client stay open when the head of a response
  cannot be sent is visible in the model (`iter = "lost"`) and listed as a hazard;
  no property promises otherwise.
* The closed loop of controller, scheduler and histogram as one state machine. Its
  parts meet in `SlotPool!Resize` and in `demand`, both chosen freely, which is
  sound for safety; that a cap of 0 is never left (`cap_per_worker_min: 0`) is a
  liveness statement about the loop and only listed as a hazard.
* Kubernetes, KEDA, Karpenter, the upstream router, HTTP, the ASGI server: external.
  Terraform, charts, dashboards and load scripts are declarative.

## 7. Plan

Done: the scheduler, the controller, the watcher, the pool and its refinement, the
process with its configuration; their runs; proofs of every safety and action
property of the runs.

Left:

1. A bound for the long run: how far the dispatches of two backlogged tenants may be
   from the ratio of their weights. `TurnsKept` bounds what happens between two visits
   of one tenant; over many rounds it needs a history of dispatches and, since
   `credit_within_quantum` shows that no bound holds from an arbitrary reachable
   state, a premise on the deficits at the start of the interval.
2. What `SlotPool` promises by itself (its accounts add up, a closed pool grants
   nothing), proved about `SlotPool` and carried to both sides of it.
3. The closed loop: `AIMDController` over the demand and the observations of
   `TenantScheduler` instead of chosen ones, for the liveness of a cap at 0.
