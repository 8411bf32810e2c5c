-------------------------------- MODULE Gateway --------------------------------
(***************************************************************************)
(* The gateway process of app/main.py and app/proxy.py: the lifespan that  *)
(* starts and stops the scheduler and its two controllers, and the path of *)
(* each request through middleware, authentication, acquire(), the proxy,  *)
(* the two nested body iterators and their finalizers.  The scheduler is   *)
(* the SlotPool it implements; the configuration is read by Registry.      *)
(*                                                                         *)
(* A request's task runs from one suspension to the next without being     *)
(* interleaved, and so does the lifespan.  Every await may end with an     *)
(* exception: the client went away, the upstream failed or timed out, or   *)
(* the server cancelled the task.                                          *)
(***************************************************************************)
EXTENDS Registry, FiniteSets

CONSTANTS
    Request,       \* HTTP requests to a proxied route
    Token,         \* bearer tokens clients use, "" for none
    RawConfigs,    \* parsed contents tenants.yaml may have
    Statuses,      \* status codes the upstream answers with
    MaxChunks,     \* bound on the chunks of an upstream body
    Budgets,       \* budgets the controllers may set
    MaxResizes     \* bound on how often they do

(* The budget the scheduler is built with.                                 *)
InitialBudget(config) ==
    IF Loads(config) /\ LoadRegistry(config).budget >= 0
    THEN LoadRegistry(config).budget ELSE 0

ASSUME GatewayAssumption ==
    /\ IsFiniteSet(Request)
    /\ MaxChunks \in Nat /\ MaxResizes \in Nat
    /\ Budgets \subseteq Nat
    /\ \A config \in RawConfigs : InitialBudget(config) \in Budgets

(* `tenants` is a list.                                                    *)
ASSUME TenantsAssumption ==
    \A config \in RawConfigs : Loads(config) =>
        config.tenants \in Seq({config.tenants[i] : i \in DOMAIN config.tenants})

VARIABLES
    raw,        \* contents of tenants.yaml
    phase,      \* where the lifespan is
    up,         \* background tasks that run: drain, aimd, watcher
    resizes,    \* budget changes so far, bounded by MaxResizes
    at,         \* request -> what its task awaits
    iter,       \* request -> state of iterator() and _guarded_iterator()
    upstream,   \* request -> the upstream response
    client,     \* request -> the httpx client
    chunks,     \* request -> chunks the upstream has yet to send
    ttft,       \* request -> samples it added to ttft_seconds
    outcome,    \* request -> its sample of stream_completed_total
    code,       \* request -> status_box["code"], counted when it ends
    own, avail, used, debt, budget, closed   \* of SlotPool

Pool == INSTANCE SlotPool

poolVars     == <<own, avail, used, debt, budget, closed>>
lifespanVars == <<raw, phase, up, resizes>>
streamVars   == <<iter, upstream, client, chunks, ttft, outcome>>
vars == <<poolVars, lifespanVars, at, streamVars, code>>

registry == LoadRegistry(raw)
CapsOn   == Loads(raw) /\ registry.caps_enabled

Codes == Statuses \cup {"401", "504", "exc"}

TypeOK ==
    /\ raw \in RawConfigs
    /\ phase \in {"boot", "failed", "serving", "stopping", "down"}
    /\ up \subseteq {"drain", "aimd", "watcher"}
    /\ resizes \in 0 .. MaxResizes
    /\ at \in [Request -> {"new", "acquire", "body", "connect", "head",
                           "stream", "last", "error", "done"}]
    /\ iter \in [Request -> {"none", "fresh", "pulling", "yielded", "orphan",
                             "upclose", "clclose", "over", "lost"}]
    /\ upstream \in [Request -> {"none", "open", "closed", "unknown"}]
    /\ client \in [Request -> {"none", "open", "closed", "unknown"}]
    /\ chunks \in [Request -> 0 .. MaxChunks]
    /\ ttft \in [Request -> {0, 1}]
    /\ outcome \in [Request -> {"none", "true", "false"}]
    /\ code \in [Request -> Codes]
    /\ own \in [Request -> Pool!Share]
    /\ avail \in Nat /\ debt \in Nat /\ used \in Int /\ budget \in Nat
    /\ closed \in BOOLEAN

Init ==
    /\ raw \in RawConfigs
    /\ phase = "boot" /\ up = {} /\ resizes = 0
    /\ at = [r \in Request |-> "new"]
    /\ iter = [r \in Request |-> "none"]
    /\ upstream = [r \in Request |-> "none"]
    /\ client = [r \in Request |-> "none"]
    /\ chunks = [r \in Request |-> 0]
    /\ ttft = [r \in Request |-> 0]
    /\ outcome = [r \in Request |-> "none"]
    /\ code = [r \in Request |-> "exc"]
    /\ own = [r \in Request |-> "none"]
    /\ budget = InitialBudget(raw) /\ avail = InitialBudget(raw)
    /\ used = 0 /\ debt = 0 /\ closed = FALSE

-----------------------------------------------------------------------------
(* Operators named after a definition, such as ById and ByIdFirst, are     *)
(* faulty variants of it: no specification uses them, they serve to show   *)
(* that the properties notice the fault.                                   *)

(* lifespan() up to its yield; nothing in it suspends.  An exception on    *)
(* the way leaves whatever had been started: the `try` comes later.        *)
Startup ==
    LET drain   == IF registry.caps_enabled THEN {"drain"} ELSE {}
        aimd    == IF registry.aimd.enabled THEN {"aimd"} ELSE {}
        watcher == IF registry.watcher.enabled THEN {"watcher"} ELSE {}
    IN
    /\ phase = "boot"
    /\ \/ /\ Loads(raw) => ~SchedulerStarts(registry)
          /\ phase' = "failed" /\ UNCHANGED up
       \/ /\ Loads(raw) /\ SchedulerStarts(registry)
          /\ registry.aimd.enabled /\ ~AIMDAccepts(registry.aimd)
          /\ phase' = "failed" /\ up' = drain
       \/ /\ Loads(raw) /\ SchedulerStarts(registry)
          /\ registry.aimd.enabled => AIMDAccepts(registry.aimd)
          /\ phase' = "serving" /\ up' = drain \cup aimd \cup watcher
    /\ UNCHANGED <<raw, resizes, poolVars, at, streamVars, code>>

(* The `finally` of lifespan() stops what is up in this order; each stop() *)
(* cancels the task and suspends until it has unwound.                     *)
StoppingDrainFirst(tasks) ==
    IF "drain" \in tasks THEN "drain"
    ELSE IF "watcher" \in tasks THEN "watcher"
    ELSE IF "aimd" \in tasks THEN "aimd" ELSE "nothing"

Stopping(tasks) ==
    IF "watcher" \in tasks THEN "watcher"
    ELSE IF "aimd" \in tasks THEN "aimd"
    ELSE IF "drain" \in tasks THEN "drain" ELSE "nothing"

(* Go on with the first task of what is left; the scheduler's stop()       *)
(* closes the pool when it cancels the drain.                              *)
StopsNext(left) ==
    /\ up' = left
    /\ phase' = IF left = {} THEN "down" ELSE "stopping"
    /\ \/ Stopping(left) = "drain" /\ Pool!Close
       \/ Stopping(left) # "drain" /\ UNCHANGED poolVars
    /\ UNCHANGED <<raw, resizes, at, streamVars, code>>

ShutdownBegins == phase = "serving" /\ StopsNext(up)

TaskStopped == phase = "stopping" /\ StopsNext(up \ {Stopping(up)})

(* A controller may resize until its own stop() has cancelled it.  With    *)
(* caps off the budget is a number nobody reads.                           *)
ControllerResizes ==
    /\ CapsOn /\ resizes < MaxResizes
    /\ \E task \in up \cap {"aimd", "watcher"} :
          phase = "serving" \/ (phase = "stopping" /\ Stopping(up) # task)
    /\ \E b \in Budgets \ {budget} : Pool!Resize(b)
    /\ resizes' = resizes + 1
    /\ UNCHANGED <<raw, phase, up, at, streamVars, code>>

-----------------------------------------------------------------------------
Goes(r, place) == at' = [at EXCEPT ![r] = place]
Turns(r, state) == iter' = [iter EXCEPT ![r] = state]

(* send_wrapper() sees the start of a response before it is sent, whether  *)
(* the sending succeeds or not.                                            *)
StartSeenByNobody(r, status) == UNCHANGED code

StartSeen(r, status) == code' = [code EXCEPT ![r] = status]

(* An exception leaves the app before a response has started; it is        *)
(* counted as such.                                                        *)
Crashes(r) == Goes(r, "done") /\ UNCHANGED code

(* scheduler.release().                                                    *)
ReleaseSlot(r) ==
    \/ CapsOn /\ Pool!Becomes(r, "returned") /\ Pool!GiveBack
    \/ ~CapsOn /\ UNCHANGED poolVars

(* A request up to its first await: 401 without a tenant, 504 when refused *)
(* at queue_max, straight to the body with caps off.                       *)
Arrive(r) ==
    /\ phase = "serving" /\ at[r] = "new"
    /\ \E token \in Token :
          \/ /\ Resolve(registry, token) = Nobody
             /\ Goes(r, "error") /\ StartSeen(r, "401")
             /\ UNCHANGED poolVars
          \/ /\ Resolve(registry, token) # Nobody
             /\ \/ /\ ~CapsOn
                   /\ Goes(r, "body") /\ UNCHANGED <<poolVars, code>>
                \/ /\ CapsOn
                   /\ Pool!Ask(r, "asking") /\ Goes(r, "acquire") /\ UNCHANGED code
                \/ /\ CapsOn
                   /\ Pool!Ask(r, "refused") /\ Goes(r, "error") /\ StartSeen(r, "504")
    /\ UNCHANGED <<lifespanVars, streamVars>>

(* The drain dispatches a waiting request.                                 *)
Dispatched(r) ==
    /\ Pool!Grant(r)
    /\ UNCHANGED <<lifespanVars, at, streamVars, code>>

AcquireReturns(r) ==
    /\ at[r] = "acquire" /\ own[r] = "owning"
    /\ Goes(r, "body")
    /\ UNCHANGED <<poolVars, lifespanVars, streamVars, code>>

(* LimiterTimeout becomes a 504.                                           *)
AcquireTimesOutServed(r) ==
    /\ at[r] = "acquire"
    /\ Pool!GiveUp(r) \/ Pool!Leak(r)
    /\ Goes(r, "body")
    /\ UNCHANGED <<lifespanVars, streamVars, code>>

AcquireTimesOut(r) ==
    /\ at[r] = "acquire"
    /\ Pool!GiveUp(r) \/ Pool!Leak(r)
    /\ Goes(r, "error") /\ StartSeen(r, "504")
    /\ UNCHANGED <<lifespanVars, streamVars>>

AcquireCancelled(r) ==
    /\ at[r] = "acquire"
    /\ Pool!GiveUp(r) \/ Pool!Return(r) \/ Pool!Surplus(r)
    /\ Crashes(r)
    /\ UNCHANGED <<lifespanVars, streamVars>>

-----------------------------------------------------------------------------
(* `await request.body()` under the slot; then the client is built.        *)
BodyArrives(r) ==
    /\ at[r] = "body"
    /\ Goes(r, "connect")
    /\ client' = [client EXCEPT ![r] = "open"]
    /\ UNCHANGED <<poolVars, lifespanVars, iter, upstream, chunks, ttft, outcome, code>>

(* proxy_to_router() raises anything: release and raise.                   *)
ProxyFailsUnreleased(r) ==
    /\ at[r] \in {"body", "connect"}
    /\ Crashes(r)
    /\ \/ at[r] = "body" /\ ReleaseSlot(r)
       \/ at[r] = "connect" /\ UNCHANGED poolVars
    /\ UNCHANGED <<lifespanVars, streamVars>>

ProxyFails(r) ==
    /\ at[r] \in {"body", "connect"}
    /\ ReleaseSlot(r) /\ Crashes(r)
    /\ UNCHANGED <<lifespanVars, streamVars>>

(* The upstream's headers: both iterators are made, neither is started,    *)
(* and the response is handed to the server.                               *)
UpstreamAnswersReleased(r) ==
    /\ at[r] = "connect"
    /\ \E n \in 0 .. MaxChunks : chunks' = [chunks EXCEPT ![r] = n]
    /\ upstream' = [upstream EXCEPT ![r] = "open"]
    /\ Turns(r, "fresh") /\ Goes(r, "head")
    /\ ReleaseSlot(r)
    /\ UNCHANGED <<lifespanVars, client, ttft, outcome, code>>

UpstreamAnswers(r) ==
    /\ at[r] = "connect"
    /\ \E n \in 0 .. MaxChunks : chunks' = [chunks EXCEPT ![r] = n]
    /\ upstream' = [upstream EXCEPT ![r] = "open"]
    /\ Turns(r, "fresh") /\ Goes(r, "head")
    /\ UNCHANGED <<poolVars, lifespanVars, client, ttft, outcome, code>>

(* The head goes out with the upstream's status, and the iterators are     *)
(* started.                                                                *)
HeadSent(r) ==
    /\ at[r] = "head"
    /\ \E status \in Statuses : StartSeen(r, status)
    /\ Goes(r, "stream") /\ Turns(r, "pulling")
    /\ UNCHANGED <<poolVars, lifespanVars, upstream, client, chunks, ttft, outcome>>

(* The task is cancelled before or while it sends the head, or the sending *)
(* fails: a generator that never started has no `finally` to run.          *)
HeadFails(r) ==
    /\ at[r] = "head"
    /\ UNCHANGED code \/ \E status \in Statuses : StartSeen(r, status)
    /\ Goes(r, "done") /\ Turns(r, "lost")
    /\ UNCHANGED <<poolVars, lifespanVars, upstream, client, chunks, ttft, outcome>>

-----------------------------------------------------------------------------
(* `if first` of iterator().                                               *)
FirstAlways(r) == TRUE

First(r) == ttft[r] = 0

ObservesTTFT(r) == ttft' = [ttft EXCEPT ![r] = @ + (IF First(r) THEN 1 ELSE 0)]

(* The `finally` of iterator(), up to `await upstream.aclose()`.           *)
FinallyClientOnly(r, completed) ==
    /\ outcome' = [outcome EXCEPT ![r] = completed]
    /\ Turns(r, "clclose")

Finally(r, completed) ==
    /\ outcome' = [outcome EXCEPT ![r] = completed]
    /\ Turns(r, "upclose")

ChunkArrives(r) ==
    /\ iter[r] = "pulling" /\ chunks[r] > 0
    /\ chunks' = [chunks EXCEPT ![r] = @ - 1]
    /\ ObservesTTFT(r)
    /\ Turns(r, "yielded")
    /\ UNCHANGED <<poolVars, lifespanVars, at, upstream, client, outcome, code>>

(* The upstream body ends cleanly.                                         *)
UpstreamEndsHasty(r) ==
    /\ iter[r] = "pulling"
    /\ ObservesTTFT(r)
    /\ Finally(r, "true")
    /\ UNCHANGED <<poolVars, lifespanVars, at, upstream, client, chunks, code>>

UpstreamEnds(r) ==
    /\ iter[r] = "pulling" /\ chunks[r] = 0
    /\ ObservesTTFT(r)
    /\ Finally(r, "true")
    /\ UNCHANGED <<poolVars, lifespanVars, at, upstream, client, chunks, code>>

(* The upstream fails, or the task is cancelled while it awaits a chunk.   *)
UpstreamBreaks(r) ==
    /\ iter[r] = "pulling"
    /\ Finally(r, "false")
    /\ UNCHANGED <<poolVars, lifespanVars, at, upstream, client, chunks, ttft, code>>

ChunkSent(r) ==
    /\ at[r] = "stream" /\ iter[r] = "yielded"
    /\ Turns(r, "pulling")
    /\ UNCHANGED <<poolVars, lifespanVars, at, upstream, client, chunks, ttft, outcome, code>>

(* The client is gone, or the task is cancelled, while a chunk is sent:    *)
(* the response drops its iterators where they are.                        *)
SendFails(r) ==
    /\ at[r] = "stream" /\ iter[r] = "yielded"
    /\ Goes(r, "done")
    /\ UNCHANGED <<poolVars, lifespanVars, streamVars, code>>

(* iterator() is over.  In the task, _guarded_iterator releases the slot   *)
(* and the response ends, with a last empty message unless an exception is *)
(* on its way; after the task's end there is nothing left to do.           *)
IterOverTwice(r, clean) ==
    /\ Turns(r, "over")
    /\ ReleaseSlot(r)
    /\ \/ at[r] = "stream" /\ Goes(r, IF clean /\ outcome[r] = "true" THEN "last" ELSE "done")
       \/ at[r] = "done" /\ UNCHANGED at

IterOver(r, clean) ==
    /\ Turns(r, "over")
    /\ \/ /\ at[r] = "stream"
          /\ ReleaseSlot(r)
          /\ Goes(r, IF clean /\ outcome[r] = "true" THEN "last" ELSE "done")
       \/ /\ at[r] = "done"
          /\ UNCHANGED <<poolVars, at>>

(* `await upstream.aclose()`, then `await client.aclose()`.                *)
UpstreamClosesOnly(r) ==
    /\ iter[r] = "upclose"
    /\ upstream' = [upstream EXCEPT ![r] = "closed"]
    /\ IterOver(r, TRUE)
    /\ UNCHANGED <<lifespanVars, client, chunks, ttft, outcome, code>>

UpstreamCloses(r) ==
    /\ iter[r] = "upclose"
    /\ upstream' = [upstream EXCEPT ![r] = "closed"]
    /\ Turns(r, "clclose")
    /\ UNCHANGED <<poolVars, lifespanVars, at, client, chunks, ttft, outcome, code>>

ClientCloses(r) ==
    /\ iter[r] = "clclose"
    /\ client' = [client EXCEPT ![r] = "closed"]
    /\ IterOver(r, TRUE)
    /\ UNCHANGED <<lifespanVars, upstream, chunks, ttft, outcome, code>>

(* Either of them raises: what follows it in the `finally` is skipped.     *)
CloseFails(r) ==
    /\ \/ iter[r] = "upclose" /\ upstream' = [upstream EXCEPT ![r] = "unknown"]
                              /\ UNCHANGED client
       \/ iter[r] = "clclose" /\ client' = [client EXCEPT ![r] = "unknown"]
                              /\ UNCHANGED upstream
    /\ IterOver(r, FALSE)
    /\ UNCHANGED <<lifespanVars, chunks, ttft, outcome, code>>

-----------------------------------------------------------------------------
(* The interpreter finalizes a dropped asynchronous generator in a task of *)
(* its own.  The guard goes first, since it refers to the other: its       *)
(* `finally` releases the slot and does not close iterator().              *)
GuardFinalizedKeeps(r) ==
    /\ at[r] = "done" /\ iter[r] = "yielded"
    /\ Turns(r, "orphan")
    /\ UNCHANGED <<poolVars, lifespanVars, at, upstream, client, chunks, ttft, outcome, code>>

GuardFinalized(r) ==
    /\ at[r] = "done" /\ iter[r] = "yielded"
    /\ Turns(r, "orphan")
    /\ ReleaseSlot(r)
    /\ UNCHANGED <<lifespanVars, at, upstream, client, chunks, ttft, outcome, code>>

IteratorFinalized(r) ==
    /\ iter[r] = "orphan"
    /\ Finally(r, "false")
    /\ UNCHANGED <<poolVars, lifespanVars, at, upstream, client, chunks, ttft, code>>

(* The last message of a response, or the whole of an error response, is   *)
(* sent or cannot be; the middleware counts the request.                   *)
ResponseEnds(r) ==
    /\ at[r] \in {"last", "error"}
    /\ Goes(r, "done")
    /\ UNCHANGED <<poolVars, lifespanVars, streamVars, code>>

-----------------------------------------------------------------------------
(* Steps that wait for nothing, or for no longer than a timeout: the wait  *)
(* of acquire(), the upstream, closing connections, finalizers.            *)
ServerStep(r) ==
    \/ AcquireReturns(r) \/ AcquireTimesOut(r)
    \/ UpstreamAnswers(r) \/ (at[r] = "connect" /\ ProxyFails(r))
    \/ ChunkArrives(r) \/ UpstreamEnds(r) \/ UpstreamBreaks(r)
    \/ UpstreamCloses(r) \/ ClientCloses(r) \/ CloseFails(r)
    \/ GuardFinalized(r) \/ IteratorFinalized(r)

(* Steps that wait for the client.                                         *)
ClientStep(r) ==
    \/ Arrive(r) \/ BodyArrives(r) \/ (at[r] = "body" /\ ProxyFails(r))
    \/ HeadSent(r) \/ HeadFails(r) \/ ChunkSent(r) \/ SendFails(r) \/ ResponseEnds(r)

Next ==
    \/ Startup \/ ShutdownBegins \/ TaskStopped \/ ControllerResizes
    \/ \E r \in Request :
          ServerStep(r) \/ ClientStep(r) \/ Dispatched(r) \/ AcquireCancelled(r)

Spec == Init /\ [][Next]_vars

(* The event loop runs what is ready, and the wait of acquire(), the       *)
(* connection and every read from the upstream have timeouts.  Nothing     *)
(* bounds how long a client takes to send its body or to read a response.  *)
FairSpec == Spec /\ \A r \in Request : WF_vars(ServerStep(r))

-----------------------------------------------------------------------------
Served(r) == at[r] \in {"body", "connect", "head", "stream"}

(* Dropped with its iterators suspended, to be finalized.                  *)
Dropped(r) == at[r] = "done" /\ iter[r] = "yielded"

(* With caps on a request owns its slot from the dispatch until its stream *)
(* is over, on every path: it is never without one while it is served, and *)
(* after its end it owns one only while its iterators await finalization   *)
(* or were never started (main.py:186-212, proxy.py:40-62).                *)
SlotWhileServed ==
    CapsOn => \A r \in Request :
        /\ Served(r) => own[r] = "owning"
        /\ own[r] = "owning" => \/ Served(r) \/ at[r] = "acquire"
                                \/ Dropped(r) \/ iter[r] = "lost"

(* The gateway keeps to the scheduler's protocol: whatever fails, a slot   *)
(* is returned by its owner and once, and budgets change only until the    *)
(* scheduler is stopped (main.py:186-212, 108-115, core.py:142-157).       *)
KeepsProtocol == Pool!Spec

(* What the upstream has to do with: requests being sent to it, and        *)
(* responses that are not closed, whatever has become of their clients.    *)
Load == {r \in Request : at[r] = "connect" \/ upstream[r] = "open"}

(* A send failed, the guard has released the slot, and iterator() has not  *)
(* closed the upstream yet.                                                *)
Overhang == {r \in Request : at[r] = "done" /\ iter[r] \in {"orphan", "upclose"}}

(* The upstream has nothing to do with a request without a slot, from the  *)
(* connect on, except in the overhang: there the slot is free before the   *)
(* upstream is (proxy.py:32-62, main.py:186-212).                          *)
UpstreamUnderSlot == CapsOn => \A r \in Load \ Overhang : own[r] = "owning"

(* What the budget is for: the upstream's load, connects included, exceeds *)
(* the budget and the contraction still owed by no more than the surplus   *)
(* of a stop and the overhang, which it counts (core.py:224-249,           *)
(* main.py:186-212).                                                       *)
UpstreamWithinBudget ==
    CapsOn => Cardinality(Load) <= budget + debt + Cardinality(Overhang)
                 + Cardinality({r \in Request : own[r] = "surplus"})

(* And the overhang passes: the upstream of a request that no longer pays  *)
(* for it is closed, or closing it failed, without any help of the client  *)
(* (main.py:204-209, proxy.py:57-61).                                      *)
OverhangPasses == \A r \in Request : r \in Overhang ~> r \notin Load

(* When iterator() is over nothing it opened is left open, unless closing  *)
(* it failed (proxy.py:57-62).                                             *)
NothingLeftOpen ==
    \A r \in Request : iter[r] = "over" =>
        /\ upstream[r] # "open"
        /\ client[r] = "open" => upstream[r] = "unknown"

(* The samples of a stream agree with what happened: one that ended        *)
(* cleanly delivered every chunk and has its TTFT sample, one that ended   *)
(* at all has an outcome (proxy.py:41-60).                                 *)
SamplesTrue ==
    \A r \in Request :
        /\ outcome[r] = "true" => chunks[r] = 0 /\ ttft[r] = 1
        /\ iter[r] \in {"upclose", "clclose", "over"} => outcome[r] # "none"

(* The counters, kept in three places at three times, tell one story of a  *)
(* finished request.  Without an answer of the upstream there is no sample *)
(* of a stream, and what is counted as refused opened nothing and was      *)
(* served no slot.  With an answer it is counted under the upstream's      *)
(* status and, as soon as iterator() is over, has an outcome; one lost at  *)
(* the head of its response never has (main.py:144-170, proxy.py:40-62).   *)
CountersAgree ==
    \A r \in Request : at[r] = "done" =>
        \/ /\ upstream[r] = "none" /\ outcome[r] = "none" /\ ttft[r] = 0
           /\ code[r] \in {"401", "504", "exc"}
           /\ code[r] # "exc" => client[r] = "none" /\ own[r] \in {"none", "refused", "leaked"}
        \/ /\ upstream[r] # "none"
           /\ code[r] \in Statuses \/ (code[r] = "exc" /\ iter[r] = "lost")
           /\ outcome[r] = "none" <=> iter[r] \in {"yielded", "orphan", "lost"}

(* A controller runs only beside the scheduler whose budget it changes:    *)
(* it is started after it and stopped before it, also when the startup     *)
(* fails half-way (main.py:66-115).                                        *)
ControllersUnderScheduler ==
    CapsOn /\ up \cap {"aimd", "watcher"} # {} => "drain" \in up /\ ~closed

(* Every key of the file admits the tenant of its last entry, as the       *)
(* scheduler knows it, or nobody if the id there is empty: ids and keys    *)
(* listed twice are resolved the same way by authentication, registry and  *)
(* scheduler (tenants.py:86-97, 184-198, core.py:46).                      *)
KeysServeTheirTenants ==
    phase \in {"serving", "stopping", "down"} =>
        \A i \in DOMAIN raw.tenants :
            LET key    == Key(raw.tenants[i])
                id     == raw.tenants[i].id
                tenant == Resolve(registry, key)
            IN  \/ \E j \in DOMAIN raw.tenants : j > i /\ Key(raw.tenants[j]) = key
                \/ id = "" /\ tenant = Nobody
                \/ id # "" /\ tenant.id = id /\ tenant = Scheduled(registry)[id]

AwaitsClient(r) ==
    \/ at[r] \in {"body", "head", "last", "error"}
    \/ at[r] = "stream" /\ iter[r] = "yielded"

ClientKeepsUp(r) == []<>~AwaitsClient(r)

(* Slots come back: a dispatched request whose client neither stalls nor   *)
(* is lost at the head of the response gives up its slot, however the      *)
(* upstream fails or ends its body (main.py:186-212, proxy.py:12, 19-62).  *)
SlotsComeBack ==
    \A r \in Request :
        ClientKeepsUp(r) =>
            (own[r] = "owning" ~> own[r] # "owning" \/ iter[r] = "lost")

(* "aimd/watcher pre-assigned to None so the finally block is safe even if *)
(* construction or start() raises before yield" (main.py:76-77): what was  *)
(* started is stopped when the startup fails.                              *)
FailedStartStopsAll == phase = "failed" => up = {}
================================================================================
