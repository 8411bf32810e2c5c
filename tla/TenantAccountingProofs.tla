----------------------- MODULE TenantAccountingProofs -----------------------
(* The scheduler's counters against the requests they stand for: what      *)
(* live_count and the in-flight count are equal to in every reachable      *)
(* state, exactly.                                                         *)
EXTENDS TenantSchedulerProofs

(* A request has a future from its admission on, which is pending only     *)
(* while acquire() waits for it.                                           *)
Coherent ==
    \A r \in Request :
        /\ call[r] = "new" => future[r] = "none"
        /\ call[r] = "waiting" => future[r] # "none"
        /\ future[r] = "pending" => call[r] = "waiting"

(* A tenant's queue holds requests of that tenant.                         *)
QueueOwn == \A t \in Tenant : \A i \in DOMAIN queue[t] : TenantOf[queue[t][i]] = t

(* What a request contributes to its tenant's live_count ...               *)
LiveWeight(r) ==
    IF call[r] = "waiting" /\ future[r] \in {"pending", "cancelled"} THEN 1
    ELSE IF call[r] = "expired" /\ future[r] \in {"result", "error"} THEN -1
    ELSE 0

(* ... and to the number of slots in flight.                               *)
SlotWeight(r) ==
    IF \/ call[r] = "held"
       \/ call[r] \in {"waiting", "expired"} /\ future[r] = "result" THEN 1
    ELSE IF call[r] = "cancelled" /\ future[r] = "error" THEN -1
    ELSE 0

(* A step that concerns at most request r.                                 *)
OnlyMoves(r) ==
    \A q \in Request \ {r} : call'[q] = call[q] /\ future'[q] = future[q]

(* A set of requests that differs at most by one request changes size      *)
(* accordingly.                                                            *)
LEMMA CardMove ==
  ASSUME NEW S \in SUBSET Request, NEW T \in SUBSET Request,
         NEW r, S \ {r} = T \ {r}
  PROVE  /\ Cardinality(S) \in Nat /\ Cardinality(T) \in Nat
         /\ Cardinality(T) = Cardinality(S) + (IF r \in T THEN 1 ELSE 0)
                                            - (IF r \in S THEN 1 ELSE 0)
  <1>1. /\ IsFiniteSet(S) /\ Cardinality(S) \in Nat
        /\ IsFiniteSet(T) /\ Cardinality(T) \in Nat
    BY RequestSubset
  <1>2. Cardinality(S \ {r}) = IF r \in S THEN Cardinality(S) - 1 ELSE Cardinality(S)
    BY <1>1, FS_RemoveElement
  <1>3. Cardinality(T \ {r}) = IF r \in T THEN Cardinality(T) - 1 ELSE Cardinality(T)
    BY <1>1, FS_RemoveElement
  <1> QED
    BY <1>1, <1>2, <1>3

(* live_count stays exact when it moves with the request's contribution.   *)
LEMMA LiveMoves ==
  ASSUME TypeOK, LiveExact, NEW r \in Request, OnlyMoves(r),
         live' = [live EXCEPT ![TenantOf[r]] = @ + LiveWeight(r)' - LiveWeight(r)]
  PROVE  LiveExact'
  <1> SUFFICES ASSUME NEW t \in Tenant
               PROVE  live'[t] = Cardinality(Unserved(t)') - Cardinality(Raced(t)')
    BY DEF LiveExact
  <1>1. /\ Unserved(t) \in SUBSET Request /\ Unserved(t)' \in SUBSET Request
        /\ Raced(t) \in SUBSET Request /\ Raced(t)' \in SUBSET Request
    BY DEF Unserved, Raced
  <1>2. Unserved(t) \ {r} = Unserved(t)' \ {r} /\ Raced(t) \ {r} = Raced(t)' \ {r}
    BY DEF Unserved, Raced, OnlyMoves
  <1>3. /\ Cardinality(Unserved(t)) \in Nat /\ Cardinality(Unserved(t)') \in Nat
        /\ Cardinality(Unserved(t)') = Cardinality(Unserved(t))
             + (IF r \in Unserved(t)' THEN 1 ELSE 0) - (IF r \in Unserved(t) THEN 1 ELSE 0)
    BY <1>1, <1>2, CardMove
  <1>4. /\ Cardinality(Raced(t)) \in Nat /\ Cardinality(Raced(t)') \in Nat
        /\ Cardinality(Raced(t)') = Cardinality(Raced(t))
             + (IF r \in Raced(t)' THEN 1 ELSE 0) - (IF r \in Raced(t) THEN 1 ELSE 0)
    BY <1>1, <1>2, CardMove
  <1>5. live \in [Tenant -> Int] /\ live[t] = Cardinality(Unserved(t)) - Cardinality(Raced(t))
    BY DEF TypeOK, LiveExact
  <1>6. CASE TenantOf[r] = t
    <2>1. LiveWeight(r) = (IF r \in Unserved(t) THEN 1 ELSE 0) - (IF r \in Raced(t) THEN 1 ELSE 0)
      BY <1>6 DEF LiveWeight, Unserved, Raced
    <2>2. LiveWeight(r)' = (IF r \in Unserved(t)' THEN 1 ELSE 0) - (IF r \in Raced(t)' THEN 1 ELSE 0)
      BY <1>6 DEF LiveWeight, Unserved, Raced
    <2>3. live'[t] = live[t] + LiveWeight(r)' - LiveWeight(r)
      BY <1>5, <1>6
    <2> QED
      BY <1>3, <1>4, <1>5, <2>1, <2>2, <2>3
  <1>7. CASE TenantOf[r] # t
    <2>1. /\ r \notin Unserved(t) /\ r \notin Unserved(t)'
          /\ r \notin Raced(t) /\ r \notin Raced(t)'
      BY <1>7 DEF Unserved, Raced
    <2>2. live'[t] = live[t]
      BY <1>5, <1>7
    <2> QED
      BY <1>3, <1>4, <1>5, <2>1, <2>2
  <1> QED
    BY <1>6, <1>7

(* The in-flight count stays exact when it moves with the request's        *)
(* contribution.                                                           *)
LEMMA InflightMoves ==
  ASSUME TypeOK, InflightExact, NEW r \in Request, OnlyMoves(r),
         inflight' = inflight + SlotWeight(r)' - SlotWeight(r)
  PROVE  InflightExact'
  <1>1. /\ Owner \in SUBSET Request /\ Owner' \in SUBSET Request
        /\ Leaked \in SUBSET Request /\ Leaked' \in SUBSET Request
        /\ Ghost \in SUBSET Request /\ Ghost' \in SUBSET Request
    BY DEF Owner, Leaked, Ghost
  <1>2. /\ Owner \ {r} = Owner' \ {r} /\ Leaked \ {r} = Leaked' \ {r}
        /\ Ghost \ {r} = Ghost' \ {r}
    BY DEF Owner, Leaked, Ghost, OnlyMoves
  <1>3. /\ Cardinality(Owner) \in Nat /\ Cardinality(Owner') \in Nat
        /\ Cardinality(Owner') = Cardinality(Owner)
             + (IF r \in Owner' THEN 1 ELSE 0) - (IF r \in Owner THEN 1 ELSE 0)
    BY <1>1, <1>2, CardMove
  <1>4. /\ Cardinality(Leaked) \in Nat /\ Cardinality(Leaked') \in Nat
        /\ Cardinality(Leaked') = Cardinality(Leaked)
             + (IF r \in Leaked' THEN 1 ELSE 0) - (IF r \in Leaked THEN 1 ELSE 0)
    BY <1>1, <1>2, CardMove
  <1>5. /\ Cardinality(Ghost) \in Nat /\ Cardinality(Ghost') \in Nat
        /\ Cardinality(Ghost') = Cardinality(Ghost)
             + (IF r \in Ghost' THEN 1 ELSE 0) - (IF r \in Ghost THEN 1 ELSE 0)
    BY <1>1, <1>2, CardMove
  <1>6. SlotWeight(r) = (IF r \in Owner THEN 1 ELSE 0) + (IF r \in Leaked THEN 1 ELSE 0)
                          - (IF r \in Ghost THEN 1 ELSE 0)
    BY DEF SlotWeight, Owner, Leaked, Ghost
  <1>7. SlotWeight(r)' = (IF r \in Owner' THEN 1 ELSE 0) + (IF r \in Leaked' THEN 1 ELSE 0)
                           - (IF r \in Ghost' THEN 1 ELSE 0)
    BY DEF SlotWeight, Owner, Leaked, Ghost
  <1>8. inflight \in Int
    BY DEF TypeOK
  <1> QED
    BY <1>3, <1>4, <1>5, <1>6, <1>7, <1>8 DEF InflightExact

-----------------------------------------------------------------------------
(* Every step keeps calls and futures coherent.                            *)
LEMMA CoherentStep == TypeOK /\ Coherent /\ [Next]_vars => Coherent'
  <1> SUFFICES ASSUME TypeOK, Coherent, [Next]_vars PROVE Coherent'
    OBVIOUS
  <1> call \in [Request -> {"new", "waiting", "held", "released", "shed", "expired", "cancelled"}]
        /\ future \in [Request -> {"none", "pending", "result", "error", "cancelled"}]
        /\ queue \in [Tenant -> Seq(Request)] /\ idx \in Tenant
    BY DEF TypeOK
  <1> USE DEF Coherent
  <1>1. ASSUME NEW r \in Request,
               Acquire(r) \/ TimerFires(r) \/ CancelCaller(r) \/ TaskWakes(r) \/ Release(r)
        PROVE  Coherent'
    BY <1>1 DEF Acquire, TimerFires, CancelCaller, Interrupt, Awake, TaskWakes,
       AcquireReturns, AcquireStopped, AcquireTimesOut, AcquireCancelled, Release
  <1>2. ASSUME NEW w, NEW c, ResizeBudget(w, c) PROVE Coherent'
    BY <1>2 DEF ResizeBudget, reqVars
  <1>3. CASE DrainDispatches
    <2>1. PICK i \in LiveAt(Current) :
                 future' = [future EXCEPT ![queue[Current][i]] = "result"]
      BY <1>3 DEF DrainDispatches
    <2>2. queue[Current][i] \in Request /\ IsLive(queue[Current][i])
      BY <2>1, RoundStays DEF LiveAt
    <2> QED
      BY <1>3, <2>1, <2>2 DEF DrainDispatches, IsLive
  <1>4. CASE StopFlushes
    <2>1. \A r \in Request : r \in Flushed(TenantOf[r]) => future[r] = "pending"
      BY DEF Flushed, LiveAt, IsLive
    <2> QED
      BY <1>4, <2>1 DEF StopFlushes
  <1>5. CASE \/ DrainResumes \/ DrainSleeps \/ DrainVisits \/ DrainAcquires
             \/ DrainPutsBack \/ DrainUnwinds \/ StopCancelsDrain
    BY <1>5 DEF DrainResumes, DrainSleeps, DrainVisits, DrainAcquires, DrainPutsBack,
       DrainUnwinds, StopCancelsDrain, reqVars
  <1>6. CASE UNCHANGED vars
    BY <1>6 DEF vars, reqVars
  <1> QED
    BY <1>1, <1>2, <1>3, <1>4, <1>5, <1>6 DEF Next, DrainStep, SetCapPerWorker, SetNumWorkers

(* The steps that leave the queues alone and make no future pending.       *)
LEMMA QueueStutter ==
  ASSUME QueueOwn, PendingQueued, UNCHANGED queue,
         \A r \in Request : future'[r] = "pending" => future[r] = "pending"
  PROVE  QueueOwn' /\ PendingQueued'
  BY DEF QueueOwn, PendingQueued

(* A longer queue: the old entries stay where they were, one is added.     *)
LEMMA AppendAt ==
  ASSUME NEW s \in Seq(Request), NEW x \in Request
  PROVE  /\ DOMAIN Append(s, x) = 1 .. Len(s) + 1
         /\ Append(s, x)[Len(s) + 1] = x
         /\ \A i \in DOMAIN s : i \in DOMAIN Append(s, x) /\ Append(s, x)[i] = s[i]
         /\ \A i \in DOMAIN Append(s, x) : i \in DOMAIN s \/ i = Len(s) + 1
  <1>1. DOMAIN Append(s, x) = 1 .. Len(s) + 1 /\ DOMAIN s = 1 .. Len(s) /\ Len(s) \in Nat
    OBVIOUS
  <1>2. Append(s, x)[Len(s) + 1] = x
    OBVIOUS
  <1>3. \A i \in 1 .. Len(s) : Append(s, x)[i] = s[i]
    OBVIOUS
  <1> QED
    BY <1>1, <1>2, <1>3

(* Queueing an arrival at the tail keeps the queues' invariants.           *)
LEMMA AcquireQueues ==
  ASSUME TypeOK, QueueOwn, PendingQueued, NEW r \in Request, Acquire(r)
  PROVE  QueueOwn' /\ PendingQueued'
  <1> DEFINE t == TenantOf[r]
  <1>1. t \in Tenant /\ queue \in [Tenant -> Seq(Request)]
        /\ future \in [Request -> {"none", "pending", "result", "error", "cancelled"}]
    BY RequestAssumption DEF TypeOK
  <1>2. CASE Full(t)
    BY <1>2, QueueStutter DEF Acquire
  <1>3. CASE ~Full(t)
    <2> HIDE DEF t
    <2>1. queue' = [queue EXCEPT ![t] = Append(queue[t], r)]
          /\ future' = [future EXCEPT ![r] = "pending"]
      BY <1>3 DEF Acquire, t
    <2>2. /\ DOMAIN queue'[t] = 1 .. Len(queue[t]) + 1
          /\ queue'[t][Len(queue[t]) + 1] = r
          /\ \A i \in DOMAIN queue[t] : i \in DOMAIN queue'[t] /\ queue'[t][i] = queue[t][i]
          /\ \A i \in DOMAIN queue'[t] : i \in DOMAIN queue[t] \/ i = Len(queue[t]) + 1
      <3>1. queue[t] \in Seq(Request) /\ queue'[t] = Append(queue[t], r)
        BY <1>1, <2>1
      <3> QED
        BY <3>1, AppendAt
    <2>3. \A u \in Tenant \ {t} : queue'[u] = queue[u]
      BY <1>1, <2>1
    <2>4. QueueOwn'
      <3> SUFFICES ASSUME NEW u \in Tenant, NEW i \in DOMAIN queue'[u]
                   PROVE  TenantOf[queue'[u][i]] = u
        BY DEF QueueOwn
      <3>1. CASE u # t
        BY <2>3, <3>1 DEF QueueOwn
      <3>2. CASE u = t /\ i \in DOMAIN queue[t]
        <4>1. queue'[t][i] = queue[t][i]
          BY <2>2, <3>2
        <4> QED
          BY <3>2, <4>1 DEF QueueOwn
      <3>3. CASE u = t /\ i = Len(queue[t]) + 1
        <4>1. queue'[u][i] = r
          BY <2>2, <3>3
        <4> QED
          BY <3>3, <4>1 DEF t
      <3> QED
        BY <2>2, <3>1, <3>2, <3>3
    <2>5. PendingQueued'
      <3> SUFFICES ASSUME NEW q \in Request, future'[q] = "pending"
                   PROVE  \E i \in DOMAIN queue'[TenantOf[q]] : queue'[TenantOf[q]][i] = q
        BY DEF PendingQueued
      <3>1. CASE q = r
        <4>1. Len(queue[t]) + 1 \in DOMAIN queue'[t]
          BY <1>1, <2>2
        <4> QED
          BY <3>1, <2>2, <4>1 DEF t
      <3>2. CASE q # r
        <4>1. PICK i \in DOMAIN queue[TenantOf[q]] : queue[TenantOf[q]][i] = q
          BY <1>1, <2>1, <3>2 DEF PendingQueued
        <4>2. TenantOf[q] \in Tenant
          BY RequestAssumption
        <4> QED
          BY <2>2, <2>3, <4>1, <4>2
      <3> QED
        BY <3>1, <3>2
    <2> QED
      BY <2>4, <2>5
  <1> QED
    BY <1>2, <1>3

(* Popping down to the first live entry drops nothing that is pending.     *)
LEMMA DispatchQueues ==
  ASSUME TypeOK, Coherent, QueueOwn, PendingQueued, DrainDispatches
  PROVE  QueueOwn' /\ PendingQueued'
  <1> DEFINE t == Current
  <1>1. t \in Tenant /\ queue \in [Tenant -> Seq(Request)]
        /\ future \in [Request -> {"none", "pending", "result", "error", "cancelled"}]
    BY RoundStays DEF TypeOK
  <1>2. PICK k \in LiveAt(t) :
           /\ \A j \in LiveAt(t) : k <= j
           /\ future' = [future EXCEPT ![queue[t][k]] = "result"]
           /\ queue' = [queue EXCEPT ![t] = SubSeq(queue[t], k + 1, Len(queue[t]))]
    BY DEF DrainDispatches
  <1> HIDE DEF t
  <1>3. k \in 1 .. Len(queue[t]) /\ queue[t][k] \in Request
    BY <1>1, <1>2 DEF LiveAt
  <1> DEFINE rest == SubSeq(queue[t], k + 1, Len(queue[t]))
  <1>4. /\ rest \in Seq(Request)
        /\ Len(rest) = Len(queue[t]) - k
        /\ \A j \in 1 .. Len(queue[t]) - k : rest[j] = queue[t][k + j]
    <2>1. \A j \in k + 1 .. Len(queue[t]) : queue[t][j] \in Request
      BY <1>1, <1>3
    <2>2. k + 1 \in Int /\ Len(queue[t]) \in Int
      BY <1>1, <1>3
    <2> HIDE DEF rest
    <2>3. /\ rest \in Seq(Request)
          /\ Len(rest) = IF k + 1 <= Len(queue[t]) THEN Len(queue[t]) - (k + 1) + 1 ELSE 0
          /\ \A j \in 1 .. Len(queue[t]) - (k + 1) + 1 : rest[j] = queue[t][(k + 1) + j - 1]
      BY <2>1, <2>2, SubSeqProperties DEF rest
    <2> QED
      BY <1>1, <1>3, <2>3
  <1>5. queue'[t] = rest /\ \A u \in Tenant \ {t} : queue'[u] = queue[u]
    BY <1>1, <1>2
  <1> HIDE DEF rest
  <1>6. QueueOwn'
    <2> SUFFICES ASSUME NEW u \in Tenant, NEW i \in DOMAIN queue'[u]
                 PROVE  TenantOf[queue'[u][i]] = u
      BY DEF QueueOwn
    <2>1. CASE u = t
      <3>1. i \in 1 .. Len(queue[t]) - k
        BY <1>4, <1>5, <2>1
      <3>2. k + i \in DOMAIN queue[t]
        BY <1>1, <1>3, <3>1
      <3> QED
        BY <1>1, <1>4, <1>5, <2>1, <3>1, <3>2 DEF QueueOwn
    <2>2. CASE u # t
      BY <1>5, <2>2 DEF QueueOwn
    <2> QED
      BY <2>1, <2>2
  <1>7. PendingQueued'
    <2> SUFFICES ASSUME NEW q \in Request, future'[q] = "pending"
                 PROVE  \E i \in DOMAIN queue'[TenantOf[q]] : queue'[TenantOf[q]][i] = q
      BY DEF PendingQueued
    <2>1. q # queue[t][k] /\ future[q] = "pending"
      BY <1>1, <1>2, <1>3
    <2>2. PICK j \in DOMAIN queue[TenantOf[q]] : queue[TenantOf[q]][j] = q
      BY <2>1 DEF PendingQueued
    <2>3. TenantOf[q] \in Tenant
      BY RequestAssumption
    <2>4. CASE TenantOf[q] = t
      <3>1. j \in LiveAt(t)
        BY <2>1, <2>2, <2>4 DEF LiveAt, IsLive, Coherent
      <3>2. j \in 1 .. Len(queue[t]) /\ k <= j /\ j # k
        BY <1>1, <1>2, <2>1, <2>2, <2>4, <3>1
      <3>3. j - k \in 1 .. Len(queue[t]) - k /\ k + (j - k) = j
        BY <1>1, <1>3, <3>2
      <3>4. j - k \in DOMAIN rest /\ rest[j - k] = q
        BY <1>4, <2>2, <2>4, <3>3
      <3> QED
        BY <1>5, <2>4, <3>4
    <2>5. CASE TenantOf[q] # t
      BY <1>5, <2>2, <2>3, <2>5
    <2> QED
      BY <2>4, <2>5
  <1> QED
    BY <1>6, <1>7

(* Every step keeps the queues' invariants.                                *)
LEMMA QueueStep ==
  TypeOK /\ Coherent /\ QueueOwn /\ PendingQueued /\ [Next]_vars => QueueOwn' /\ PendingQueued'
  <1> SUFFICES ASSUME TypeOK, Coherent, QueueOwn, PendingQueued, [Next]_vars
               PROVE  QueueOwn' /\ PendingQueued'
    OBVIOUS
  <1>t. queue \in [Tenant -> Seq(Request)] /\ idx \in Tenant
        /\ future \in [Request -> {"none", "pending", "result", "error", "cancelled"}]
    BY DEF TypeOK
  <1>1. ASSUME NEW r \in Request, TimerFires(r) \/ CancelCaller(r) \/ TaskWakes(r) \/ Release(r)
        PROVE  QueueOwn' /\ PendingQueued'
    <2>1. UNCHANGED queue /\ \A q \in Request : future'[q] = "pending" => future[q] = "pending"
      BY <1>t, <1>1 DEF TimerFires, CancelCaller, Interrupt, TaskWakes, AcquireReturns,
         AcquireStopped, AcquireTimesOut, AcquireCancelled, Release, queueVars
    <2> QED
      BY <2>1, QueueStutter
  <1>2. ASSUME NEW w, NEW c, ResizeBudget(w, c) PROVE QueueOwn' /\ PendingQueued'
    BY <1>2, QueueStutter DEF ResizeBudget, reqVars, queueVars
  <1>3. CASE \/ DrainResumes \/ DrainSleeps \/ DrainVisits \/ DrainAcquires
             \/ DrainUnwinds \/ StopCancelsDrain
    BY <1>3, QueueStutter DEF DrainResumes, DrainSleeps, DrainVisits, DrainAcquires,
       DrainUnwinds, StopCancelsDrain, reqVars, queueVars
  <1>4. CASE DrainPutsBack
    <2>1. Current \in Tenant /\ LiveAt(Current) = {} /\ UNCHANGED future
          /\ queue' = [queue EXCEPT ![Current] = <<>>]
      BY <1>t, <1>4, RoundStays DEF DrainPutsBack, reqVars
    <2>2. \A q \in Request : future[q] = "pending" => TenantOf[q] # Current
      BY <2>1 DEF PendingQueued, LiveAt, IsLive, Coherent
    <2>3. queue'[Current] = <<>> /\ \A u \in Tenant \ {Current} : queue'[u] = queue[u]
      BY <1>t, <2>1
    <2>4. QueueOwn'
      BY <2>3 DEF QueueOwn
    <2>5. PendingQueued'
      BY <2>1, <2>2, <2>3, RequestAssumption DEF PendingQueued
    <2> QED
      BY <2>4, <2>5
  <1>5. CASE StopFlushes
    <2>1. \A q \in Request : future[q] = "pending" => q \in Flushed(TenantOf[q])
      BY DEF PendingQueued, Flushed, LiveAt, IsLive, Coherent
    <2>2. \A q \in Request : future'[q] # "pending"
      BY <1>5, <2>1 DEF StopFlushes
    <2>3. \A u \in Tenant : queue'[u] = <<>>
      BY <1>5 DEF StopFlushes
    <2> QED
      BY <2>2, <2>3 DEF QueueOwn, PendingQueued
  <1>6. CASE UNCHANGED vars
    BY <1>6, QueueStutter DEF vars, reqVars, queueVars
  <1> QED
    BY <1>1, <1>2, <1>3, <1>4, <1>5, <1>6, AcquireQueues, DispatchQueues
    DEF Next, DrainStep, SetCapPerWorker, SetNumWorkers

-----------------------------------------------------------------------------
Exact == LiveExact /\ InflightExact

(* A step changes the counters by what it changes of r's contributions.    *)
LiveTracks(r) == live' = [live EXCEPT ![TenantOf[r]] = @ + LiveWeight(r)' - LiveWeight(r)]
InflightTracks(r) == inflight' = inflight + SlotWeight(r)' - SlotWeight(r)

(* Steps in which no request moves.                                        *)
LEMMA ExactStutter ==
  ASSUME Exact, UNCHANGED <<call, future, live, inflight>>
  PROVE  Exact'
  BY DEF Exact, LiveExact, InflightExact, Unserved, Raced, Owner, Leaked, Ghost

(* Steps in which one request moves, and both counters with it.            *)
LEMMA ExactMoves ==
  ASSUME TypeOK, Exact, NEW r \in Request, OnlyMoves(r),
         LiveTracks(r),
         InflightTracks(r)
  PROVE  Exact'
  BY LiveMoves, InflightMoves DEF Exact, LiveTracks, InflightTracks

(* The counters that a step leaves alone, in the form ExactMoves asks for. *)
LEMMA LiveUnmoved ==
  ASSUME TypeOK, NEW r \in Request, UNCHANGED live, LiveWeight(r)' = LiveWeight(r)
  PROVE  LiveTracks(r)
  <1>1. live \in [Tenant -> Int] /\ TenantOf[r] \in Tenant /\ LiveWeight(r) \in Int
    BY RequestAssumption DEF TypeOK, LiveWeight
  <1>2. live[TenantOf[r]] + LiveWeight(r)' - LiveWeight(r) = live[TenantOf[r]]
    BY <1>1
  <1> QED
    BY <1>1, <1>2 DEF LiveTracks

(* The tenant's count gains or loses the request.                          *)
LEMMA LiveGains ==
  ASSUME TypeOK, NEW r \in Request, LiveWeight(r)' = LiveWeight(r) + 1,
         live' = [live EXCEPT ![TenantOf[r]] = live[TenantOf[r]] + 1]
  PROVE  LiveTracks(r)
  <1>1. live \in [Tenant -> Int] /\ TenantOf[r] \in Tenant /\ LiveWeight(r) \in Int
    BY RequestAssumption DEF TypeOK, LiveWeight
  <1>2. live[TenantOf[r]] + LiveWeight(r)' - LiveWeight(r) = live[TenantOf[r]] + 1
    BY <1>1
  <1> QED
    BY <1>1, <1>2 DEF LiveTracks

(* The same for a request that leaves the count.                           *)
LEMMA LiveLoses ==
  ASSUME TypeOK, NEW r \in Request, LiveWeight(r)' = LiveWeight(r) - 1,
         live' = [live EXCEPT ![TenantOf[r]] = live[TenantOf[r]] - 1]
  PROVE  LiveTracks(r)
  <1>1. live \in [Tenant -> Int] /\ TenantOf[r] \in Tenant /\ LiveWeight(r) \in Int
    BY RequestAssumption DEF TypeOK, LiveWeight
  <1>2. live[TenantOf[r]] + LiveWeight(r)' - LiveWeight(r) = live[TenantOf[r]] - 1
    BY <1>1
  <1> QED
    BY <1>1, <1>2 DEF LiveTracks

(* The slot's side of a step, in the same form.                            *)
LEMMA InflightMovedBy ==
  ASSUME TypeOK, NEW r \in Request,
         \/ inflight' = inflight /\ SlotWeight(r)' = SlotWeight(r)
         \/ inflight' = inflight + 1 /\ SlotWeight(r)' = SlotWeight(r) + 1
         \/ inflight' = inflight - 1 /\ SlotWeight(r)' = SlotWeight(r) - 1
  PROVE  InflightTracks(r)
  <1>1. inflight \in Int /\ SlotWeight(r) \in Int
    BY DEF TypeOK, SlotWeight
  <1> QED
    BY <1>1 DEF InflightTracks

(* The steps of one request keep both counters exact.                      *)
LEMMA ExactStepRequest ==
  ASSUME TypeOK, Coherent, Exact, NEW r \in Request,
         Acquire(r) \/ TimerFires(r) \/ CancelCaller(r) \/ TaskWakes(r) \/ Release(r)
  PROVE  Exact'
  <1>t. /\ call \in [Request -> {"new", "waiting", "held", "released",
                                 "shed", "expired", "cancelled"}]
        /\ future \in [Request -> {"none", "pending", "result", "error", "cancelled"}]
        /\ inflight \in Int /\ live \in [Tenant -> Int] /\ TenantOf[r] \in Tenant
    BY RequestAssumption DEF TypeOK
  <1>c. /\ call[r] = "new" => future[r] = "none"
        /\ call[r] = "waiting" => future[r] # "none"
    BY DEF Coherent
  <1>1. OnlyMoves(r)
    BY <1>t DEF OnlyMoves, Acquire, TimerFires, CancelCaller, Interrupt, TaskWakes,
       AcquireReturns, AcquireStopped, AcquireTimesOut, AcquireCancelled, Release
  <1>2. CASE Acquire(r)
    <2>1. inflight' = inflight /\ SlotWeight(r)' = SlotWeight(r)
      BY <1>t, <1>c, <1>2 DEF Acquire, SlotWeight, slotVars
    <2>2. CASE Full(TenantOf[r])
      <3>1. UNCHANGED live /\ LiveWeight(r)' = LiveWeight(r)
        BY <1>t, <1>c, <1>2, <2>2 DEF Acquire, LiveWeight
      <3> QED
        BY <1>t, <1>1, <2>1, <3>1, LiveUnmoved, InflightMovedBy, ExactMoves
    <2>3. CASE ~Full(TenantOf[r])
      <3>1. live' = [live EXCEPT ![TenantOf[r]] = live[TenantOf[r]] + 1] /\ LiveWeight(r)' = LiveWeight(r) + 1
        BY <1>t, <1>c, <1>2, <2>3 DEF Acquire, LiveWeight
      <3>2. LiveTracks(r)
        BY <3>1, LiveGains
      <3> QED
        BY <1>t, <1>1, <2>1, <3>2, InflightMovedBy, ExactMoves
    <2> QED
      BY <2>2, <2>3
  <1>3. CASE TimerFires(r) \/ CancelCaller(r)
    <2>1. UNCHANGED <<live, inflight>> /\ LiveWeight(r)' = LiveWeight(r)
          /\ SlotWeight(r)' = SlotWeight(r)
      BY <1>t, <1>3 DEF TimerFires, CancelCaller, Interrupt, LiveWeight, SlotWeight,
         queueVars, slotVars
    <2> QED
      BY <1>t, <1>1, <2>1, LiveUnmoved, InflightMovedBy, ExactMoves
  <1>4. CASE AcquireReturns(r) \/ AcquireStopped(r)
    <2>1. UNCHANGED <<live, inflight>> /\ LiveWeight(r)' = LiveWeight(r)
          /\ SlotWeight(r)' = SlotWeight(r)
      BY <1>t, <1>4 DEF AcquireReturns, AcquireStopped, Awake, LiveWeight, SlotWeight,
         queueVars, slotVars
    <2> QED
      BY <1>t, <1>1, <2>1, LiveUnmoved, InflightMovedBy, ExactMoves
  <1>5. CASE AcquireTimesOut(r)
    <2>1. live' = [live EXCEPT ![TenantOf[r]] = live[TenantOf[r]] - 1]
      BY <1>t, <1>5 DEF AcquireTimesOut
    <2>2. LiveWeight(r)' = LiveWeight(r) - 1
      BY <1>t, <1>c, <1>5 DEF AcquireTimesOut, Awake, LiveWeight
    <2>3. inflight' = inflight /\ SlotWeight(r)' = SlotWeight(r)
      BY <1>t, <1>5 DEF AcquireTimesOut, Awake, SlotWeight, slotVars
    <2>4. LiveTracks(r)
      BY <2>1, <2>2, LiveLoses
    <2> QED
      BY <1>t, <1>1, <2>3, <2>4, InflightMovedBy, ExactMoves
  <1>6. CASE AcquireCancelled(r)
    <2>1. CASE Settled(r)
      <3>1. UNCHANGED live /\ LiveWeight(r)' = LiveWeight(r)
        BY <1>t, <1>6, <2>1 DEF AcquireCancelled, Awake, Settled, LiveWeight
      <3>2. inflight' = inflight - 1
        BY <1>6, <2>1 DEF AcquireCancelled, ReleaseSlot
      <3>3. SlotWeight(r)' = SlotWeight(r) - 1
        BY <1>t, <1>c, <1>6, <2>1 DEF AcquireCancelled, Awake, Settled, SlotWeight
      <3> QED
        BY <1>t, <1>1, <3>1, <3>2, <3>3, LiveUnmoved, InflightMovedBy, ExactMoves
    <2>2. CASE ~Settled(r)
      <3>1. live' = [live EXCEPT ![TenantOf[r]] = live[TenantOf[r]] - 1]
        BY <1>t, <1>6, <2>2 DEF AcquireCancelled
      <3>2. LiveWeight(r)' = LiveWeight(r) - 1
        BY <1>t, <1>6, <2>2 DEF AcquireCancelled, Awake, Settled, LiveWeight
      <3>3. inflight' = inflight /\ SlotWeight(r)' = SlotWeight(r)
        BY <1>t, <1>6, <2>2 DEF AcquireCancelled, Awake, Settled, SlotWeight, slotVars
      <3>4. LiveTracks(r)
        BY <3>1, <3>2, LiveLoses
      <3> QED
        BY <1>t, <1>1, <3>3, <3>4, InflightMovedBy, ExactMoves
    <2> QED
      BY <2>1, <2>2
  <1>7. CASE Release(r)
    <2>1. UNCHANGED live /\ LiveWeight(r)' = LiveWeight(r)
      BY <1>t, <1>7 DEF Release, LiveWeight, queueVars
    <2>2. inflight' = inflight - 1
      BY <1>7 DEF Release, ReleaseSlot
    <2>3. SlotWeight(r)' = SlotWeight(r) - 1
      BY <1>t, <1>7 DEF Release, SlotWeight
    <2> QED
      BY <1>t, <1>1, <2>1, <2>2, <2>3, LiveUnmoved, InflightMovedBy, ExactMoves
  <1> QED
    BY <1>2, <1>3, <1>4, <1>5, <1>6, <1>7 DEF TaskWakes

(* A dispatch takes the request out of the live ones and puts its slot in  *)
(* flight.                                                                 *)
LEMMA ExactStepDispatch ==
  ASSUME TypeOK, Coherent, QueueOwn, Exact, DrainDispatches
  PROVE  Exact'
  <1>1. /\ call \in [Request -> {"new", "waiting", "held", "released",
                                 "shed", "expired", "cancelled"}]
        /\ future \in [Request -> {"none", "pending", "result", "error", "cancelled"}]
        /\ inflight \in Int /\ live \in [Tenant -> Int] /\ queue \in [Tenant -> Seq(Request)]
        /\ Current \in Tenant
    BY RoundStays DEF TypeOK
  <1>2. PICK i \in LiveAt(Current) : future' = [future EXCEPT ![queue[Current][i]] = "result"]
    BY DEF DrainDispatches
  <1>3. PICK r \in Request : r = queue[Current][i]
    BY <1>1, <1>2 DEF LiveAt
  <1>4. /\ TenantOf[r] = Current /\ call[r] = "waiting" /\ future[r] = "pending"
        /\ future' = [future EXCEPT ![r] = "result"] /\ UNCHANGED call
    BY <1>1, <1>2, <1>3 DEF LiveAt, IsLive, Coherent, QueueOwn, DrainDispatches
  <1>5. live' = [live EXCEPT ![TenantOf[r]] = live[TenantOf[r]] - 1]
    <2>1. live' = [live EXCEPT ![Current] = live[Current] - 1]
      BY DEF DrainDispatches
    <2> QED
      BY <1>4, <2>1
  <1>6. LiveWeight(r)' = LiveWeight(r) - 1 /\ SlotWeight(r)' = SlotWeight(r) + 1
    BY <1>1, <1>4 DEF LiveWeight, SlotWeight
  <1>7. OnlyMoves(r)
    BY <1>1, <1>4 DEF OnlyMoves
  <1>8. LiveTracks(r)
    BY <1>5, <1>6, LiveLoses
  <1>9. InflightTracks(r)
    <2>1. inflight' = inflight + 1
      BY DEF DrainDispatches
    <2> QED
      BY <1>6, <2>1, InflightMovedBy
  <1> QED
    BY <1>7, <1>8, <1>9, ExactMoves

(* stop() takes as many requests off a tenant's count as it fails.         *)
LEMMA ExactStepFlush ==
  ASSUME TypeOK, Coherent, QueueOwn, Exact, StopFlushes
  PROVE  Exact'
  <1>1. /\ future \in [Request -> {"none", "pending", "result", "error", "cancelled"}]
        /\ queue \in [Tenant -> Seq(Request)] /\ live \in [Tenant -> Int] /\ inflight \in Int
    BY DEF TypeOK
  <1>2. /\ UNCHANGED <<call, inflight>>
        /\ \A r \in Request :
              future'[r] = IF r \in Flushed(TenantOf[r]) THEN "error" ELSE future[r]
        /\ \A t \in Tenant : live'[t] = live[t] - Cardinality(Flushed(t))
    BY DEF StopFlushes, slotVars
  <1>3. ASSUME NEW t \in Tenant
        PROVE  Flushed(t) \in SUBSET Unserved(t)
    BY <1>1 DEF Flushed, LiveAt, IsLive, Unserved, Coherent, QueueOwn
  <1>4. ASSUME NEW r \in Request, r \in Flushed(TenantOf[r])
        PROVE  call[r] = "waiting" /\ future[r] = "pending"
    BY <1>4 DEF Flushed, LiveAt, IsLive, Coherent
  <1>5. ASSUME NEW t \in Tenant
        PROVE  live'[t] = Cardinality(Unserved(t)') - Cardinality(Raced(t)')
    <2>1. Raced(t)' = Raced(t)
      BY <1>2, <1>4 DEF Raced
    <2>2. Unserved(t)' = Unserved(t) \ Flushed(t)
      BY <1>2, <1>3, <1>4 DEF Unserved
    <2>3. /\ Unserved(t) \in SUBSET Request /\ Flushed(t) \in SUBSET Request
          /\ Unserved(t) \ Flushed(t) \in SUBSET Request
      BY <1>3 DEF Unserved
    <2>4. /\ IsFiniteSet(Flushed(t)) /\ Cardinality(Flushed(t)) \in Nat
          /\ IsFiniteSet(Unserved(t)') /\ Cardinality(Unserved(t)') \in Nat
          /\ Cardinality(Unserved(t)) \in Nat
      BY <2>2, <2>3, RequestSubset
    <2>5. /\ Unserved(t) = Unserved(t)' \cup Flushed(t)
          /\ Unserved(t)' \cap Flushed(t) = {}
      BY <1>3, <2>2
    <2>6. Cardinality(Unserved(t)) = Cardinality(Unserved(t)') + Cardinality(Flushed(t))
      <3>1. Cardinality(Unserved(t)' \cup Flushed(t))
              = Cardinality(Unserved(t)') + Cardinality(Flushed(t))
                  - Cardinality(Unserved(t)' \cap Flushed(t))
        BY <2>4, FS_Union
      <3>2. Cardinality(Unserved(t)' \cap Flushed(t)) = 0
        BY <2>5, FS_EmptySet
      <3>3. Cardinality(Unserved(t)' \cup Flushed(t)) = Cardinality(Unserved(t))
        BY <2>5
      <3> QED
        BY <2>4, <3>1, <3>2, <3>3
    <2>7. live[t] = Cardinality(Unserved(t)) - Cardinality(Raced(t))
          /\ Cardinality(Raced(t)) \in Int
      <3>1. Raced(t) \in SUBSET Request
        BY DEF Raced
      <3> QED
        BY <3>1, RequestSubset DEF Exact, LiveExact
    <2> QED
      BY <1>1, <1>2, <2>1, <2>4, <2>6, <2>7
  <1>6. Owner' = Owner /\ Leaked' = Leaked /\ Ghost' = Ghost
    BY <1>2, <1>4 DEF Owner, Leaked, Ghost
  <1>7. LiveExact'
    BY <1>5 DEF LiveExact
  <1>8. InflightExact'
    BY <1>2, <1>6 DEF Exact, InflightExact
  <1> QED
    BY <1>7, <1>8 DEF Exact

(* Nothing is counted at the start.                                        *)
LEMMA ExactInit == Init => Coherent /\ QueueOwn /\ PendingQueued /\ Exact
  <1> SUFFICES ASSUME Init PROVE Coherent /\ QueueOwn /\ PendingQueued /\ Exact
    OBVIOUS
  <1>1. Coherent /\ PendingQueued /\ QueueOwn
    BY DEF Init, Coherent, PendingQueued, QueueOwn
  <1>2. \A t \in Tenant : Unserved(t) = {} /\ Raced(t) = {} /\ live[t] = 0
    BY DEF Init, Unserved, Raced
  <1>3. Owner = {} /\ Leaked = {} /\ Ghost = {} /\ inflight = 0
    BY DEF Init, Owner, Leaked, Ghost
  <1>4. LiveExact
    BY <1>2, FS_EmptySet DEF LiveExact
  <1>5. InflightExact
    BY <1>3, FS_EmptySet DEF InflightExact
  <1> QED
    BY <1>1, <1>4, <1>5 DEF Exact

(* Every step keeps both counters exact.                                   *)
LEMMA ExactStep ==
  TypeOK /\ Coherent /\ QueueOwn /\ Exact /\ [Next]_vars => Exact'
  <1> SUFFICES ASSUME TypeOK, Coherent, QueueOwn, Exact, [Next]_vars PROVE Exact'
    OBVIOUS
  <1>1. ASSUME NEW w, NEW c, ResizeBudget(w, c) PROVE Exact'
    BY <1>1, ExactStutter DEF ResizeBudget, reqVars, queueVars
  <1>2. CASE \/ DrainResumes \/ DrainSleeps \/ DrainVisits \/ DrainAcquires
             \/ DrainPutsBack \/ DrainUnwinds \/ StopCancelsDrain
    BY <1>2, ExactStutter DEF DrainResumes, DrainSleeps, DrainVisits, DrainAcquires,
       DrainPutsBack, DrainUnwinds, StopCancelsDrain, reqVars, queueVars, slotVars
  <1>3. CASE UNCHANGED vars
    BY <1>3, ExactStutter DEF vars, reqVars, queueVars, slotVars
  <1> QED
    BY <1>1, <1>2, <1>3, ExactStepRequest, ExactStepDispatch, ExactStepFlush
    DEF Next, DrainStep, SetCapPerWorker, SetNumWorkers

(* The inductive invariant of the accounting.                              *)
AccountInv == TypeOK /\ Coherent /\ QueueOwn /\ PendingQueued /\ Exact

(* The accounting invariant holds in every reachable state.                *)
LEMMA AccountInvariant == Spec => []AccountInv
  <1>1. Init => AccountInv
    BY TypeOKInit, ExactInit DEF AccountInv
  <1>2. AccountInv /\ [Next]_vars => AccountInv'
    BY TypeOKStep, CoherentStep, QueueStep, ExactStep DEF AccountInv
  <1> QED
    BY <1>1, <1>2, PTL DEF Spec

(* Whatever the drain pops, drops or puts back, every request with a       *)
(* pending future is in its tenant's queue, so the drain will find it and  *)
(* stop() will fail it.                                                    *)
THEOREM PendingAlwaysQueued == Spec => []PendingQueued
  <1>1. AccountInv => PendingQueued
    BY DEF AccountInv
  <1> QED
    BY <1>1, AccountInvariant, PTL

(* live_count is exactly the number of unserved requests of the tenant,    *)
(* less the timeouts that met a dispatch or a stop: the timeout handler    *)
(* is the only way for it to drift, and it can only drift downwards.       *)
THEOREM LiveCountExact == Spec => []LiveExact
  <1>1. AccountInv => LiveExact
    BY DEF AccountInv, Exact
  <1> QED
    BY <1>1, AccountInvariant, PTL

(* The in-flight count is exactly the number of slots owned or leaked,     *)
(* less those returned without being owned.                                *)
THEOREM InflightCountExact == Spec => []InflightExact
  <1>1. AccountInv => InflightExact
    BY DEF AccountInv, Exact
  <1> QED
    BY <1>1, AccountInvariant, PTL

(* Whatever resizes, timeouts and cancellations do, the owned and leaked   *)
(* slots stay within the budget, the contraction still owed and what       *)
(* callers returned without owning.                                        *)
THEOREM BudgetBoundsOwners == Spec => []OwnersWithinBudget
  <1>1. ASSUME AccountInv, SlotInv PROVE OwnersWithinBudget
    <2>1. /\ Owner \in SUBSET Request /\ Leaked \in SUBSET Request
          /\ Ghost \in SUBSET Request
      BY DEF Owner, Leaked, Ghost
    <2>2. /\ Cardinality(Owner) \in Nat /\ Cardinality(Leaked) \in Nat
          /\ Cardinality(Ghost) \in Nat
      BY <2>1, RequestSubset
    <2>3. inflight = Cardinality(Owner) + Cardinality(Leaked) - Cardinality(Ghost)
      BY <1>1 DEF AccountInv, Exact, InflightExact
    <2>4. sem + Reserved + inflight = budget + pendingShrink
      BY <1>1 DEF SlotInv, SlotConservation
    <2>5. sem \in Nat /\ Reserved \in {0, 1} /\ budget \in Nat /\ pendingShrink \in Nat
      BY <1>1 DEF AccountInv, TypeOK, Reserved
    <2> QED
      BY <2>2, <2>3, <2>4, <2>5 DEF OwnersWithinBudget
  <1> QED
    BY <1>1, AccountInvariant, SlotInvariant, PTL

(* A request is refused on arrival only if queue_max requests of its       *)
(* tenant really wait: cancelled entries left in the queue, and raced      *)
(* timeouts, never cause a refusal.                                        *)
THEOREM RefusalMeansFull == Spec => ShedOnlyWhenFull
  <1>1. ASSUME AccountInv, [Next]_vars
        PROVE  [\A r \in Request : call[r] = "new" /\ call'[r] = "shed" =>
                  Cardinality(Unserved(TenantOf[r])) >= QueueMax[TenantOf[r]]]_vars
    <2> SUFFICES ASSUME NEW r \in Request, call[r] = "new", call'[r] = "shed"
                 PROVE  Cardinality(Unserved(TenantOf[r])) >= QueueMax[TenantOf[r]]
      OBVIOUS
    <2>1. call \in [Request -> {"new", "waiting", "held", "released", "shed", "expired", "cancelled"}]
      BY <1>1 DEF AccountInv, TypeOK
    <2>2. ASSUME NEW q \in Request, Acquire(q) PROVE q = r /\ Full(TenantOf[r])
      BY <2>1, <2>2 DEF Acquire
    <2>3. ASSUME NEW q \in Request,
                 TimerFires(q) \/ CancelCaller(q) \/ TaskWakes(q) \/ Release(q)
          PROVE  FALSE
      BY <2>1, <2>3 DEF TimerFires, CancelCaller, Interrupt, Awake, TaskWakes,
         AcquireReturns, AcquireStopped, AcquireTimesOut, AcquireCancelled, Release
    <2>4. ASSUME NEW w, NEW c, ResizeBudget(w, c) PROVE FALSE
      BY <2>4 DEF ResizeBudget, reqVars
    <2>5. UNCHANGED call => FALSE
      OBVIOUS
    <2>6. DrainStep \/ StopCancelsDrain \/ StopFlushes \/ UNCHANGED vars => UNCHANGED call
      BY DEF DrainStep, DrainResumes, DrainSleeps, DrainVisits, DrainAcquires,
         DrainDispatches, DrainPutsBack, DrainUnwinds, StopCancelsDrain, StopFlushes,
         vars, reqVars
    <2>7. Full(TenantOf[r])
      BY <1>1, <2>2, <2>3, <2>4, <2>5, <2>6 DEF Next, SetCapPerWorker, SetNumWorkers
    <2>8. /\ TenantOf[r] \in Tenant /\ Raced(TenantOf[r]) \in SUBSET Request
          /\ Unserved(TenantOf[r]) \in SUBSET Request
      BY RequestAssumption DEF Raced, Unserved
    <2>9. /\ Cardinality(Raced(TenantOf[r])) \in Nat
          /\ Cardinality(Unserved(TenantOf[r])) \in Nat
      BY <2>8, RequestSubset
    <2>10. live[TenantOf[r]] = Cardinality(Unserved(TenantOf[r])) - Cardinality(Raced(TenantOf[r]))
      BY <1>1, <2>8 DEF AccountInv, Exact, LiveExact
    <2> QED
      BY <2>7, <2>8, <2>9, <2>10, TenantAssumption DEF Full
  <1> QED
    BY <1>1, AccountInvariant, PTL DEF Spec, ShedOnlyWhenFull

(* stop() fails every waiting future at once: none is hidden behind dead   *)
(* entries or outside the queues (core.py:93-102).  With the wake-up of    *)
(* the tasks this is what StopReleasesWaiters rests on.                    *)
THEOREM FlushFailsEveryWaiter ==
    Spec => [][StopFlushes => \A r \in Request : future'[r] # "pending"]_vars
  <1>1. ASSUME AccountInv, StopFlushes, NEW r \in Request
        PROVE  future'[r] # "pending"
    <2>1. future' = [q \in Request |->
                       IF q \in Flushed(TenantOf[q]) THEN "error" ELSE future[q]]
      BY <1>1 DEF StopFlushes
    <2>2. CASE future[r] = "pending"
      <3>1. PICK i \in DOMAIN queue[TenantOf[r]] : queue[TenantOf[r]][i] = r
        BY <1>1, <2>2 DEF AccountInv, PendingQueued
      <3>2. r \in Flushed(TenantOf[r])
        BY <1>1, <2>2, <3>1 DEF AccountInv, Coherent, Flushed, LiveAt, IsLive
      <3> QED
        BY <2>1, <3>2
    <2>3. CASE future[r] # "pending"
      BY <2>1, <2>3
    <2> QED
      BY <2>2, <2>3
  <1>2. ASSUME AccountInv
        PROVE  [StopFlushes => \A r \in Request : future'[r] # "pending"]_vars
    BY <1>1, <1>2
  <1> QED
    BY <1>2, AccountInvariant, PTL

-----------------------------------------------------------------------------
(* live_count rises only at an arrival that finds it below queue_max.      *)
LiveCapped == \A t \in Tenant : live[t] <= 0 \/ live[t] <= QueueMax[t]

(* Every step keeps the cap.                                               *)
LEMMA LiveCappedStep == TypeOK /\ LiveCapped /\ [Next]_vars => LiveCapped'
  <1> SUFFICES ASSUME TypeOK, LiveCapped, [Next]_vars PROVE LiveCapped'
    OBVIOUS
  <1>t. live \in [Tenant -> Int] /\ QueueMax \in [Tenant -> Int]
    BY TenantAssumption DEF TypeOK
  <1>1. ASSUME live' \in [Tenant -> Int], \A t \in Tenant : live'[t] <= live[t]
        PROVE  LiveCapped'
    BY <1>t, <1>1 DEF LiveCapped
  <1>2. UNCHANGED live => LiveCapped'
    BY DEF LiveCapped
  <1>3. ASSUME NEW r \in Request, Acquire(r) PROVE LiveCapped'
    <2>1. CASE Full(TenantOf[r])
      BY <1>2, <1>3, <2>1 DEF Acquire
    <2>2. CASE ~Full(TenantOf[r])
      <3>1. PICK t \in Tenant : t = TenantOf[r]
        BY RequestAssumption
      <3>2. live' = [live EXCEPT ![t] = @ + 1]
        BY <1>3, <2>2, <3>1 DEF Acquire
      <3>3. ~(live[t] >= QueueMax[t])
        BY <2>2, <3>1 DEF Full
      <3> QED
        BY <1>t, <3>2, <3>3 DEF LiveCapped
    <2> QED
      BY <2>1, <2>2
  <1>4. ASSUME NEW r \in Request,
               \/ TimerFires(r) \/ CancelCaller(r) \/ AcquireReturns(r)
               \/ AcquireStopped(r) \/ Release(r)
        PROVE  LiveCapped'
    BY <1>2, <1>4 DEF TimerFires, CancelCaller, Interrupt, AcquireReturns,
       AcquireStopped, Release, queueVars
  <1>5. ASSUME NEW r \in Request, AcquireTimesOut(r) \/ AcquireCancelled(r)
        PROVE  LiveCapped'
    <2>1. PICK t \in Tenant : t = TenantOf[r]
      BY RequestAssumption
    <2>2. UNCHANGED live \/ live' = [live EXCEPT ![t] = @ - 1]
      BY <1>5, <2>1 DEF AcquireTimesOut, AcquireCancelled
    <2> QED
      BY <1>t, <1>1, <1>2, <2>2
  <1>6. ASSUME NEW w, NEW c, ResizeBudget(w, c) PROVE LiveCapped'
    BY <1>2, <1>6 DEF ResizeBudget, queueVars
  <1>7. CASE DrainDispatches \/ DrainPutsBack
    <2>1. PICK t \in Tenant : t = Current
      BY <1>t, RoundStays DEF TypeOK
    <2>2. UNCHANGED live \/ live' = [live EXCEPT ![t] = @ - 1]
      BY <1>7, <2>1 DEF DrainDispatches, DrainPutsBack
    <2> QED
      BY <1>t, <1>1, <1>2, <2>2
  <1>8. CASE DrainResumes \/ DrainSleeps \/ DrainVisits \/ DrainAcquires
               \/ DrainUnwinds \/ StopCancelsDrain \/ UNCHANGED vars
    BY <1>2, <1>8 DEF DrainResumes, DrainSleeps, DrainVisits, DrainAcquires,
       DrainUnwinds, StopCancelsDrain, queueVars, vars
  <1>9. CASE StopFlushes
    <2>1. ASSUME NEW t \in Tenant PROVE Cardinality(Flushed(t)) \in Nat
      <3>1. Flushed(t) \in SUBSET Request
        BY DEF Flushed, LiveAt, TypeOK
      <3> QED
        BY <3>1, RequestSubset
    <2>2. live' = [t \in Tenant |-> live[t] - Cardinality(Flushed(t))]
      BY <1>9 DEF StopFlushes
    <2> QED
      BY <1>t, <1>1, <2>1, <2>2
  <1> QED
    BY <1>3, <1>4, <1>5, <1>6, <1>7, <1>8, <1>9
    DEF Next, DrainStep, TaskWakes, SetCapPerWorker, SetNumWorkers

(* At most queue_max requests of a tenant wait, and one more for each of   *)
(* its raced timeouts, for every arrival pattern and whatever dead entries *)
(* the queue holds.                                                        *)
THEOREM WaitingBounded == Spec => []WaitingWithinMax
  <1>1. Init => LiveCapped
    BY DEF Init, LiveCapped
  <1>2. TypeOK /\ LiveCapped /\ [Next]_vars => LiveCapped'
    BY LiveCappedStep
  <1>3. AccountInv /\ LiveCapped => WaitingWithinMax
    BY DEF AccountInv, Exact, LiveExact, LiveCapped, WaitingWithinMax
  <1>4. AccountInv => TypeOK
    BY DEF AccountInv
  <1> QED
    BY <1>1, <1>2, <1>3, <1>4, AccountInvariant, PTL DEF Spec

-----------------------------------------------------------------------------
(* An arrival sets the event; everything else only lowers live_count.      *)
IdleInv == pc = "idle" /\ ~wakeup => \A t \in Tenant : live[t] <= 0

(* Every step keeps the sleeping drain without visible work.               *)
LEMMA IdleStep == TypeOK /\ IdleInv /\ [Next]_vars => IdleInv'
  <1> SUFFICES ASSUME TypeOK, IdleInv, [Next]_vars PROVE IdleInv'
    OBVIOUS
  <1>t. live \in [Tenant -> Int] /\ wakeup \in BOOLEAN
    BY DEF TypeOK
  <1>1. ASSUME NEW r \in Request, Acquire(r) PROVE IdleInv'
    <2>1. CASE Full(TenantOf[r])
      BY <1>1, <2>1 DEF Acquire, IdleInv
    <2>2. CASE ~Full(TenantOf[r])
      BY <1>1, <2>2 DEF Acquire, IdleInv
    <2> QED
      BY <2>1, <2>2
  <1>2. ASSUME NEW r \in Request, TimerFires(r) \/ CancelCaller(r) \/ AcquireReturns(r)
                                    \/ AcquireStopped(r)
        PROVE  IdleInv'
    BY <1>2 DEF TimerFires, CancelCaller, Interrupt, AcquireReturns, AcquireStopped,
       queueVars, IdleInv
  <1>3. ASSUME NEW r \in Request, AcquireTimesOut(r) PROVE IdleInv'
    <2>1. TenantOf[r] \in Tenant /\ \A t \in Tenant : live'[t] <= live[t] /\ live'[t] \in Int
      BY <1>t, <1>3, RequestAssumption DEF AcquireTimesOut
    <2>2. UNCHANGED <<pc, wakeup>>
      BY <1>3 DEF AcquireTimesOut
    <2> QED
      BY <1>t, <2>1, <2>2 DEF IdleInv
  <1>4. ASSUME NEW r \in Request, AcquireCancelled(r) PROVE IdleInv'
    <2>1. TenantOf[r] \in Tenant /\ \A t \in Tenant : live'[t] <= live[t] /\ live'[t] \in Int
      BY <1>t, <1>4, RequestAssumption DEF AcquireCancelled
    <2>2. (pc' = "idle" => pc = "idle") /\ UNCHANGED wakeup
      BY <1>4 DEF AcquireCancelled, ReleaseSlot, SemRelease
    <2> QED
      BY <1>t, <2>1, <2>2 DEF IdleInv
  <1>5. ASSUME NEW r \in Request, Release(r) PROVE IdleInv'
    BY <1>5 DEF Release, ReleaseSlot, SemRelease, queueVars, IdleInv
  <1>6. ASSUME NEW w, NEW c, ResizeBudget(w, c) PROVE IdleInv'
    BY <1>6 DEF ResizeBudget, Grow, SemRelease, queueVars, IdleInv
  <1>7. CASE DrainSleeps
    BY <1>t, <1>7 DEF DrainSleeps, AnyQueueNonempty, queueVars, IdleInv
  <1>8. CASE \/ DrainResumes \/ DrainVisits \/ DrainAcquires \/ DrainDispatches
             \/ DrainPutsBack \/ DrainUnwinds \/ StopCancelsDrain \/ StopFlushes
    BY <1>8 DEF DrainResumes, DrainVisits, DrainAcquires, DrainDispatches, DrainPutsBack,
       DrainUnwinds, StopCancelsDrain, StopFlushes, IdleInv
  <1>9. CASE UNCHANGED vars
    BY <1>9 DEF vars, queueVars, IdleInv
  <1> QED
    BY <1>1, <1>2, <1>3, <1>4, <1>5, <1>6, <1>7, <1>8, <1>9
    DEF Next, DrainStep, TaskWakes, SetCapPerWorker, SetNumWorkers

(* When the drain sleeps on its event, nothing it could serve is queued:   *)
(* clearing the event never swallows an arrival.                           *)
THEOREM NoLostWakeup == Spec => []WorkConserving
  <1>1. Init => IdleInv
    BY DEF Init, IdleInv
  <1>2. IdleInv /\ TypeOK /\ [Next]_vars => IdleInv'
    BY IdleStep
  <1>3. AccountInv /\ IdleInv => WorkConserving
    <2> SUFFICES ASSUME AccountInv, IdleInv, pc = "idle", ~wakeup, NEW t \in Tenant
                 PROVE  Cardinality(Unserved(t)) <= Cardinality(Raced(t))
      BY DEF WorkConserving
    <2>1. Unserved(t) \in SUBSET Request /\ Raced(t) \in SUBSET Request
      BY DEF Unserved, Raced
    <2>2. Cardinality(Unserved(t)) \in Nat /\ Cardinality(Raced(t)) \in Nat
      BY <2>1, RequestSubset
    <2> QED
      BY <2>2 DEF AccountInv, Exact, LiveExact, IdleInv
  <1>4. AccountInv => TypeOK
    BY DEF AccountInv
  <1> QED
    BY <1>1, <1>2, <1>3, <1>4, AccountInvariant, PTL DEF Spec
==============================================================================
