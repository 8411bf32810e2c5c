----------------------------- MODULE DrainProofs -----------------------------
(* The drain of TenantScheduler, for every number of tenants, every        *)
(* queue_max and every finite set of requests: in what order it serves a   *)
(* tenant's requests, and why it gives the event loop back.                *)
EXTENDS TenantAccountingProofs

(* A queue holds no request twice, and none that is settled: the drain     *)
(* pops what it dispatches, and stop() empties the queues it fails.        *)
QueueDistinct ==
    \A t \in Tenant : \A i, j \in DOMAIN queue[t] : queue[t][i] = queue[t][j] => i = j
QueueFresh ==
    \A t \in Tenant : \A i \in DOMAIN queue[t] : future[queue[t][i]] \in {"pending", "cancelled"}

(* What an admission does to the queues: r is added at the tail.           *)
LEMMA AdmissionShape ==
  ASSUME TypeOK, NEW r \in Request, Acquire(r), ~Full(TenantOf[r])
  PROVE  LET t == TenantOf[r] IN
         /\ t \in Tenant /\ Len(queue[t]) \in Nat
         /\ DOMAIN queue[t] = 1 .. Len(queue[t])
         /\ DOMAIN queue'[t] = 1 .. Len(queue[t]) + 1
         /\ queue'[t][Len(queue[t]) + 1] = r
         /\ \A i \in DOMAIN queue[t] : queue'[t][i] = queue[t][i]
         /\ \A u \in Tenant \ {t} : queue'[u] = queue[u]
  <1> DEFINE t == TenantOf[r]
  <1>1. t \in Tenant /\ queue \in [Tenant -> Seq(Request)]
    BY RequestAssumption DEF TypeOK
  <1>2. queue' = [queue EXCEPT ![t] = Append(queue[t], r)]
    BY DEF Acquire
  <1>3. queue[t] \in Seq(Request) /\ queue'[t] = Append(queue[t], r)
    BY <1>1, <1>2
  <1>4. \A u \in Tenant \ {t} : queue'[u] = queue[u]
    BY <1>1, <1>2
  <1> HIDE DEF t
  <1>5. /\ DOMAIN queue'[t] = 1 .. Len(queue[t]) + 1
        /\ queue'[t][Len(queue[t]) + 1] = r
        /\ \A i \in DOMAIN queue[t] : queue'[t][i] = queue[t][i]
    BY <1>3, AppendAt
  <1>6. Len(queue[t]) \in Nat /\ DOMAIN queue[t] = 1 .. Len(queue[t])
    BY <1>3
  <1> QED
    BY <1>1, <1>4, <1>5, <1>6 DEF t

(* What a dispatch does to the queues: the tenant's queue loses its        *)
(* entries up to the first live one, which is the one dispatched.          *)
LEMMA DispatchShape ==
  ASSUME TypeOK, DrainDispatches
  PROVE  \E k \in LiveAt(Current) :
            /\ Current \in Tenant
            /\ k \in 1 .. Len(queue[Current]) /\ Len(queue[Current]) \in Nat
            /\ DOMAIN queue[Current] = 1 .. Len(queue[Current])
            /\ queue[Current][k] \in Request
            /\ \A j \in LiveAt(Current) : k <= j
            /\ future' = [future EXCEPT ![queue[Current][k]] = "result"]
            /\ DOMAIN queue'[Current] = 1 .. Len(queue[Current]) - k
            /\ \A j \in DOMAIN queue'[Current] : queue'[Current][j] = queue[Current][k + j]
            /\ \A u \in Tenant \ {Current} : queue'[u] = queue[u]
  <1> DEFINE t == Current
  <1>1. t \in Tenant /\ queue \in [Tenant -> Seq(Request)]
    BY RoundStays DEF TypeOK
  <1>2. PICK k \in LiveAt(t) :
           /\ \A j \in LiveAt(t) : k <= j
           /\ future' = [future EXCEPT ![queue[t][k]] = "result"]
           /\ queue' = [queue EXCEPT ![t] = SubSeq(queue[t], k + 1, Len(queue[t]))]
    BY DEF DrainDispatches
  <1> HIDE DEF t
  <1>3. /\ queue[t] \in Seq(Request) /\ Len(queue[t]) \in Nat
        /\ k \in 1 .. Len(queue[t]) /\ queue[t][k] \in Request
        /\ DOMAIN queue[t] = 1 .. Len(queue[t])
    BY <1>1, <1>2 DEF LiveAt
  <1> DEFINE rest == SubSeq(queue[t], k + 1, Len(queue[t]))
  <1>4. queue'[t] = rest /\ \A u \in Tenant \ {t} : queue'[u] = queue[u]
    BY <1>1, <1>2
  <1>5. \A j \in k + 1 .. Len(queue[t]) : queue[t][j] \in Request
    BY <1>3
  <1>6. k + 1 \in Int /\ Len(queue[t]) \in Int
    BY <1>3
  <1> HIDE DEF rest
  <1>7. /\ rest \in Seq(Request)
        /\ Len(rest) = IF k + 1 <= Len(queue[t]) THEN Len(queue[t]) - (k + 1) + 1 ELSE 0
        /\ \A j \in 1 .. Len(queue[t]) - (k + 1) + 1 : rest[j] = queue[t][(k + 1) + j - 1]
    BY <1>5, <1>6, SubSeqProperties DEF rest
  <1>8. Len(rest) = Len(queue[t]) - k /\ DOMAIN rest = 1 .. Len(queue[t]) - k
    BY <1>3, <1>7
  <1>9. \A j \in 1 .. Len(queue[t]) - k : rest[j] = queue[t][k + j]
    BY <1>3, <1>7
  <1> QED
    BY <1>1, <1>2, <1>3, <1>4, <1>8, <1>9 DEF t

(* Steps that leave the queues alone settle no queued request.             *)
LEMMA FreshStutter ==
  ASSUME TypeOK, QueueDistinct, QueueFresh, UNCHANGED queue,
         \A q \in Request : future[q] \in {"pending", "cancelled"} =>
                               future'[q] \in {"pending", "cancelled"}
  PROVE  QueueDistinct' /\ QueueFresh'
  <1>1. \A t \in Tenant : \A i \in DOMAIN queue[t] : queue[t][i] \in Request
    BY DEF TypeOK
  <1> QED
    BY <1>1 DEF QueueDistinct, QueueFresh

(* An admitted request was in no queue, since it had no future.            *)
LEMMA FreshAcquire ==
  ASSUME TypeOK, Coherent, QueueDistinct, QueueFresh, NEW r \in Request, Acquire(r)
  PROVE  QueueDistinct' /\ QueueFresh'
  <1>t. /\ future \in [Request -> {"none", "pending", "result", "error", "cancelled"}]
        /\ \A t \in Tenant : \A i \in DOMAIN queue[t] : queue[t][i] \in Request
    BY DEF TypeOK
  <1>n. future[r] = "none"
    BY DEF Acquire, Coherent
  <1>1. CASE Full(TenantOf[r])
    BY <1>1, FreshStutter DEF Acquire
  <1>2. CASE ~Full(TenantOf[r])
    <2> DEFINE t == TenantOf[r]
    <2> DEFINE n == Len(queue[t])
    <2>1. /\ t \in Tenant /\ n \in Nat
          /\ DOMAIN queue[t] = 1 .. n
          /\ DOMAIN queue'[t] = 1 .. n + 1
          /\ queue'[t][n + 1] = r
          /\ \A i \in DOMAIN queue[t] : queue'[t][i] = queue[t][i]
          /\ \A u \in Tenant \ {t} : queue'[u] = queue[u]
      BY <1>2, AdmissionShape
    <2>2. future' = [future EXCEPT ![r] = "pending"]
      BY <1>2 DEF Acquire
    <2> HIDE DEF t, n
    <2>3. \A u \in Tenant : \A i \in DOMAIN queue[u] :
             queue[u][i] # r /\ future'[queue[u][i]] \in {"pending", "cancelled"}
      BY <1>t, <1>n, <2>2 DEF QueueFresh
    <2>4. \A i \in 1 .. n + 1 : i \in 1 .. n \/ i = n + 1
      BY <2>1
    <2>5. QueueFresh'
      <3> SUFFICES ASSUME NEW u \in Tenant, NEW i \in DOMAIN queue'[u]
                   PROVE  future'[queue'[u][i]] \in {"pending", "cancelled"}
        BY DEF QueueFresh
      <3>1. CASE u = t /\ i = n + 1
        BY <1>t, <2>1, <2>2, <3>1
      <3>2. CASE u = t /\ i \in 1 .. n
        BY <2>1, <2>3, <3>2
      <3>3. CASE u # t
        BY <2>1, <2>3, <3>3
      <3> QED
        BY <2>1, <2>4, <3>1, <3>2, <3>3
    <2>6. QueueDistinct'
      <3> SUFFICES ASSUME NEW u \in Tenant, NEW i \in DOMAIN queue'[u], NEW j \in DOMAIN queue'[u],
                          queue'[u][i] = queue'[u][j]
                   PROVE  i = j
        BY DEF QueueDistinct
      <3>1. CASE u = t
        BY <2>1, <2>3, <2>4, <3>1 DEF QueueDistinct
      <3>2. CASE u # t
        BY <2>1, <3>2 DEF QueueDistinct
      <3> QED
        BY <3>1, <3>2
    <2> QED
      BY <2>5, <2>6
  <1> QED
    BY <1>1, <1>2

(* The dispatched request leaves the queue, and was in it only once.       *)
LEMMA FreshDispatch ==
  ASSUME TypeOK, QueueOwn, QueueDistinct, QueueFresh, DrainDispatches
  PROVE  QueueDistinct' /\ QueueFresh'
  <1>t. /\ future \in [Request -> {"none", "pending", "result", "error", "cancelled"}]
        /\ \A t \in Tenant : \A i \in DOMAIN queue[t] : queue[t][i] \in Request
    BY DEF TypeOK
  <1> DEFINE t == Current
  <1> DEFINE n == Len(queue[t])
  <1>1. PICK k \in LiveAt(t) :
            /\ t \in Tenant /\ k \in 1 .. n /\ n \in Nat
            /\ DOMAIN queue[t] = 1 .. n
            /\ future' = [future EXCEPT ![queue[t][k]] = "result"]
            /\ DOMAIN queue'[t] = 1 .. n - k
            /\ \A j \in DOMAIN queue'[t] : queue'[t][j] = queue[t][k + j]
            /\ \A u \in Tenant \ {t} : queue'[u] = queue[u]
    BY DispatchShape
  <1> HIDE DEF t, n
  <1>2. \A j \in 1 .. n - k : k + j \in 1 .. n /\ k + j # k
    BY <1>1
  <1>3. QueueFresh'
    <2> SUFFICES ASSUME NEW u \in Tenant, NEW i \in DOMAIN queue'[u]
                 PROVE  future'[queue'[u][i]] \in {"pending", "cancelled"}
      BY DEF QueueFresh
    <2>1. CASE u = t
      <3>1. queue'[u][i] = queue[t][k + i] /\ queue[t][k + i] # queue[t][k]
            /\ k + i \in DOMAIN queue[t]
        BY <1>1, <1>2, <2>1 DEF QueueDistinct
      <3> QED
        BY <1>t, <1>1, <3>1 DEF QueueFresh
    <2>2. CASE u # t
      <3>1. queue'[u] = queue[u] /\ i \in DOMAIN queue[u] /\ queue[u][i] # queue[t][k]
        BY <1>1, <2>2 DEF QueueOwn
      <3> QED
        BY <1>t, <1>1, <3>1 DEF QueueFresh
    <2> QED
      BY <2>1, <2>2
  <1>4. QueueDistinct'
    <2> SUFFICES ASSUME NEW u \in Tenant, NEW i \in DOMAIN queue'[u], NEW j \in DOMAIN queue'[u],
                        queue'[u][i] = queue'[u][j]
                 PROVE  i = j
      BY DEF QueueDistinct
    <2>1. CASE u = t
      <3>1. k + i \in 1 .. n /\ k + j \in 1 .. n /\ queue[t][k + i] = queue[t][k + j]
        BY <1>1, <1>2, <2>1
      <3>2. k + i = k + j
        BY <1>1, <3>1 DEF QueueDistinct
      <3> QED
        BY <1>1, <2>1, <3>2
    <2>2. CASE u # t
      BY <1>1, <2>2 DEF QueueDistinct
    <2> QED
      BY <2>1, <2>2
  <1> QED
    BY <1>3, <1>4

(* Every step keeps the queues free of duplicates and settled requests.    *)
LEMMA FreshStep ==
  TypeOK /\ Coherent /\ QueueOwn /\ QueueDistinct /\ QueueFresh /\ [Next]_vars
     => QueueDistinct' /\ QueueFresh'
  <1> SUFFICES ASSUME TypeOK, Coherent, QueueOwn, QueueDistinct, QueueFresh, [Next]_vars
               PROVE  QueueDistinct' /\ QueueFresh'
    OBVIOUS
  <1>t. queue \in [Tenant -> Seq(Request)] /\ idx \in Tenant
        /\ future \in [Request -> {"none", "pending", "result", "error", "cancelled"}]
    BY DEF TypeOK
  <1>1. ASSUME NEW r \in Request, TimerFires(r) \/ CancelCaller(r) \/ TaskWakes(r) \/ Release(r)
        PROVE  QueueDistinct' /\ QueueFresh'
    <2>1. UNCHANGED queue
          /\ \A q \in Request : future[q] \in {"pending", "cancelled"} =>
                                   future'[q] \in {"pending", "cancelled"}
      BY <1>t, <1>1 DEF TimerFires, CancelCaller, Interrupt, TaskWakes, AcquireReturns,
         AcquireStopped, AcquireTimesOut, AcquireCancelled, Release, queueVars
    <2> QED
      BY <2>1, FreshStutter
  <1>2. ASSUME NEW w, NEW c, ResizeBudget(w, c) PROVE QueueDistinct' /\ QueueFresh'
    BY <1>2, FreshStutter DEF ResizeBudget, reqVars, queueVars
  <1>3. CASE \/ DrainResumes \/ DrainSleeps \/ DrainVisits \/ DrainAcquires
             \/ DrainUnwinds \/ StopCancelsDrain
    BY <1>3, FreshStutter DEF DrainResumes, DrainSleeps, DrainVisits, DrainAcquires,
       DrainUnwinds, StopCancelsDrain, reqVars, queueVars
  <1>4. CASE DrainPutsBack
    <2>1. UNCHANGED future /\ queue'[Current] = <<>>
          /\ \A u \in Tenant \ {Current} : queue'[u] = queue[u]
      BY <1>t, <1>4, RoundStays DEF DrainPutsBack, reqVars
    <2> QED
      BY <2>1 DEF QueueDistinct, QueueFresh
  <1>5. CASE StopFlushes
    <2>1. \A u \in Tenant : queue'[u] = <<>>
      BY <1>5 DEF StopFlushes
    <2> QED
      BY <2>1 DEF QueueDistinct, QueueFresh
  <1>6. CASE UNCHANGED vars
    BY <1>6, FreshStutter DEF vars, reqVars, queueVars
  <1> QED
    BY <1>1, <1>2, <1>3, <1>4, <1>5, <1>6, FreshAcquire, FreshDispatch
    DEF Next, DrainStep, SetCapPerWorker, SetNumWorkers

(* The queues hold each unserved request once.                             *)
OrderInv == AccountInv /\ QueueDistinct /\ QueueFresh

(* The drain and the arrivals keep it so.                                  *)
LEMMA OrderInvariant == Spec => []OrderInv
  <1>1. Init => QueueDistinct /\ QueueFresh
    BY DEF Init, QueueDistinct, QueueFresh
  <1>2. AccountInv /\ QueueDistinct /\ QueueFresh /\ [Next]_vars => QueueDistinct' /\ QueueFresh'
    BY FreshStep DEF AccountInv
  <1> QED
    BY <1>1, <1>2, AccountInvariant, PTL DEF Spec, OrderInv

-----------------------------------------------------------------------------
(* What FirstComeFirstServed asks of a step, for one pair of requests.     *)
KeepsOrder(q, r) ==
    future'[r] # "result" /\ (future'[r] = "pending" => Ahead(q, r)')

(* A request behind another is unserved, and one not yet made is nowhere.  *)
LEMMA BehindUnserved ==
  ASSUME OrderInv, NEW q \in Request, NEW r \in Request, Ahead(q, r) \/ call[r] = "new"
  PROVE  future[r] # "result" /\ (future[r] = "pending" => Ahead(q, r))
  <1>1. TenantOf[r] \in Tenant
    BY RequestAssumption
  <1> QED
    BY <1>1 DEF OrderInv, AccountInv, Coherent, QueueFresh, Ahead

(* Steps that leave the queues alone and dispatch nothing.                 *)
LEMMA OrderStutter ==
  ASSUME OrderInv, UNCHANGED queue,
         \A r \in Request : future'[r] = "result" => future[r] = "result",
         \A r \in Request : future'[r] = "pending" => future[r] = "pending",
         NEW q \in Request, NEW r \in Request, Ahead(q, r) \/ call[r] = "new"
  PROVE  KeepsOrder(q, r)
  <1>1. Ahead(q, r)' <=> Ahead(q, r)
    BY DEF Ahead
  <1> QED
    BY <1>1, BehindUnserved DEF KeepsOrder

(* A newcomer queues behind everyone of its tenant who waits.              *)
LEMMA OrderAcquire ==
  ASSUME OrderInv, NEW x \in Request, Acquire(x),
         NEW q \in Request, NEW r \in Request, future[q] = "pending", TenantOf[q] = TenantOf[r],
         Ahead(q, r) \/ call[r] = "new"
  PROVE  KeepsOrder(q, r)
  <1>t. /\ TypeOK /\ future \in [Request -> {"none", "pending", "result", "error", "cancelled"}]
        /\ TenantOf[r] \in Tenant
    BY RequestAssumption DEF OrderInv, AccountInv, TypeOK
  <1>1. CASE Full(TenantOf[x])
    BY <1>1, OrderStutter DEF Acquire
  <1>2. CASE ~Full(TenantOf[x])
    <2> DEFINE t == TenantOf[x]
    <2> DEFINE n == Len(queue[t])
    <2>1. /\ t \in Tenant /\ n \in Nat
          /\ DOMAIN queue[t] = 1 .. n
          /\ DOMAIN queue'[t] = 1 .. n + 1
          /\ queue'[t][n + 1] = x
          /\ \A i \in DOMAIN queue[t] : queue'[t][i] = queue[t][i]
          /\ \A u \in Tenant \ {t} : queue'[u] = queue[u]
      BY <1>t, <1>2, AdmissionShape
    <2>2. future' = [future EXCEPT ![x] = "pending"]
      BY <1>2 DEF Acquire
    <2>3. n + 1 \in 1 .. n + 1 /\ \A i \in 1 .. n : i \in 1 .. n + 1 /\ i < n + 1
      BY <2>1
    <2>4. CASE r = x
      <3>1. PICK i \in DOMAIN queue[TenantOf[q]] : queue[TenantOf[q]][i] = q
        BY DEF OrderInv, AccountInv, PendingQueued
      <3>2. TenantOf[q] = t /\ TenantOf[r] = t
        BY <2>4
      <3> HIDE DEF t, n
      <3>3. i \in 1 .. n + 1 /\ n + 1 \in 1 .. n + 1 /\ i < n + 1
            /\ queue'[t][i] = q /\ queue'[t][n + 1] = r
        BY <2>1, <2>3, <2>4, <3>1, <3>2
      <3>4. Ahead(q, r)'
        BY <2>1, <3>2, <3>3 DEF Ahead
      <3> QED
        BY <1>t, <2>2, <2>4, <3>4 DEF KeepsOrder
    <2>5. CASE r # x
      <3>1. future'[r] = future[r]
        BY <1>t, <2>2, <2>5
      <3>2. Ahead(q, r) => Ahead(q, r)'
        <4> SUFFICES ASSUME NEW i \in DOMAIN queue[TenantOf[r]], NEW j \in DOMAIN queue[TenantOf[r]],
                            i < j, queue[TenantOf[r]][i] = q, queue[TenantOf[r]][j] = r
                     PROVE  Ahead(q, r)'
          BY DEF Ahead
        <4> HIDE DEF t, n
        <4>1. /\ i \in DOMAIN queue'[TenantOf[r]] /\ j \in DOMAIN queue'[TenantOf[r]]
              /\ queue'[TenantOf[r]][i] = q /\ queue'[TenantOf[r]][j] = r
          BY <1>t, <2>1, <2>3
        <4> QED
          BY <4>1 DEF Ahead
      <3> QED
        BY <3>1, <3>2, BehindUnserved DEF KeepsOrder
    <2> QED
      BY <2>4, <2>5
  <1> QED
    BY <1>1, <1>2

(* The drain takes the first live entry, so nobody pending is passed over. *)
LEMMA OrderDispatch ==
  ASSUME OrderInv, DrainDispatches,
         NEW q \in Request, NEW r \in Request,
         future[q] = "pending", future'[q] = "pending", TenantOf[q] = TenantOf[r],
         Ahead(q, r) \/ call[r] = "new"
  PROVE  KeepsOrder(q, r)
  <1>t. /\ TypeOK /\ future \in [Request -> {"none", "pending", "result", "error", "cancelled"}]
        /\ TenantOf[r] \in Tenant /\ TenantOf[q] \in Tenant
    BY RequestAssumption DEF OrderInv, AccountInv, TypeOK
  <1> DEFINE t == Current
  <1> DEFINE n == Len(queue[t])
  <1>1. PICK k \in LiveAt(t) :
            /\ t \in Tenant /\ k \in 1 .. n /\ n \in Nat
            /\ DOMAIN queue[t] = 1 .. n /\ queue[t][k] \in Request
            /\ \A j \in LiveAt(t) : k <= j
            /\ future' = [future EXCEPT ![queue[t][k]] = "result"]
            /\ DOMAIN queue'[t] = 1 .. n - k
            /\ \A j \in DOMAIN queue'[t] : queue'[t][j] = queue[t][k + j]
            /\ \A u \in Tenant \ {t} : queue'[u] = queue[u]
    BY <1>t, DispatchShape
  <1> HIDE DEF t, n
  <1>2. q # queue[t][k] /\ TenantOf[queue[t][k]] = t /\ future[queue[t][k]] = "pending"
    BY <1>t, <1>1 DEF OrderInv, AccountInv, QueueOwn, LiveAt, IsLive
  <1>3. CASE call[r] = "new"
    BY <1>t, <1>1, <1>2, <1>3 DEF KeepsOrder, OrderInv, AccountInv, Coherent
  <1>4. CASE Ahead(q, r)
    <2>1. PICK i \in DOMAIN queue[TenantOf[r]], j \in DOMAIN queue[TenantOf[r]] :
             i < j /\ queue[TenantOf[r]][i] = q /\ queue[TenantOf[r]][j] = r
      BY <1>4 DEF Ahead
    <2>2. CASE TenantOf[r] = t
      <3>1. i \in LiveAt(t)
        BY <2>1, <2>2 DEF LiveAt, IsLive, OrderInv, AccountInv, Coherent
      <3>2. i \in 1 .. n /\ j \in 1 .. n /\ k < i /\ i < j
        BY <1>1, <1>2, <2>1, <2>2, <3>1
      <3>3. r # queue[t][k]
        BY <1>1, <2>1, <2>2, <3>2 DEF OrderInv, QueueDistinct
      <3>4. future'[r] = future[r]
        BY <1>t, <1>1, <3>3
      <3>5. i - k \in 1 .. n - k /\ j - k \in 1 .. n - k /\ i - k < j - k
            /\ k + (i - k) = i /\ k + (j - k) = j
        <4>1. k \in Nat /\ i \in Nat /\ j \in Nat /\ k < i /\ i < j /\ i <= n /\ j <= n /\ n \in Nat
          BY <1>1, <3>2
        <4> QED
          BY <4>1
      <3>6. queue'[t][i - k] = q /\ queue'[t][j - k] = r
        <4>1. i - k \in DOMAIN queue'[t] /\ j - k \in DOMAIN queue'[t]
          BY <1>1, <3>5
        <4>2. queue'[t][i - k] = queue[t][k + (i - k)] /\ queue'[t][j - k] = queue[t][k + (j - k)]
          BY <1>1, <4>1
        <4> QED
          BY <2>1, <2>2, <3>5, <4>2
      <3>7. Ahead(q, r)'
        BY <1>1, <2>2, <3>5, <3>6 DEF Ahead
      <3> QED
        BY <1>4, <3>4, <3>7, BehindUnserved DEF KeepsOrder
    <2>3. CASE TenantOf[r] # t
      <3>1. future'[r] = future[r]
        BY <1>t, <1>1, <1>2, <2>3
      <3>2. Ahead(q, r)'
        BY <1>t, <1>1, <2>1, <2>3 DEF Ahead
      <3> QED
        BY <1>4, <3>1, <3>2, BehindUnserved DEF KeepsOrder
    <2> QED
      BY <2>2, <2>3
  <1> QED
    BY <1>3, <1>4

(* A slot is put back only when nobody of the tenant waits.                *)
LEMMA OrderPutBack ==
  ASSUME OrderInv, DrainPutsBack,
         NEW q \in Request, NEW r \in Request, future[q] = "pending",
         TenantOf[q] = TenantOf[r], Ahead(q, r) \/ call[r] = "new"
  PROVE  KeepsOrder(q, r)
  <1>1. LiveAt(Current) = {} /\ UNCHANGED future /\ TenantOf[r] \in Tenant
    BY RequestAssumption DEF DrainPutsBack, reqVars
  <1>2. TenantOf[q] # Current
    BY <1>1 DEF OrderInv, AccountInv, PendingQueued, Coherent, LiveAt, IsLive
  <1>3. queue'[TenantOf[r]] = queue[TenantOf[r]]
    BY <1>1, <1>2 DEF DrainPutsBack, OrderInv, AccountInv, TypeOK
  <1>4. Ahead(q, r) => Ahead(q, r)'
    BY <1>3 DEF Ahead
  <1> QED
    BY <1>1, <1>4, BehindUnserved DEF KeepsOrder

(* Within a tenant the dispatches follow the order of arrival: who waits   *)
(* is passed over by nobody who came after it, whatever times out, is      *)
(* cancelled or is put back in the meantime.                               *)
THEOREM ServedInOrder == Spec => FirstComeFirstServed
  <1>1. ASSUME OrderInv, [Next]_vars
        PROVE  [\A q, r \in Request :
                  /\ future[q] = "pending" /\ future'[q] = "pending"
                  /\ TenantOf[q] = TenantOf[r] /\ (Ahead(q, r) \/ call[r] = "new")
                  => future'[r] # "result" /\ (future'[r] = "pending" => Ahead(q, r)')]_vars
    <2> SUFFICES ASSUME NEW q \in Request, NEW r \in Request,
                        future[q] = "pending", future'[q] = "pending",
                        TenantOf[q] = TenantOf[r], Ahead(q, r) \/ call[r] = "new"
                 PROVE  KeepsOrder(q, r)
      BY DEF KeepsOrder
    <2>t. future \in [Request -> {"none", "pending", "result", "error", "cancelled"}]
      BY <1>1 DEF OrderInv, AccountInv, TypeOK
    <2>1. ASSUME NEW x \in Request,
                 TimerFires(x) \/ CancelCaller(x) \/ TaskWakes(x) \/ Release(x)
          PROVE  KeepsOrder(q, r)
      <3>1. UNCHANGED queue
            /\ (\A y \in Request : future'[y] = "result" => future[y] = "result")
            /\ (\A y \in Request : future'[y] = "pending" => future[y] = "pending")
        BY <2>t, <2>1 DEF TimerFires, CancelCaller, Interrupt, TaskWakes, AcquireReturns,
           AcquireStopped, AcquireTimesOut, AcquireCancelled, Release, queueVars
      <3> QED
        BY <1>1, <3>1, OrderStutter
    <2>2. ASSUME NEW w, NEW c, ResizeBudget(w, c) PROVE KeepsOrder(q, r)
      BY <1>1, <2>2, OrderStutter DEF ResizeBudget, reqVars, queueVars
    <2>3. CASE \/ DrainResumes \/ DrainSleeps \/ DrainVisits \/ DrainAcquires
               \/ DrainUnwinds \/ StopCancelsDrain
      BY <1>1, <2>3, OrderStutter DEF DrainResumes, DrainSleeps, DrainVisits, DrainAcquires,
         DrainUnwinds, StopCancelsDrain, reqVars, queueVars
    <2>4. CASE StopFlushes
      <3>1. q \in Flushed(TenantOf[q])
        BY <1>1 DEF OrderInv, AccountInv, PendingQueued, Coherent, Flushed, LiveAt, IsLive
      <3> QED
        BY <2>4, <3>1 DEF StopFlushes
    <2>5. CASE UNCHANGED vars
      BY <1>1, <2>5, OrderStutter DEF vars, reqVars, queueVars
    <2> QED
      BY <1>1, <2>1, <2>2, <2>3, <2>4, <2>5, OrderAcquire, OrderDispatch, OrderPutBack
      DEF Next, DrainStep, SetCapPerWorker, SetNumWorkers
  <1> QED
    BY <1>1, OrderInvariant, PTL DEF Spec, FirstComeFirstServed

-----------------------------------------------------------------------------
(* The weights of the tenants are positive, as every configuration of the  *)
(* repository has them: a tenant of weight 0 never earns a dispatch.       *)
PositiveWeights == \A t \in Tenant : Weight[t] > 0

(* No tenant is in debt, and a slot is only awaited for one with credit.   *)
CreditInv ==
    /\ \A t \in Tenant : deficit[t] >= 0
    /\ pc \in {"blocked", "granted", "got"} => deficit[Current] > 0

(* The tenant just visited is the one the inner loop serves.               *)
LEMMA VisitedIsCurrent ==
  ASSUME idx \in Tenant, idx' = (idx % NumTenants) + 1
  PROVE  /\ Current' = idx
         /\ idx' = IF idx = NumTenants THEN 1 ELSE idx + 1
  <1>1. NumTenants \in Nat /\ NumTenants > 0 /\ idx \in Nat /\ 1 <= idx /\ idx <= NumTenants
    BY TenantAssumption DEF Tenant
  <1>2. idx' = IF idx = NumTenants THEN 1 ELSE idx + 1
    BY <1>1
  <1> QED
    BY <1>1, <1>2 DEF Current

(* Every step keeps the credits in order.                                  *)
LEMMA CreditStep ==
  ASSUME PositiveWeights
  PROVE  TypeOK /\ CreditInv /\ [Next]_vars => CreditInv'
  <1> SUFFICES ASSUME TypeOK, CreditInv, [Next]_vars PROVE CreditInv'
    OBVIOUS
  <1>t. /\ deficit \in [Tenant -> Int] /\ idx \in Tenant /\ Current \in Tenant
        /\ \A t \in Tenant : Weight[t] \in Int /\ Weight[t] > 0
    BY TenantAssumption, RoundStays DEF TypeOK, PositiveWeights
  <1>1. ASSUME UNCHANGED <<deficit, idx>>,
               pc' \in {"blocked", "granted", "got"} => deficit[Current] > 0
        PROVE  CreditInv'
    BY <1>1 DEF CreditInv, Current
  <1>2. ASSUME NEW r \in Request,
               Acquire(r) \/ TimerFires(r) \/ CancelCaller(r) \/ TaskWakes(r) \/ Release(r)
        PROVE  CreditInv'
    <2>1. UNCHANGED <<deficit, idx>> /\ (pc' = pc \/ (pc = "blocked" /\ pc' = "granted"))
      BY <1>2 DEF Acquire, TimerFires, CancelCaller, Interrupt, TaskWakes, AcquireReturns,
         AcquireStopped, AcquireTimesOut, AcquireCancelled, Release, ReleaseSlot, SemRelease,
         queueVars
    <2> QED
      BY <1>1, <2>1 DEF CreditInv
  <1>3. ASSUME NEW w, NEW c, ResizeBudget(w, c) PROVE CreditInv'
    <2>1. UNCHANGED <<deficit, idx>> /\ (pc' = pc \/ (pc = "blocked" /\ pc' = "granted"))
      BY <1>3 DEF ResizeBudget, Grow, SemRelease, queueVars
    <2> QED
      BY <1>1, <2>1 DEF CreditInv
  <1>4. CASE DrainResumes \/ DrainSleeps \/ DrainUnwinds \/ StopCancelsDrain \/ StopFlushes
    <2>1. /\ UNCHANGED <<deficit, idx>>
          /\ pc' \notin {"blocked", "granted", "got"} \/ (pc = "granted" /\ pc' = "got")
      BY <1>4 DEF DrainResumes, DrainSleeps, DrainUnwinds, StopCancelsDrain, StopFlushes,
         queueVars
    <2> QED
      BY <1>1, <2>1 DEF CreditInv
  <1>5. CASE DrainVisits
    <2>1. pc' \in {"top", "inner"}
          /\ \A t \in Tenant : deficit'[t] \in {0, deficit[t], deficit[t] + Weight[t]}
      BY <1>t, <1>5 DEF DrainVisits
    <2>2. \A t \in Tenant : deficit'[t] >= 0
      BY <1>t, <2>1 DEF CreditInv
    <2> QED
      BY <2>1, <2>2 DEF CreditInv
  <1>6. CASE DrainAcquires
    <2>1. UNCHANGED <<deficit, idx>>
          /\ (pc' = "top" \/ deficit[Current] > 0)
      BY <1>6 DEF DrainAcquires, queueVars
    <2> QED
      BY <1>1, <2>1
  <1>7. CASE DrainDispatches \/ DrainPutsBack
    <2>1. pc = "got" /\ pc' \in {"inner", "top"}
          /\ \A t \in Tenant : deficit'[t] \in {0, deficit[t]}
                                 \/ (t = Current /\ deficit'[t] = deficit[t] - 1)
      BY <1>t, <1>7 DEF DrainDispatches, DrainPutsBack
    <2>2. \A t \in Tenant : deficit'[t] >= 0
      BY <1>t, <2>1 DEF CreditInv
    <2> QED
      BY <2>1, <2>2 DEF CreditInv
  <1>8. CASE UNCHANGED vars
    BY <1>1, <1>8 DEF vars, queueVars, CreditInv
  <1> QED
    BY <1>2, <1>3, <1>4, <1>5, <1>6, <1>7, <1>8
    DEF Next, DrainStep, SetCapPerWorker, SetNumWorkers

-----------------------------------------------------------------------------
(* There are at most as many tenants to pass as there are tenants.         *)
LEMMA ToPassBounded ==
  IsFiniteSet(ToPass) /\ Cardinality(ToPass) \in Nat /\ Cardinality(ToPass) <= NumTenants
  <1>1. IsFiniteSet(1 .. NumTenants) /\ Cardinality(1 .. NumTenants) = NumTenants
    BY TenantAssumption, FS_Interval
  <1>2. ToPass \in SUBSET (1 .. NumTenants)
    BY DEF ToPass, Tenant
  <1>3. IsFiniteSet(ToPass) /\ Cardinality(ToPass) <= Cardinality(1 .. NumTenants)
    BY <1>1, <1>2, FS_Subset
  <1> QED
    BY <1>1, <1>3, FS_CardinalityType

(* A visit takes the tenant visited off the arc up to any other tenant.    *)
LEMMA ArcShrinks ==
  ASSUME idx \in Tenant, idx' = (idx % NumTenants) + 1,
         NEW t \in Tenant, t # idx
  PROVE  Arc(t) = Arc(t)' \cup {idx} /\ idx \notin Arc(t)'
  <1>1. /\ NumTenants \in Nat /\ idx \in Nat /\ 1 <= idx /\ idx <= NumTenants
        /\ idx' = IF idx = NumTenants THEN 1 ELSE idx + 1
    BY TenantAssumption, VisitedIsCurrent DEF Tenant
  <1>2. t \in Nat /\ 1 <= t /\ t <= NumTenants
    BY <1>1 DEF Tenant
  <1>3. CASE idx = NumTenants
    BY <1>1, <1>2, <1>3 DEF Arc
  <1>4. CASE idx < NumTenants /\ idx < t
    BY <1>1, <1>2, <1>4 DEF Arc
  <1>5. CASE idx < NumTenants /\ t < idx
    BY <1>1, <1>2, <1>5 DEF Arc
  <1> QED
    BY <1>1, <1>2, <1>3, <1>4, <1>5

(* Passing a tenant without live requests leaves one less to pass: the arc *)
(* up to any other tenant loses just the one passed, and the arc that ends *)
(* at the one passed is now the whole round.                               *)
LEMMA PassingLeavesLess ==
  ASSUME TypeOK, AnyQueueNonempty, live[idx] <= 0,
         idx' = (idx % NumTenants) + 1, UNCHANGED live
  PROVE  Cardinality(ToPass') = Cardinality(ToPass) - 1 /\ Cardinality(ToPass) > 0
  <1>1. /\ NumTenants \in Nat /\ idx \in Nat /\ 1 <= idx /\ idx <= NumTenants
        /\ live \in [Tenant -> Int] /\ idx \in Tenant
        /\ idx' = IF idx = NumTenants THEN 1 ELSE idx + 1
    BY TenantAssumption, VisitedIsCurrent DEF TypeOK, Tenant
  <1>2. PICK b \in Tenant : live[b] > 0
    BY DEF AnyQueueNonempty
  <1>3. ASSUME NEW t \in Tenant, t # idx
        PROVE  Arc(t) = Arc(t)' \cup {idx}
    BY <1>3, ArcShrinks DEF TypeOK
  <1>4. PICK p \in Tenant : p = idx
    BY <1>1
  <1>5. Arc(p)' = Tenant
    <2>1. CASE idx = NumTenants
      BY <1>1, <1>4, <2>1 DEF Arc, Tenant
    <2>2. CASE idx < NumTenants
      <3>1. idx' = p + 1 /\ p \in Nat /\ 1 <= p /\ p < NumTenants
        BY <1>1, <1>4, <2>2
      <3>2. (p + 1 .. NumTenants) \cup (1 .. p) = 1 .. NumTenants
        BY <1>1, <3>1
      <3>3. ~(p + 1 <= p)
        BY <3>1
      <3> QED
        BY <3>1, <3>2, <3>3 DEF Arc, Tenant
    <2> QED
      BY <1>1, <2>1, <2>2
  <1>6. p \in ToPass /\ p \notin ToPass'
    <2>1. Arc(p) = {p}
      BY <1>1, <1>4 DEF Arc
    <2>2. live'[b] > 0 /\ b \in Arc(p)'
      BY <1>2, <1>5
    <2>3. ~(live'[b] <= 0)
      BY <1>1, <1>2
    <2> QED
      BY <1>4, <2>1, <2>2, <2>3 DEF ToPass
  <1>7. \A t \in Tenant \ {p} : t \in ToPass <=> t \in ToPass'
    <2> SUFFICES ASSUME NEW t \in Tenant, t # p
                 PROVE  t \in ToPass <=> t \in ToPass'
      OBVIOUS
    <2>1. Arc(t) = Arc(t)' \cup {p} /\ live[p] <= 0
      BY <1>3, <1>4
    <2> QED
      BY <2>1 DEF ToPass
  <1>8. ToPass' = ToPass \ {p}
    BY <1>6, <1>7 DEF ToPass
  <1>9. IsFiniteSet(ToPass) /\ Cardinality(ToPass) \in Nat
    BY ToPassBounded
  <1>10. Cardinality(ToPass \ {p}) = Cardinality(ToPass) - 1
    BY <1>6, <1>9, FS_RemoveElement
  <1>11. Cardinality(ToPass) # 0
    BY <1>6, <1>9, FS_EmptySet
  <1> QED
    BY <1>8, <1>9, <1>10, <1>11

-----------------------------------------------------------------------------
(* What DrainProgress asks of a step.                                      *)
Progresses ==
    \/ pc = "got" /\ LiveAt(Current) = {} /\ DeadButCounted(Current)
    \/ Cardinality(Pending') < Cardinality(Pending)
    \/ Pending' = Pending /\ Stage' < Stage

(* A visit passes a tenant with nothing live, or ends at one to serve.     *)
LEMMA VisitProgresses ==
  ASSUME PositiveWeights, TypeOK, CreditInv, DrainVisits
  PROVE  Progresses
  <1>t. /\ deficit \in [Tenant -> Int] /\ live \in [Tenant -> Int]
        /\ idx \in Tenant /\ idx' \in Tenant /\ Current' = idx
        /\ idx' = (idx % NumTenants) + 1 /\ Weight[idx] \in Int /\ Weight[idx] > 0
        /\ deficit[idx] >= 0
    BY TenantAssumption, RoundStays, VisitedIsCurrent
    DEF TypeOK, PositiveWeights, CreditInv, DrainVisits
  <1>1. pc = "top" /\ AnyQueueNonempty /\ UNCHANGED live /\ Pending' = Pending
    BY DEF DrainVisits, reqVars, Pending
  <1>2. Cardinality(ToPass) \in Nat /\ Stage = 2 * Cardinality(ToPass) + 3
    BY <1>1, ToPassBounded DEF Stage
  <1>3. Stage' < Stage
    <2>1. CASE live[idx] <= 0
      <3>1. Cardinality(ToPass') = Cardinality(ToPass) - 1 /\ Cardinality(ToPass) > 0
        BY <1>t, <1>1, <2>1, PassingLeavesLess
      <3>2. \/ pc' = "top" /\ Stage' = 2 * Cardinality(ToPass') + 3
            \/ pc' = "inner" /\ Stage' = 2 * Cardinality(ToPass') + 4
        <4>1. ~(live'[Current'] > 0) /\ pc' \in {"top", "inner"}
          BY <1>t, <1>1, <2>1 DEF DrainVisits
        <4> QED
          BY <4>1 DEF Stage
      <3> QED
        BY <1>2, <3>1, <3>2
    <2>2. CASE live[idx] > 0
      <3>1. pc' = "inner" /\ deficit'[idx] = deficit[idx] + Weight[idx]
        BY <1>t, <2>2 DEF DrainVisits
      <3>2. deficit'[Current'] > 0 /\ live'[Current'] > 0
        BY <1>t, <1>1, <2>2, <3>1
      <3>3. Stage' = 2
        BY <3>1, <3>2 DEF Stage
      <3> QED
        BY <1>2, <3>3
    <2> QED
      BY <1>t, <2>1, <2>2
  <1> QED
    BY <1>1, <1>3 DEF Progresses

(* The inner loop takes a slot for the next dispatch, or is left.          *)
LEMMA AcquireProgresses ==
  ASSUME TypeOK, DrainAcquires, Running'
  PROVE  Progresses
  <1>t. /\ deficit \in [Tenant -> Int] /\ live \in [Tenant -> Int] /\ Current \in Tenant
        /\ Current' = Current
    BY RoundStays DEF TypeOK, DrainAcquires, Current
  <1>1. pc = "inner" /\ UNCHANGED <<live, deficit, idx>> /\ Pending' = Pending
    BY DEF DrainAcquires, reqVars, queueVars, Pending
  <1>2. ToPass' = ToPass /\ Cardinality(ToPass) \in Nat
    BY <1>1, ToPassBounded DEF ToPass, Arc
  <1>3. CASE deficit[Current] > 0 /\ live[Current] > 0
    <2>1. pc' = "got"
      BY <1>t, <1>3 DEF DrainAcquires, Running
    <2>2. Stage = 2 /\ Stage' = 1
      BY <1>t, <1>1, <1>3, <2>1 DEF Stage
    <2> QED
      BY <1>1, <2>2 DEF Progresses
  <1>4. CASE ~(deficit[Current] > 0 /\ live[Current] > 0)
    <2>1. pc' = "top"
      BY <1>4 DEF DrainAcquires
    <2>2. Stage = 2 * Cardinality(ToPass) + 4 /\ Stage' = 2 * Cardinality(ToPass) + 3
      BY <1>1, <1>2, <1>4, <2>1 DEF Stage
    <2> QED
      BY <1>1, <1>2, <2>2 DEF Progresses
  <1> QED
    BY <1>3, <1>4

(* A dispatch leaves one request less to serve.                            *)
LEMMA DispatchProgresses ==
  ASSUME TypeOK, DrainDispatches
  PROVE  Progresses
  <1>1. PICK k \in LiveAt(Current) :
           queue[Current][k] \in Request /\ future' = [future EXCEPT ![queue[Current][k]] = "result"]
    BY DispatchShape
  <1>2. PICK r \in Request : r = queue[Current][k]
    BY <1>1
  <1>3. future[r] = "pending" /\ future' = [future EXCEPT ![r] = "result"]
    BY <1>1, <1>2 DEF LiveAt, IsLive
  <1>4. r \in Pending /\ Pending' = Pending \ {r} /\ Pending \in SUBSET Request
    BY <1>3 DEF Pending, TypeOK
  <1>5. IsFiniteSet(Pending) /\ Cardinality(Pending) \in Nat
    BY <1>4, RequestSubset
  <1>6. Cardinality(Pending \ {r}) = Cardinality(Pending) - 1
    BY <1>4, <1>5, FS_RemoveElement
  <1> QED
    BY <1>4, <1>5, <1>6 DEF Progresses

(* A slot is put back either because the count of the tenant has meanwhile *)
(* fallen to zero, which ends its turn, or because it still counts one     *)
(* whose future is cancelled: a pending one would have been found.         *)
LEMMA PutBackProgresses ==
  ASSUME AccountInv, DrainPutsBack
  PROVE  Progresses
  <1>t. TypeOK /\ live \in [Tenant -> Int] /\ Current \in Tenant /\ NumTenants \in Nat
    BY TenantAssumption, RoundStays DEF AccountInv, TypeOK
  <1>1. /\ pc = "got" /\ LiveAt(Current) = {} /\ pc' = "top"
        /\ UNCHANGED <<live, idx>> /\ Pending' = Pending
    BY DEF DrainPutsBack, reqVars, Pending
  <1>2. CASE live[Current] > 0
    <2>1. Unserved(Current) \in SUBSET Request /\ Raced(Current) \in SUBSET Request
      BY DEF Unserved, Raced
    <2>2. /\ IsFiniteSet(Unserved(Current))
          /\ Cardinality(Unserved(Current)) \in Nat /\ Cardinality(Raced(Current)) \in Nat
      BY <2>1, RequestSubset
    <2>3. Cardinality(Unserved(Current)) # 0
      BY <1>t, <1>2, <2>2 DEF AccountInv, Exact, LiveExact
    <2>4. PICK r \in Unserved(Current) : TRUE
      BY <2>2, <2>3, FS_EmptySet
    <2>5. future[r] # "pending"
      BY <1>1, <2>4 DEF AccountInv, PendingQueued, Coherent, Unserved, LiveAt, IsLive
    <2>6. DeadButCounted(Current)
      BY <2>4, <2>5 DEF DeadButCounted, Unserved
    <2> QED
      BY <1>1, <2>6 DEF Progresses
  <1>3. CASE ~(live[Current] > 0)
    <2>1. ToPass' = ToPass /\ Cardinality(ToPass) \in Nat /\ Cardinality(ToPass) <= NumTenants
      BY <1>1, ToPassBounded DEF ToPass, Arc
    <2>2. Stage = 2 * NumTenants + 5 /\ Stage' = 2 * Cardinality(ToPass) + 3
      BY <1>1, <1>3, <2>1 DEF Stage
    <2> QED
      BY <1>t, <1>1, <2>1, <2>2 DEF Progresses
  <1> QED
    BY <1>2, <1>3

(* Every step that begins and ends in a running drain is one of its own.   *)
LEMMA DrainStepProgresses ==
  ASSUME PositiveWeights, AccountInv, CreditInv, Next, Running, Running'
  PROVE  Progresses
  <1>t. TypeOK
    BY DEF AccountInv
  <1>1. ASSUME NEW r \in Request,
               Acquire(r) \/ TimerFires(r) \/ CancelCaller(r) \/ TaskWakes(r) \/ Release(r)
        PROVE  FALSE
    BY <1>1 DEF Acquire, TimerFires, CancelCaller, TaskWakes, AcquireReturns, AcquireStopped,
       AcquireTimesOut, AcquireCancelled, Awake, Release
  <1>2. ASSUME NEW w, NEW c, ResizeBudget(w, c) PROVE FALSE
    BY <1>2 DEF ResizeBudget
  <1>3. CASE DrainResumes \/ DrainSleeps \/ DrainUnwinds \/ StopCancelsDrain \/ StopFlushes
    BY <1>3 DEF DrainResumes, DrainSleeps, DrainUnwinds, StopCancelsDrain, StopFlushes,
       Suspended, Running
  <1> QED
    BY <1>t, <1>1, <1>2, <1>3, VisitProgresses, AcquireProgresses, DispatchProgresses,
       PutBackProgresses
    DEF Next, DrainStep, SetCapPerWorker, SetNumWorkers

(* With positive weights the drain comes to its next suspension, unless it *)
(* keeps putting slots back for a tenant that counts a caller whose future *)
(* is cancelled and whose handler cannot run before the drain suspends:    *)
(* each other step serves a request or lowers a natural number.            *)
THEOREM DrainMakesProgress ==
  ASSUME PositiveWeights
  PROVE  Spec => DrainProgress
  <1>1. Init => CreditInv
    BY DEF Init, CreditInv
  <1>2. TypeOK /\ CreditInv /\ [Next]_vars => CreditInv'
    BY CreditStep
  <1>3. ASSUME AccountInv, CreditInv, [Next]_vars
        PROVE  [Running /\ Running' =>
                  \/ pc = "got" /\ LiveAt(Current) = {} /\ DeadButCounted(Current)
                  \/ Cardinality(Pending') < Cardinality(Pending)
                  \/ Pending' = Pending /\ Stage' < Stage]_vars
    BY <1>3, DrainStepProgresses DEF Progresses
  <1>4. AccountInv => TypeOK
    BY DEF AccountInv
  <1> QED
    BY <1>1, <1>2, <1>3, <1>4, AccountInvariant, PTL DEF Spec, DrainProgress

(* History: how many steps in a row the drain has taken without serving a  *)
(* request, giving the event loop back, or putting a slot back for a       *)
(* tenant whose live_count counts a caller that gave up.                   *)
VARIABLE burst

Fruitless ==
    /\ Running /\ Running'
    /\ ~(pc = "got" /\ LiveAt(Current) = {} /\ DeadButCounted(Current))
    /\ ~(Cardinality(Pending') < Cardinality(Pending))

Counts == burst' = IF Fruitless THEN burst + 1 ELSE 0

CountedSpec == Init /\ burst = 0 /\ [][Next /\ Counts]_<<vars, burst>>

(* The stage of the drain is a small natural number.                       *)
MaxStage == 2 * NumTenants + 5

StageInv == Stage \in 1 .. MaxStage

LEMMA StageBounded == TypeOK => StageInv
  <1> SUFFICES ASSUME TypeOK PROVE StageInv
    OBVIOUS
  <1>1. NumTenants \in Nat /\ Cardinality(ToPass) \in Nat /\ Cardinality(ToPass) <= NumTenants
    BY TenantAssumption, ToPassBounded
  <1>2. Stage \in {1, 2 * NumTenants + 5, 2 * Cardinality(ToPass) + 3, 2,
                   2 * Cardinality(ToPass) + 4}
    BY DEF Stage
  <1> QED
    BY <1>1, <1>2 DEF StageInv, MaxStage

(* What is counted and what is left to count: a burst pays for each step   *)
(* with its stage.                                                         *)
BurstInv ==
    /\ burst \in Nat
    /\ Running => burst + Stage <= MaxStage
    /\ ~Running => burst = 0

(* The arithmetic of both: a step that lowers the stage, a step that does  *)
(* not count.                                                              *)
LEMMA StepPaid ==
  ASSUME NEW a \in Nat, NEW s \in Nat, NEW t \in Nat, NEW k \in Nat, a + s <= k, t < s
  PROVE  a + 1 \in Nat /\ (a + 1) + t <= k
  OBVIOUS

LEMMA StartsPaid ==
  ASSUME NEW a, a = 0, NEW t \in Nat, NEW k \in Nat, t <= k
  PROVE  a \in Nat /\ a + t <= k
  OBVIOUS

(* A running drain keeps the event loop for at most 2 * NumTenants + 4     *)
(* steps in a row without serving anybody, unless it puts slots back for a *)
(* tenant whose live_count is wrong, for any number of tenants of positive *)
(* weight (core.py:260-293).                                               *)
THEOREM BurstBounded ==
  ASSUME PositiveWeights
  PROVE  CountedSpec => [](burst <= 2 * NumTenants + 4)
  <1>1. CountedSpec => Spec
    <2>1. [Next /\ Counts]_<<vars, burst>> => [Next]_vars
      OBVIOUS
    <2> QED
      BY <2>1, PTL DEF CountedSpec, Spec
  <1>2. Init => TypeOK /\ CreditInv /\ ~Running
    BY TypeOKInit DEF Init, CreditInv, Running
  <1>3. ASSUME AccountInv, CreditInv, StageInv, StageInv', BurstInv, [Next /\ Counts]_<<vars, burst>>
        PROVE  BurstInv'
    <2>0. MaxStage \in Nat
      BY TenantAssumption DEF MaxStage
    <2>1. Stage \in Nat /\ Stage' \in Nat /\ Stage' <= MaxStage
      BY <1>3, <2>0 DEF StageInv
    <2>2. CASE UNCHANGED <<vars, burst>>
      <3>1. (Running' <=> Running) /\ Stage' = Stage /\ burst' = burst
        BY <2>2 DEF vars, queueVars, Running, Stage, Current, ToPass, Arc
      <3> QED
        BY <1>3, <3>1 DEF BurstInv
    <2>3. CASE Next /\ Counts /\ Fruitless
      <3>1. Stage' < Stage
        BY <1>3, <2>3, DrainStepProgresses DEF Progresses, Fruitless
      <3>2. burst' = burst + 1 /\ Running /\ Running'
        BY <2>3, Zenon DEF Counts, Fruitless
      <3>3. burst \in Nat /\ burst + Stage <= MaxStage
        BY <1>3, <3>2, Zenon DEF BurstInv
      <3>4. burst + 1 \in Nat /\ (burst + 1) + Stage' <= MaxStage
        BY <2>0, <2>1, <3>1, <3>3, StepPaid, Zenon
      <3> QED
        BY <3>2, <3>4, Zenon DEF BurstInv
    <2>4. CASE Counts /\ ~Fruitless
      <3>1. burst' = 0
        BY <2>4, Zenon DEF Counts
      <3>2. burst' \in Nat /\ burst' + Stage' <= MaxStage
        BY <2>0, <2>1, <3>1, StartsPaid, Zenon
      <3> QED
        BY <3>1, <3>2, Zenon DEF BurstInv
    <2> QED
      BY <1>3, <2>2, <2>3, <2>4
  <1>4. StageInv /\ BurstInv => burst <= 2 * NumTenants + 4
    BY TenantAssumption DEF BurstInv, StageInv, MaxStage
  <1>5. TypeOK /\ CreditInv /\ [Next]_vars => CreditInv'
    BY CreditStep
  <1>6. AccountInv => TypeOK
    BY DEF AccountInv
  <1>7. ~Running /\ burst = 0 => BurstInv
    BY DEF BurstInv
  <1> QED
    BY <1>1, <1>2, <1>3, <1>4, <1>5, <1>6, <1>7, StageBounded, AccountInvariant, PTL DEF CountedSpec, Spec

-----------------------------------------------------------------------------
(* What TurnsKept asks of a step for u and t.                              *)
KeepsTurn(u, t) ==
    /\ Claim(u, t)' <= Claim(u, t)
    /\ Serves(u) => Claim(u, t) > 0 /\ Claim(u, t)' < Claim(u, t)

(* A claim is a number.                                                    *)
LEMMA ClaimTyped ==
  ASSUME TypeOK, NEW u \in Tenant, NEW t \in Tenant
  PROVE  /\ Claim(u, t) \in Int /\ deficit[u] \in Int /\ Weight[u] \in Int
         /\ Claim(u, t) = deficit[u] + (IF u \in Arc(t) THEN Weight[u] ELSE 0)
  <1>1. deficit[u] \in Int /\ Weight[u] \in Int
    BY TenantAssumption DEF TypeOK
  <1> QED
    BY <1>1 DEF Claim

(* A step that dispatches nothing, moves no credit and stays at its place  *)
(* of the round keeps every turn.                                          *)
LEMMA TurnStutter ==
  ASSUME TypeOK, NEW u \in Tenant, NEW t \in Tenant, UNCHANGED <<deficit, idx>>,
         \A r \in Request : future'[r] = "result" => future[r] = "result"
  PROVE  KeepsTurn(u, t)
  <1>1. ~Serves(u)
    BY DEF Serves
  <1>2. Claim(u, t)' = Claim(u, t)
    BY DEF Claim, Arc
  <1> QED
    BY <1>1, <1>2, ClaimTyped DEF KeepsTurn

(* Coming to u turns the quantum of its claim into credit, or forfeits     *)
(* both.                                                                   *)
LEMMA VisitKeepsTurn ==
  ASSUME PositiveWeights, TypeOK, CreditInv, DrainVisits,
         NEW u \in Tenant, NEW t \in Tenant, t # u, ~Visits(t)
  PROVE  KeepsTurn(u, t)
  <1>1. /\ pc = "top" /\ idx \in Tenant /\ idx' = (idx % NumTenants) + 1
        /\ deficit \in [Tenant -> Int] /\ UNCHANGED future
    BY DEF DrainVisits, TypeOK, reqVars
  <1>2. idx # t
    <2> SUFFICES ASSUME idx = t PROVE FALSE
      OBVIOUS
    <2>1. /\ NumTenants \in Nat /\ idx \in Nat /\ 1 <= idx /\ idx <= NumTenants
          /\ u \in Nat /\ 1 <= u /\ u <= NumTenants /\ u # idx
          /\ idx' = IF idx = NumTenants THEN 1 ELSE idx + 1
      BY <1>1, TenantAssumption, VisitedIsCurrent DEF Tenant
    <2>2. idx' # idx
      BY <2>1
    <2> QED
      BY <1>1, <2>2 DEF Visits
  <1>3. Arc(t) = Arc(t)' \cup {idx} /\ idx \notin Arc(t)'
    BY <1>1, <1>2, ArcShrinks
  <1>4. /\ deficit[u] \in Int /\ deficit[u] >= 0 /\ Weight[u] \in Int /\ Weight[u] > 0
        /\ Claim(u, t) = deficit[u] + (IF u \in Arc(t) THEN Weight[u] ELSE 0)
    BY ClaimTyped DEF CreditInv, PositiveWeights
  <1>5. Claim(u, t)' = deficit'[u] + (IF u \in Arc(t)' THEN Weight[u] ELSE 0)
    BY DEF Claim
  <1>6. Claim(u, t)' <= Claim(u, t)
    <2>1. CASE u = idx
      <3>1. u \in Arc(t) /\ u \notin Arc(t)'
        BY <1>3, <2>1
      <3>2. deficit'[u] = 0 \/ deficit'[u] = deficit[u] + Weight[u]
        BY <1>1, <2>1 DEF DrainVisits
      <3> QED
        BY <1>4, <1>5, <3>1, <3>2
    <2>2. CASE u # idx
      <3>1. u \in Arc(t) <=> u \in Arc(t)'
        BY <1>3, <2>2
      <3>2. deficit'[u] = deficit[u]
        BY <1>1, <2>2 DEF DrainVisits
      <3> QED
        BY <1>4, <1>5, <3>1, <3>2
    <2> QED
      BY <2>1, <2>2
  <1>7. ~Serves(u)
    BY <1>1 DEF Serves
  <1> QED
    BY <1>6, <1>7 DEF KeepsTurn

(* A dispatch is one of the tenant whose turn it is, and costs it credit;  *)
(* a slot put back costs it all of its credit.                             *)
LEMMA ServiceKeepsTurn ==
  ASSUME PositiveWeights, AccountInv, CreditInv, DrainDispatches \/ DrainPutsBack,
         NEW u \in Tenant, NEW t \in Tenant
  PROVE  KeepsTurn(u, t)
  <1>t. /\ TypeOK /\ pc = "got" /\ UNCHANGED idx /\ Current \in Tenant
        /\ deficit \in [Tenant -> Int]
    BY RoundStays DEF AccountInv, TypeOK, DrainDispatches, DrainPutsBack
  <1>1. /\ deficit[u] \in Int /\ deficit[u] >= 0 /\ Weight[u] \in Int /\ Weight[u] > 0
        /\ Claim(u, t) = deficit[u] + (IF u \in Arc(t) THEN Weight[u] ELSE 0)
        /\ Claim(u, t) \in Int
    BY <1>t, ClaimTyped DEF CreditInv, PositiveWeights
  <1>2. Claim(u, t)' = deficit'[u] + (IF u \in Arc(t) THEN Weight[u] ELSE 0)
    BY <1>t DEF Claim, Arc
  <1>3. CASE DrainPutsBack
    <2>1. deficit'[u] \in {0, deficit[u]} /\ UNCHANGED future
      BY <1>t, <1>3 DEF DrainPutsBack, reqVars
    <2>2. ~Serves(u)
      BY <2>1 DEF Serves
    <2>3. Claim(u, t)' <= Claim(u, t)
      BY <1>1, <1>2, <2>1
    <2> QED
      BY <2>2, <2>3 DEF KeepsTurn
  <1>4. CASE DrainDispatches
    <2>1. PICK k \in LiveAt(Current) :
            /\ queue[Current][k] \in Request
            /\ future' = [future EXCEPT ![queue[Current][k]] = "result"]
      BY <1>t, <1>4, DispatchShape
    <2>2. TenantOf[queue[Current][k]] = Current
      BY <1>t, <2>1 DEF AccountInv, QueueOwn, LiveAt
    <2>3. CASE u = Current
      <3>1. deficit'[u] = deficit[u] - 1 /\ deficit[u] > 0
        BY <1>t, <1>4, <2>3 DEF DrainDispatches, CreditInv
      <3>2. u \in Arc(t) => Claim(u, t) = deficit[u] + Weight[u]
                             /\ Claim(u, t)' = deficit[u] - 1 + Weight[u]
        BY <1>1, <1>2, <3>1
      <3>3. u \notin Arc(t) => Claim(u, t) = deficit[u] /\ Claim(u, t)' = deficit[u] - 1
        BY <1>1, <1>2, <3>1
      <3> QED
        BY <1>1, <3>1, <3>2, <3>3 DEF KeepsTurn
    <2>4. CASE u # Current
      <3>1. deficit'[u] = deficit[u]
        BY <1>t, <1>4, <2>4 DEF DrainDispatches
      <3>2. ~Serves(u)
        BY <1>t, <2>1, <2>2, <2>4 DEF Serves, TypeOK
      <3> QED
        BY <1>1, <1>2, <3>1, <3>2 DEF KeepsTurn
    <2> QED
      BY <2>3, <2>4
  <1> QED
    BY <1>3, <1>4

(* Between two visits of a tenant each other tenant is served at most its  *)
(* credit and one quantum, for any number of tenants and any positive      *)
(* weights: every dispatch is charged to the claim, and nothing fills it.  *)
THEOREM TurnsAreKept ==
  ASSUME PositiveWeights
  PROVE  Spec => TurnsKept
  <1>1. Init => CreditInv
    BY DEF Init, CreditInv
  <1>2. TypeOK /\ CreditInv /\ [Next]_vars => CreditInv'
    BY CreditStep
  <1>3. ASSUME AccountInv, CreditInv, [Next]_vars
        PROVE  [\A t, u \in Tenant : t # u /\ ~Visits(t) =>
                  /\ Claim(u, t)' <= Claim(u, t)
                  /\ Serves(u) => Claim(u, t) > 0 /\ Claim(u, t)' < Claim(u, t)]_vars
    <2> SUFFICES ASSUME Next, NEW t \in Tenant, NEW u \in Tenant, t # u, ~Visits(t)
                 PROVE  KeepsTurn(u, t)
      BY <1>3 DEF KeepsTurn
    <2>t. /\ TypeOK
          /\ future \in [Request -> {"none", "pending", "result", "error", "cancelled"}]
      BY <1>3 DEF AccountInv, TypeOK
    <2>1. ASSUME NEW r \in Request,
                 \/ Acquire(r) \/ TimerFires(r) \/ CancelCaller(r)
                 \/ TaskWakes(r) \/ Release(r)
          PROVE  KeepsTurn(u, t)
      <3>1. UNCHANGED <<deficit, idx>>
            /\ \A y \in Request : future'[y] = "result" => future[y] = "result"
        BY <2>t, <2>1 DEF Acquire, TimerFires, CancelCaller, Interrupt, TaskWakes,
           AcquireReturns, AcquireStopped, AcquireTimesOut, AcquireCancelled, Release, queueVars
      <3> QED
        BY <2>t, <3>1, TurnStutter
    <2>2. ASSUME NEW w, NEW c, ResizeBudget(w, c) PROVE KeepsTurn(u, t)
      BY <2>t, <2>2, TurnStutter DEF ResizeBudget, reqVars, queueVars
    <2>3. CASE \/ DrainResumes \/ DrainSleeps \/ DrainAcquires
               \/ DrainUnwinds \/ StopCancelsDrain
      BY <2>t, <2>3, TurnStutter DEF DrainResumes, DrainSleeps, DrainAcquires,
         DrainUnwinds, StopCancelsDrain, reqVars, queueVars
    <2>4. CASE StopFlushes
      <3>1. UNCHANGED <<deficit, idx>>
            /\ \A y \in Request : future'[y] = "result" => future[y] = "result"
        BY <2>t, <2>4 DEF StopFlushes
      <3> QED
        BY <2>t, <3>1, TurnStutter
    <2> QED
      BY <1>3, <2>t, <2>1, <2>2, <2>3, <2>4, VisitKeepsTurn, ServiceKeepsTurn
      DEF Next, DrainStep, SetCapPerWorker, SetNumWorkers
  <1>4. AccountInv => TypeOK
    BY DEF AccountInv
  <1> QED
    BY <1>1, <1>2, <1>3, <1>4, AccountInvariant, PTL DEF Spec, TurnsKept
==============================================================================
