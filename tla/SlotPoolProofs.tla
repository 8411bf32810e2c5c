---------------------------- MODULE SlotPoolProofs ----------------------------
(* TenantScheduler implements SlotPool, for every value of the constants:  *)
(* the initial states map to initial states and every step of the          *)
(* scheduler is a step of the pool or leaves it unchanged.                 *)
EXTENDS TenantAccountingProofs

(* Only stop() puts an error into a future, and nothing follows it.        *)
ErrorsFromStop == \A r \in Request : future[r] = "error" => pc = "flushed"

(* The factors of the budget are values somebody set.                      *)
KnownFactors ==
    /\ numWorkers \in Workers \cup {InitWorkers}
    /\ capPerWorker \in Caps \cup {InitCap}

(* What the mapping of steps relies on.                                    *)
PoolInv == TypeOK /\ Coherent /\ ErrorsFromStop /\ KnownFactors

(* At the start no future holds an error.                                  *)
LEMMA PoolInvInit == Init => ErrorsFromStop /\ KnownFactors
  BY DEF Init, ErrorsFromStop, KnownFactors

(* No step but stop()'s flush puts an error into a future, and the flushed *)
(* scheduler stays flushed.                                                *)
LEMMA ErrorsStep == TypeOK /\ ErrorsFromStop /\ [Next]_vars => ErrorsFromStop'
  <1> SUFFICES ASSUME TypeOK, ErrorsFromStop, [Next]_vars PROVE ErrorsFromStop'
    OBVIOUS
  <1> USE DEF ErrorsFromStop
  <1>0. future \in [Request -> {"none", "pending", "result", "error", "cancelled"}]
    BY DEF TypeOK
  <1>1. ASSUME NEW r \in Request,
               Acquire(r) \/ TimerFires(r) \/ CancelCaller(r)
                 \/ AcquireReturns(r) \/ AcquireStopped(r) \/ AcquireTimesOut(r)
        PROVE  ErrorsFromStop'
    BY <1>0, <1>1 DEF Acquire, TimerFires, CancelCaller, Interrupt,
       AcquireReturns, AcquireStopped, AcquireTimesOut
  <1>2. ASSUME NEW r \in Request, AcquireCancelled(r) \/ Release(r) PROVE ErrorsFromStop'
    BY <1>0, <1>2 DEF AcquireCancelled, Release, ReleaseSlot, SemRelease
  <1>3. ASSUME NEW w, NEW c, ResizeBudget(w, c) PROVE ErrorsFromStop'
    BY <1>0, <1>3 DEF ResizeBudget, StopPhases, reqVars
  <1>4. CASE DrainResumes \/ DrainSleeps \/ DrainVisits \/ DrainAcquires \/ DrainPutsBack
    BY <1>0, <1>4 DEF DrainResumes, DrainSleeps, DrainVisits, DrainAcquires,
       DrainPutsBack, reqVars
  <1>5. CASE DrainDispatches
    <2>1. PICK q : future' = [future EXCEPT ![q] = "result"]
      BY <1>5 DEF DrainDispatches
    <2> QED
      BY <1>0, <1>5, <2>1 DEF DrainDispatches
  <1>6. CASE StopCancelsDrain \/ DrainUnwinds
    BY <1>0, <1>6 DEF StopCancelsDrain, Suspended, DrainUnwinds, reqVars
  <1>7. CASE StopFlushes
    BY <1>7 DEF StopFlushes
  <1>8. CASE UNCHANGED vars
    BY <1>8 DEF vars, reqVars
  <1> HIDE DEF ErrorsFromStop
  <1> QED
    BY <1>1, <1>2, <1>3, <1>4, <1>5, <1>6, <1>7, <1>8
    DEF Next, DrainStep, TaskWakes, SetCapPerWorker, SetNumWorkers

(* Only the two setters change the factors of the budget.                  *)
LEMMA FactorsStep == KnownFactors /\ [Next]_vars => KnownFactors'
  <1> SUFFICES ASSUME KnownFactors, [Next]_vars PROVE KnownFactors'
    OBVIOUS
  <1>1. ASSUME NEW c \in Caps, SetCapPerWorker(c) PROVE KnownFactors'
    BY <1>1 DEF SetCapPerWorker, ResizeBudget, KnownFactors
  <1>2. ASSUME NEW w \in Workers, SetNumWorkers(w) PROVE KnownFactors'
    BY <1>2 DEF SetNumWorkers, ResizeBudget, KnownFactors
  <1>3. ASSUME UNCHANGED resizeVars PROVE KnownFactors'
    BY <1>3 DEF resizeVars, KnownFactors
  <1>4. ASSUME NEW r \in Request,
               Acquire(r) \/ TimerFires(r) \/ CancelCaller(r) \/ TaskWakes(r) \/ Release(r)
        PROVE  UNCHANGED resizeVars
    BY <1>4 DEF Acquire, TimerFires, CancelCaller, Interrupt, TaskWakes, AcquireReturns,
       AcquireStopped, AcquireTimesOut, AcquireCancelled, Release
  <1>5. ASSUME DrainStep \/ StopCancelsDrain \/ StopFlushes PROVE UNCHANGED resizeVars
    BY <1>5 DEF DrainStep, DrainResumes, DrainSleeps, DrainVisits, DrainAcquires,
       DrainDispatches, DrainPutsBack, DrainUnwinds, StopCancelsDrain, StopFlushes
  <1> QED
    BY <1>1, <1>2, <1>3, <1>4, <1>5 DEF Next, vars

-----------------------------------------------------------------------------
(* A step that concerns request r changes at most r's share of the pool.   *)
LEMMA ShareMoves ==
  ASSUME NEW r \in Request, OnlyMoves(r)
  PROVE  Pool!Becomes(r, Share(r)')
  <1>1. \A q \in Request \ {r} : Share(q)' = Share(q)
    BY DEF OnlyMoves, Share
  <1> QED
    BY <1>1 DEF Pool!Becomes

(* A step that leaves every share alone leaves them alone together.        *)
LEMMA SharesUnmoved ==
  ASSUME \A q \in Request : Share(q)' = Share(q)
  PROVE  UNCHANGED [q \in Request |-> Share(q)]
  OBVIOUS

(* release() gives a slot back to the pool: to the semaphore, to the       *)
(* blocked drain, or to the contraction owed.                              *)
LEMMA GivesBack ==
  ASSUME TypeOK, ReleaseSlot, UNCHANGED budget
  PROVE  Pool!GiveBack
  <1>1. sem \in Nat /\ inflight \in Int /\ pendingShrink \in Nat
    BY DEF TypeOK
  <1>2. CASE pendingShrink > 0
    BY <1>1, <1>2 DEF ReleaseSlot, Pool!GiveBack, Reserved
  <1>3. CASE pendingShrink = 0
    <2>1. sem' + Reserved' = sem + Reserved + 1
      BY <1>1, <1>3 DEF ReleaseSlot, SemRelease, Reserved
    <2>2. (pc \in StopPhases)' = (pc \in StopPhases)
      BY <1>3 DEF ReleaseSlot, SemRelease, StopPhases
    <2> QED
      BY <1>1, <1>3, <2>1, <2>2 DEF ReleaseSlot, Pool!GiveBack
  <1> QED
    BY <1>1, <1>2, <1>3

(* Steps of a request: asking, giving up, leaking and returning.           *)
LEMMA RequestRefines ==
  ASSUME PoolInv, NEW r \in Request,
         Acquire(r) \/ TimerFires(r) \/ CancelCaller(r) \/ TaskWakes(r) \/ Release(r)
  PROVE  Pool!Next \/ UNCHANGED Pool!vars
  <1>1. /\ call \in [Request -> {"new", "waiting", "held", "released",
                                 "shed", "expired", "cancelled"}]
        /\ future \in [Request -> {"none", "pending", "result", "error", "cancelled"}]
        /\ TypeOK
    BY DEF PoolInv, TypeOK
  <1>2. /\ call[r] = "new" => future[r] = "none"
        /\ call[r] = "waiting" => future[r] # "none"
        /\ future[r] = "error" => pc \in StopPhases
    BY DEF PoolInv, Coherent, ErrorsFromStop, StopPhases
  <1>3. Pool!Becomes(r, Share(r)')
    <2>1. OnlyMoves(r)
      BY <1>1 DEF OnlyMoves, Acquire, TimerFires, CancelCaller, Interrupt, TaskWakes,
         AcquireReturns, AcquireStopped, AcquireTimesOut, AcquireCancelled, Release
    <2> QED
      BY <2>1, ShareMoves
  <1>4. [q \in Request |-> Share(q)][r] = Share(r)
    OBVIOUS
  <1> DEFINE Still == UNCHANGED <<pc, slotVars, budget>>
  <1>5. Still => UNCHANGED <<sem + Reserved, inflight, pendingShrink, budget, pc \in StopPhases>>
    BY DEF slotVars, Reserved
  <1>6. CASE Acquire(r)
    <2>1. Share(r) = "none" /\ Share(r)' \in {"asking", "refused"}
      BY <1>1, <1>2, <1>6 DEF Acquire, Share
    <2>2. Still
      BY <1>6 DEF Acquire, resizeVars
    <2> QED
      BY <1>3, <1>4, <1>5, <2>1, <2>2 DEF Pool!Ask, Pool!Next
  <1>7. CASE TimerFires(r) \/ CancelCaller(r) \/ AcquireReturns(r)
    <2>1. Share(r)' = Share(r)
      BY <1>1, <1>7 DEF TimerFires, CancelCaller, Interrupt, AcquireReturns, Awake, Share
    <2>2. Still
      BY <1>7 DEF TimerFires, CancelCaller, Interrupt, AcquireReturns, resizeVars, slotVars
    <2>3. UNCHANGED [q \in Request |-> Share(q)]
      BY <1>3, <2>1 DEF Pool!Becomes
    <2> QED
      BY <1>5, <2>2, <2>3 DEF Pool!vars
  <1>8. CASE AcquireStopped(r) \/ AcquireTimesOut(r)
    <2>1. Still
      BY <1>8 DEF AcquireStopped, AcquireTimesOut, resizeVars, slotVars
    <2>2. CASE future[r] = "result"
      <3>1. Share(r) = "owning" /\ Share(r)' = "leaked"
        BY <1>1, <1>8, <2>2 DEF AcquireStopped, AcquireTimesOut, Awake, Share
      <3> QED
        BY <1>3, <1>4, <1>5, <2>1, <3>1 DEF Pool!Leak, Pool!Next
    <2>3. CASE future[r] # "result"
      <3>1. Share(r) = "asking" /\ Share(r)' = "refused"
        BY <1>1, <1>8, <2>3 DEF AcquireStopped, AcquireTimesOut, Awake, Share
      <3> QED
        BY <1>3, <1>4, <1>5, <2>1, <3>1 DEF Pool!GiveUp, Pool!Next
    <2> QED
      BY <2>2, <2>3
  <1>9. CASE AcquireCancelled(r)
    <2>1. CASE ~Settled(r)
      <3>1. Still
        BY <1>9, <2>1 DEF AcquireCancelled, resizeVars, slotVars
      <3>2. Share(r) = "asking" /\ Share(r)' = "refused"
        BY <1>1, <1>9, <2>1 DEF AcquireCancelled, Awake, Settled, Share
      <3> QED
        BY <1>3, <1>4, <1>5, <3>1, <3>2 DEF Pool!GiveUp, Pool!Next
    <2>2. CASE Settled(r)
      <3>1. Pool!GiveBack
        BY <1>1, <1>9, <2>2, GivesBack DEF AcquireCancelled, resizeVars
      <3>2. future[r] \in {"result", "error"}
        BY <1>1, <1>2, <1>9, <2>2 DEF AcquireCancelled, Awake, Settled
      <3>3. CASE future[r] = "result"
        <4>1. Share(r) = "owning" /\ Share(r)' = "returned"
          BY <1>1, <1>9, <3>3 DEF AcquireCancelled, Awake, Share
        <4> QED
          BY <1>3, <1>4, <3>1, <4>1 DEF Pool!Return, Pool!Next
      <3>4. CASE future[r] = "error"
        <4>1. Share(r) = "asking" /\ Share(r)' = "surplus"
          BY <1>1, <1>9, <3>4 DEF AcquireCancelled, Awake, Share
        <4> QED
          BY <1>2, <1>3, <1>4, <3>1, <3>4, <4>1 DEF Pool!Surplus, Pool!Next
      <3> QED
        BY <3>2, <3>3, <3>4
    <2> QED
      BY <2>1, <2>2
  <1>10. CASE Release(r)
    <2>1. Pool!GiveBack
      BY <1>1, <1>10, GivesBack DEF Release, resizeVars
    <2>2. Share(r) = "owning" /\ Share(r)' = "returned"
      BY <1>1, <1>10 DEF Release, Share
    <2> QED
      BY <1>3, <1>4, <2>1, <2>2 DEF Pool!Return, Pool!Next
  <1> QED
    BY <1>6, <1>7, <1>8, <1>9, <1>10 DEF TaskWakes

(* A change of the budget is a change of the pool's budget, settled by     *)
(* growth or by debt.                                                      *)
LEMMA ResizeRefines ==
  ASSUME PoolInv, NEW w \in Workers \cup {InitWorkers}, NEW c \in Caps \cup {InitCap},
         ResizeBudget(w, c)
  PROVE  Pool!Next
  <1>1. /\ sem \in Nat /\ pendingShrink \in Nat /\ budget \in Nat
        /\ w \in Nat /\ c \in Nat
    BY BudgetAssumption DEF PoolInv, TypeOK
  <1>2. PICK b \in Nat : b = w * c
    BY <1>1, BudgetNat
  <1>3. b \in {x * y : x \in Workers \cup {InitWorkers}, y \in Caps \cup {InitCap}}
    BY <1>2
  <1>4. UNCHANGED [q \in Request |-> Share(q)]
    <2>1. \A q \in Request : Share(q)' = Share(q)
      BY DEF ResizeBudget, reqVars, Share
    <2> QED
      BY <2>1, SharesUnmoved
  <1>5. pc \notin StopPhases /\ (pc \in StopPhases)' = FALSE
    BY DEF ResizeBudget, Grow, SemRelease, StopPhases
  <1>6. budget' = b /\ inflight' = inflight
    BY <1>2 DEF ResizeBudget
  <1>7. \/ b > budget /\ (sem + Reserved)' = sem + Reserved + (b - budget)
           /\ UNCHANGED pendingShrink
        \/ b <= budget /\ pendingShrink' = pendingShrink + (budget - b)
           /\ UNCHANGED (sem + Reserved)
    <2>1. CASE b > budget
      BY <1>1, <1>2, <2>1 DEF ResizeBudget, Grow, SemRelease, Reserved
    <2>2. CASE b <= budget
      BY <1>1, <1>2, <2>2 DEF ResizeBudget, Reserved
    <2> QED
      BY <1>1, <2>1, <2>2
  <1>8. Pool!Resize(b)
    BY <1>4, <1>5, <1>6, <1>7 DEF Pool!Resize
  <1> QED
    BY <1>3, <1>8 DEF Pool!Next

(* The drain grants slots, or does nothing a caller sees; stop() closes    *)
(* the pool.                                                               *)
LEMMA DrainRefines ==
  ASSUME PoolInv, DrainStep \/ StopCancelsDrain \/ StopFlushes
  PROVE  Pool!Next \/ UNCHANGED Pool!vars
  <1>1. /\ call \in [Request -> {"new", "waiting", "held", "released",
                                 "shed", "expired", "cancelled"}]
        /\ future \in [Request -> {"none", "pending", "result", "error", "cancelled"}]
        /\ sem \in Nat /\ inflight \in Int /\ TypeOK
    BY DEF PoolInv, TypeOK
  <1>2. ASSUME UNCHANGED reqVars PROVE UNCHANGED [q \in Request |-> Share(q)]
    <2>1. \A q \in Request : Share(q)' = Share(q)
      BY <1>2 DEF reqVars, Share
    <2> QED
      BY <2>1, SharesUnmoved
  <1>3. CASE \/ DrainResumes \/ DrainSleeps \/ DrainVisits \/ DrainAcquires
             \/ DrainPutsBack \/ DrainUnwinds
    <2>1. /\ UNCHANGED <<inflight, pendingShrink, budget>> /\ UNCHANGED reqVars
          /\ (sem + Reserved)' = sem + Reserved
          /\ (pc \in StopPhases)' = (pc \in StopPhases)
      <3>1. CASE DrainResumes \/ DrainSleeps \/ DrainVisits
        BY <1>1, <3>1 DEF DrainResumes, DrainSleeps, DrainVisits, Reserved, StopPhases,
           slotVars, resizeVars
      <3>2. CASE DrainAcquires
        BY <1>1, <3>2 DEF DrainAcquires, Reserved, StopPhases, resizeVars
      <3>3. CASE DrainPutsBack \/ DrainUnwinds
        BY <1>1, <3>3 DEF DrainPutsBack, DrainUnwinds, Reserved, StopPhases, resizeVars
      <3> QED
        BY <1>3, <3>1, <3>2, <3>3
    <2> QED
      BY <1>2, <2>1 DEF Pool!vars
  <1>4. CASE DrainDispatches
    <2>1. PICK i \in LiveAt(Current) : future' = [future EXCEPT ![queue[Current][i]] = "result"]
      BY <1>4 DEF DrainDispatches
    <2>2. PICK r \in Request : future[r] = "pending" /\ future' = [future EXCEPT ![r] = "result"]
      <3>1. Current \in Tenant /\ queue[Current] \in Seq(Request)
        BY <1>1, RoundStays DEF TypeOK
      <3>2. queue[Current][i] \in Request /\ future[queue[Current][i]] = "pending"
        BY <3>1 DEF LiveAt, IsLive
      <3> QED
        BY <2>1, <3>2
    <2>3. call[r] = "waiting" /\ call' = call
      BY <1>4, <2>2 DEF PoolInv, Coherent, DrainDispatches
    <2>4. OnlyMoves(r)
      BY <1>1, <2>2, <2>3 DEF OnlyMoves
    <2>5. Share(r) = "asking" /\ Share(r)' = "owning"
      BY <1>1, <2>2, <2>3 DEF Share
    <2>6. Pool!Becomes(r, "owning")
      BY <2>4, <2>5, ShareMoves
    <2>7. /\ sem + Reserved > 0 /\ (sem + Reserved)' = (sem + Reserved) - 1
          /\ inflight' = inflight + 1 /\ UNCHANGED <<pendingShrink, budget>>
          /\ pc \notin StopPhases /\ (pc \in StopPhases)' = FALSE
      BY <1>1, <1>4 DEF DrainDispatches, Reserved, StopPhases, resizeVars
    <2>8. [q \in Request |-> Share(q)][r] = "asking"
      BY <2>2, <2>5
    <2>9. Pool!Grant(r)
      BY <2>6, <2>7, <2>8 DEF Pool!Grant
    <2> QED
      BY <2>2, <2>9 DEF Pool!Next
  <1>5. CASE StopCancelsDrain
    <2>1. /\ UNCHANGED <<inflight, pendingShrink, budget>> /\ UNCHANGED reqVars
          /\ (sem + Reserved)' = sem + Reserved
          /\ (pc \in StopPhases) = FALSE /\ (pc \in StopPhases)' = TRUE
      BY <1>1, <1>5 DEF StopCancelsDrain, Suspended, Reserved, StopPhases, slotVars, resizeVars
    <2> QED
      BY <1>2, <2>1 DEF Pool!Close, Pool!Next
  <1>6. CASE StopFlushes
    <2>1. \A q \in Request : Share(q)' = Share(q)
      <3> SUFFICES ASSUME NEW q \in Request PROVE Share(q)' = Share(q)
        OBVIOUS
      <3>1. call' = call
        BY <1>6 DEF StopFlushes
      <3>2. future'[q] = future[q] \/ (future[q] = "pending" /\ future'[q] = "error")
        BY <1>6 DEF StopFlushes, Flushed, LiveAt, IsLive
      <3>3. future[q] = "pending" => call[q] = "waiting"
        BY DEF PoolInv, Coherent
      <3> QED
        BY <1>1, <3>1, <3>2, <3>3 DEF Share
    <2>2. /\ UNCHANGED <<inflight, pendingShrink, budget, sem>>
          /\ UNCHANGED Reserved /\ (pc \in StopPhases)' = (pc \in StopPhases)
      BY <1>6 DEF StopFlushes, Reserved, StopPhases, slotVars, resizeVars
    <2> QED
      BY <2>1, <2>2, SharesUnmoved DEF Pool!vars
  <1> QED
    BY <1>3, <1>4, <1>5, <1>6 DEF DrainStep

(* Every step of the scheduler is a step of the pool, or none.             *)
LEMMA StepRefines == PoolInv /\ [Next]_vars => [Pool!Next]_(Pool!vars)
  <1> SUFFICES ASSUME PoolInv, [Next]_vars
               PROVE  Pool!Next \/ UNCHANGED Pool!vars
    OBVIOUS
  <1>1. ASSUME NEW c \in Caps, SetCapPerWorker(c) PROVE Pool!Next
    BY <1>1, ResizeRefines DEF SetCapPerWorker, PoolInv, KnownFactors
  <1>2. ASSUME NEW w \in Workers, SetNumWorkers(w) PROVE Pool!Next
    BY <1>2, ResizeRefines DEF SetNumWorkers, PoolInv, KnownFactors
  <1>3. CASE UNCHANGED vars
    <2>1. \A q \in Request : Share(q)' = Share(q)
      BY <1>3 DEF vars, reqVars, Share
    <2> QED
      BY <1>3, <2>1, SharesUnmoved DEF vars, slotVars, resizeVars, Reserved, Pool!vars
  <1> QED
    BY <1>1, <1>2, <1>3, RequestRefines, DrainRefines DEF Next

(* The started scheduler is a full pool.                                   *)
LEMMA InitRefines == Init => Pool!Init
  <1> SUFFICES ASSUME Init PROVE Pool!Init
    OBVIOUS
  <1>1. PICK b \in Nat : b = InitWorkers * InitCap
    BY BudgetAssumption, BudgetNat
  <1>2. [q \in Request |-> Share(q)] = [q \in Request |-> "none"]
    BY DEF Init, Share
  <1>3. budget \in {x * y : x \in Workers \cup {InitWorkers}, y \in Caps \cup {InitCap}}
    BY DEF Init
  <1>4. sem + Reserved = budget /\ inflight = 0 /\ pendingShrink = 0 /\ pc \notin StopPhases
    BY <1>1 DEF Init, Reserved, StopPhases
  <1> QED
    BY <1>2, <1>3, <1>4 DEF Pool!Init

(* The scheduler implements the slot pool: its queues, futures, wake-ups   *)
(* and its drain are invisible to callers, who see slots that are granted  *)
(* one at a time while one is free, never after stop() began, and returned *)
(* once, up to the two faults the pool names.                              *)
THEOREM PoolImplemented == Spec => ImplementsPool
  <1>1. Init => PoolInv /\ Pool!Init
    BY TypeOKInit, ExactInit, PoolInvInit, InitRefines DEF PoolInv
  <1>2. PoolInv /\ [Next]_vars => PoolInv'
    BY TypeOKStep, CoherentStep, ErrorsStep, FactorsStep DEF PoolInv
  <1>3. PoolInv /\ [Next]_vars => [Pool!Next]_(Pool!vars)
    BY StepRefines
  <1> QED
    BY <1>1, <1>2, <1>3, PTL DEF Spec, ImplementsPool, Pool!Spec

(* Until stop() has failed its waiters no slot is returned that was not    *)
(* owned: the owned and leaked slots stay within the budget and the        *)
(* contraction still owed (core.py:97-101, 142-157).                      *)
THEOREM BudgetHoldsUntilFlushed ==
    Spec => [](pc # "flushed" =>
                 Cardinality(Owner) + Cardinality(Leaked) <= budget + pendingShrink)
  <1>1. Init => PoolInv
    BY TypeOKInit, ExactInit, PoolInvInit DEF PoolInv
  <1>2. PoolInv /\ [Next]_vars => PoolInv'
    BY TypeOKStep, CoherentStep, ErrorsStep, FactorsStep DEF PoolInv
  <1>3. ASSUME PoolInv, OwnersWithinBudget, pc # "flushed"
        PROVE  Cardinality(Owner) + Cardinality(Leaked) <= budget + pendingShrink
    <2>1. Ghost = {}
      BY <1>3 DEF Ghost, PoolInv, ErrorsFromStop
    <2>2. Cardinality(Ghost) = 0
      BY <2>1, FS_EmptySet
    <2>3. budget + pendingShrink + 0 = budget + pendingShrink
      BY <1>3 DEF PoolInv, TypeOK
    <2> QED
      BY <1>3, <2>2, <2>3 DEF OwnersWithinBudget
  <1> QED
    BY <1>1, <1>2, <1>3, BudgetBoundsOwners, PTL DEF Spec
===============================================================================
