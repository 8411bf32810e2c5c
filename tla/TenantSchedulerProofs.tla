------------------------ MODULE TenantSchedulerProofs ------------------------
(* Theorems about TenantScheduler, for every number of tenants, every      *)
(* weight and queue_max, every finite set of requests and every sequence   *)
(* of resizes.                                                             *)
EXTENDS TenantScheduler, FiniteSetTheorems, SequenceTheorems, TLAPS

(* Every budget is a natural number.                                       *)
LEMMA BudgetNat == ASSUME NEW w \in Nat, NEW c \in Nat PROVE w * c \in Nat
  BY SMT

(* A set of requests is finite.                                            *)
LEMMA RequestSubset ==
  ASSUME NEW S \in SUBSET Request
  PROVE  IsFiniteSet(S) /\ Cardinality(S) \in Nat
  BY RequestAssumption, FS_Subset, FS_CardinalityType

(* The tenant of the inner loop is a tenant, and so is the next one.       *)
LEMMA RoundStays ==
  ASSUME idx \in Tenant
  PROVE  Current \in Tenant /\ (idx % NumTenants) + 1 \in Tenant
  BY TenantAssumption DEF Current, Tenant

(* What is left of a queue after a pop is a queue.                         *)
LEMMA PopTyped ==
  ASSUME NEW q \in Seq(Request), NEW i \in DOMAIN q
  PROVE  SubSeq(q, i + 1, Len(q)) \in Seq(Request)
  <1>1. \A j \in (i + 1) .. Len(q) : q[j] \in Request
    OBVIOUS
  <1> QED
    BY <1>1, SubSeqProperties

(* The initial values are typed.                                           *)
LEMMA TypeOKInit == Init => TypeOK
  <1> SUFFICES ASSUME Init PROVE TypeOK
    OBVIOUS
  <1>1. InitWorkers * InitCap \in Nat
    BY BudgetAssumption, BudgetNat
  <1>2. 1 \in Tenant /\ <<>> \in Seq(Request)
    BY TenantAssumption DEF Tenant
  <1>3. 0 \in 0 .. MaxResizes
    BY BudgetAssumption
  <1>4. queue \in [Tenant -> Seq(Request)] /\ live \in [Tenant -> Int]
    BY <1>2 DEF Init
  <1> QED
    BY <1>1, <1>2, <1>3, <1>4, BudgetAssumption DEF Init, TypeOK

(* A released slot leaves the semaphore and the drain's place typed.       *)
LEMMA ReleaseSlotTyped ==
  ASSUME TypeOK, ReleaseSlot
  PROVE  /\ sem' \in Nat /\ inflight' \in Int /\ pendingShrink' \in Nat
         /\ pc' \in {"start", "idle", "blocked", "granted", "top", "inner", "got"}
                        \cup StopPhases
  <1>1. sem \in Nat /\ inflight \in Int /\ pendingShrink \in Nat
    BY DEF TypeOK
  <1>2. sem' \in Nat /\ inflight' \in Int /\ pendingShrink' \in Nat
    BY <1>1 DEF ReleaseSlot, SemRelease
  <1>3. pc' \in {pc, "granted"}
    BY DEF ReleaseSlot, SemRelease
  <1> QED
    BY <1>2, <1>3 DEF TypeOK

(* Every step keeps the types.                                             *)
LEMMA TypeOKStep == TypeOK /\ [Next]_vars => TypeOK'
  <1> SUFFICES ASSUME TypeOK, [Next]_vars PROVE TypeOK'
    OBVIOUS
  <1> USE DEF TypeOK, StopPhases
  <1>1. ASSUME NEW r \in Request, Acquire(r) PROVE TypeOK'
    <2>1. TenantOf[r] \in Tenant
      BY RequestAssumption
    <2>2. live' \in [Tenant -> Int]
      BY <1>1, <2>1 DEF Acquire
    <2>3. Append(queue[TenantOf[r]], r) \in Seq(Request)
      BY <2>1
    <2>4. queue' \in [Tenant -> Seq(Request)]
      BY <1>1, <2>1, <2>3 DEF Acquire
    <2> QED
      BY <1>1, <2>2, <2>4 DEF Acquire, slotVars, resizeVars
  <1>2. ASSUME NEW r \in Request, TimerFires(r) \/ CancelCaller(r) PROVE TypeOK'
    BY <1>2 DEF TimerFires, CancelCaller, Interrupt, queueVars, slotVars, resizeVars
  <1>3. ASSUME NEW r \in Request, AcquireReturns(r) \/ AcquireStopped(r) PROVE TypeOK'
    BY <1>3 DEF AcquireReturns, AcquireStopped, queueVars, slotVars, resizeVars
  <1>4. ASSUME NEW r \in Request, AcquireTimesOut(r) PROVE TypeOK'
    <2>1. TenantOf[r] \in Tenant
      BY RequestAssumption
    <2> QED
      BY <1>4, <2>1 DEF AcquireTimesOut, slotVars, resizeVars
  <1>5. ASSUME NEW r \in Request, AcquireCancelled(r) PROVE TypeOK'
    <2>1. TenantOf[r] \in Tenant
      BY RequestAssumption
    <2>2. call' \in [Request -> {"new", "waiting", "held", "released",
                                 "shed", "expired", "cancelled"}]
      BY <1>5 DEF AcquireCancelled
    <2>3. CASE Settled(r)
      BY <1>5, <2>2, <2>3, ReleaseSlotTyped DEF AcquireCancelled, resizeVars
    <2>4. CASE ~Settled(r)
      <3>1. live' \in [Tenant -> Int]
        BY <1>5, <2>1, <2>4 DEF AcquireCancelled
      <3> QED
        BY <1>5, <2>2, <2>4, <3>1 DEF AcquireCancelled, slotVars, resizeVars
    <2> QED
      BY <2>3, <2>4
  <1>6. ASSUME NEW r \in Request, Release(r) PROVE TypeOK'
    BY <1>6, ReleaseSlotTyped DEF Release, queueVars, resizeVars
  <1>7. ASSUME NEW w \in Nat, NEW c \in Nat, ResizeBudget(w, c) PROVE TypeOK'
    <2>1. PICK b \in Nat : b = w * c
      BY BudgetNat
    <2> QED
      BY <1>7, <2>1, BudgetAssumption DEF ResizeBudget, Grow, SemRelease, reqVars, queueVars
  <1>8. CASE DrainResumes \/ DrainSleeps
    BY <1>8 DEF DrainResumes, DrainSleeps, reqVars, queueVars, slotVars, resizeVars
  <1>9. CASE DrainVisits
    <2>1. idx' \in Tenant
      BY <1>9, RoundStays DEF DrainVisits
    <2>2. deficit' \in [Tenant -> Int]
      BY <1>9, TenantAssumption DEF DrainVisits
    <2> QED
      BY <1>9, <2>1, <2>2 DEF DrainVisits, reqVars, slotVars, resizeVars
  <1>10. CASE DrainAcquires
    BY <1>10 DEF DrainAcquires, reqVars, queueVars, resizeVars
  <1>11. CASE DrainDispatches
    <2>1. PICK i \in LiveAt(Current) :
            /\ future' = [future EXCEPT ![queue[Current][i]] = "result"]
            /\ queue' = [queue EXCEPT ![Current] = SubSeq(@, i + 1, Len(@))]
      BY <1>11 DEF DrainDispatches
    <2>2. Current \in Tenant /\ queue[Current] \in Seq(Request) /\ i \in DOMAIN queue[Current]
      BY <2>1, RoundStays DEF LiveAt
    <2>3. SubSeq(queue[Current], i + 1, Len(queue[Current])) \in Seq(Request)
      BY <2>2, PopTyped
    <2>4. queue' \in [Tenant -> Seq(Request)]
      BY <2>1, <2>2, <2>3
    <2>5. future' \in [Request -> {"none", "pending", "result", "error", "cancelled"}]
      BY <2>1
    <2>6. live' \in [Tenant -> Int] /\ deficit' \in [Tenant -> Int]
      BY <1>11, <2>2 DEF DrainDispatches
    <2>7. inflight' \in Int
      BY <1>11 DEF DrainDispatches
    <2>8. /\ UNCHANGED <<call, interrupt, idx, wakeup, sem, pendingShrink>>
          /\ UNCHANGED resizeVars /\ pc' = "inner"
      BY <1>11 DEF DrainDispatches
    <2> QED
      BY <2>4, <2>5, <2>6, <2>7, <2>8 DEF resizeVars
  <1>12. CASE DrainPutsBack
    BY <1>12, RoundStays DEF DrainPutsBack, reqVars, resizeVars
  <1>13. CASE StopCancelsDrain \/ DrainUnwinds
    <2>1. CASE StopCancelsDrain
      BY <2>1 DEF StopCancelsDrain, reqVars, queueVars, slotVars, resizeVars
    <2>2. CASE DrainUnwinds
      <3>1. sem' \in Nat /\ pc' = "stopped"
        BY <2>2 DEF DrainUnwinds
      <3> QED
        BY <2>2, <3>1 DEF DrainUnwinds, reqVars, queueVars, resizeVars
    <2> QED
      BY <1>13, <2>1, <2>2
  <1>14. CASE StopFlushes
    <2>1. \A t \in Tenant : Flushed(t) \in SUBSET Request
      BY DEF Flushed, LiveAt
    <2>2. \A t \in Tenant : Cardinality(Flushed(t)) \in Nat
      BY <2>1, RequestSubset
    <2>3. live' \in [Tenant -> Int]
      BY <1>14, <2>2 DEF StopFlushes
    <2> QED
      BY <1>14, <2>3 DEF StopFlushes, slotVars, resizeVars
  <1>15. CASE UNCHANGED vars
    BY <1>15 DEF vars, reqVars, queueVars, slotVars, resizeVars
  <1>16. ASSUME NEW c \in Caps, SetCapPerWorker(c) PROVE TypeOK'
    BY <1>7, <1>16, BudgetAssumption DEF SetCapPerWorker
  <1>17. ASSUME NEW w \in Workers, SetNumWorkers(w) PROVE TypeOK'
    BY <1>7, <1>17, BudgetAssumption DEF SetNumWorkers
  <1> HIDE DEF TypeOK, StopPhases
  <1> QED
    BY <1>1, <1>2, <1>3, <1>4, <1>5, <1>6, <1>8, <1>9, <1>10, <1>11, <1>12,
       <1>13, <1>14, <1>15, <1>16, <1>17 DEF Next, DrainStep, TaskWakes

(* The state stays well typed, and in particular neither the semaphore nor *)
(* the contraction owed ever goes below zero (core.py:63, 148-155, 245-    *)
(* 249).                                                                   *)
THEOREM TypeCorrect == Spec => []TypeOK
  BY TypeOKInit, TypeOKStep, PTL DEF Spec

-----------------------------------------------------------------------------
(* What conserves slots: the books balance, and the drain only waits when  *)
(* the semaphore has nothing left.                                         *)
SlotInv == SlotConservation /\ (pc = "blocked" => sem = 0)

(* The types the arithmetic of slots needs.                                *)
SlotTypes == sem \in Nat /\ inflight \in Int /\ pendingShrink \in Nat /\ budget \in Nat

(* They follow from the type invariant.                                    *)
LEMMA TypeOKSlots == TypeOK => SlotTypes
  BY DEF TypeOK, SlotTypes

(* Releasing a slot moves it from in flight to the semaphore, to the       *)
(* blocked drain, or out of the contraction owed.                          *)
LEMMA ReleaseSlotBalances ==
  ASSUME SlotTypes, SlotInv, ReleaseSlot, UNCHANGED budget
  PROVE  SlotInv'
  <1> USE DEF SlotTypes, SlotInv, SlotConservation, Reserved, ReleaseSlot, SemRelease
  <1>1. CASE pc = "blocked"
    BY <1>1
  <1>2. CASE pc # "blocked"
    BY <1>2
  <1> QED
    BY <1>1, <1>2

(* Steps that touch neither slots nor the drain's place keep the books.    *)
LEMMA SlotStutter ==
  ASSUME SlotInv, UNCHANGED <<slotVars, pc, budget>>
  PROVE  SlotInv'
  BY DEF SlotInv, SlotConservation, Reserved, slotVars

(* At the start every slot of the budget is free.                          *)
LEMMA SlotInvInit == Init => SlotInv
  <1> SUFFICES ASSUME Init PROVE SlotInv
    OBVIOUS
  <1>1. InitWorkers * InitCap \in Nat
    BY BudgetAssumption, BudgetNat
  <1> QED
    BY <1>1 DEF Init, SlotInv, SlotConservation, Reserved

(* Every step keeps the books balanced.                                    *)
LEMMA SlotInvStep == TypeOK /\ SlotInv /\ [Next]_vars => SlotInv'
  <1> SUFFICES ASSUME TypeOK, SlotInv, [Next]_vars PROVE SlotInv'
    OBVIOUS
  <1> SlotTypes
    BY TypeOKSlots
  <1>1. ASSUME NEW r \in Request,
               Acquire(r) \/ TimerFires(r) \/ CancelCaller(r)
                 \/ AcquireReturns(r) \/ AcquireStopped(r) \/ AcquireTimesOut(r)
        PROVE  SlotInv'
    BY <1>1, SlotStutter DEF Acquire, TimerFires, CancelCaller, Interrupt,
       AcquireReturns, AcquireStopped, AcquireTimesOut, slotVars, resizeVars
  <1>2. ASSUME NEW r \in Request, AcquireCancelled(r) PROVE SlotInv'
    <2>1. CASE Settled(r)
      BY <1>2, <2>1, ReleaseSlotBalances DEF AcquireCancelled, resizeVars
    <2>2. CASE ~Settled(r)
      BY <1>2, <2>2, SlotStutter DEF AcquireCancelled, resizeVars
    <2> QED
      BY <2>1, <2>2
  <1>3. ASSUME NEW r \in Request, Release(r) PROVE SlotInv'
    BY <1>3, ReleaseSlotBalances DEF Release, resizeVars
  <1>4. ASSUME NEW w \in Nat, NEW c \in Nat, ResizeBudget(w, c) PROVE SlotInv'
    <2>1. PICK b \in Nat : b = w * c
      BY BudgetNat
    <2>2. CASE pc = "blocked"
      BY <1>4, <2>1, <2>2 DEF ResizeBudget, Grow, SemRelease, SlotTypes, SlotInv,
         SlotConservation, Reserved
    <2>3. CASE pc # "blocked"
      BY <1>4, <2>1, <2>3 DEF ResizeBudget, Grow, SemRelease, SlotTypes, SlotInv,
         SlotConservation, Reserved
    <2> QED
      BY <2>2, <2>3
  <1>5. CASE DrainResumes \/ DrainSleeps \/ DrainVisits
    BY <1>5 DEF DrainResumes, DrainSleeps, DrainVisits, SlotInv, SlotConservation,
       Reserved, slotVars, resizeVars
  <1>6. CASE DrainAcquires
    BY <1>6 DEF DrainAcquires, SlotTypes, SlotInv, SlotConservation, Reserved, resizeVars
  <1>7. CASE DrainDispatches \/ DrainPutsBack
    BY <1>7 DEF DrainDispatches, DrainPutsBack, SlotTypes, SlotInv, SlotConservation,
       Reserved, resizeVars
  <1>8. CASE StopCancelsDrain \/ DrainUnwinds
    BY <1>8 DEF StopCancelsDrain, DrainUnwinds, Suspended, SlotTypes, SlotInv,
       SlotConservation, Reserved, slotVars, resizeVars
  <1>9. CASE StopFlushes
    BY <1>9 DEF StopFlushes, SlotInv, SlotConservation, Reserved, slotVars, resizeVars
  <1>10. CASE UNCHANGED vars
    BY <1>10, SlotStutter DEF vars, resizeVars
  <1>11. ASSUME NEW c \in Caps, SetCapPerWorker(c) PROVE SlotInv'
    BY <1>4, <1>11, BudgetAssumption DEF SetCapPerWorker, TypeOK
  <1>12. ASSUME NEW w \in Workers, SetNumWorkers(w) PROVE SlotInv'
    BY <1>4, <1>12, BudgetAssumption DEF SetNumWorkers, TypeOK
  <1> QED
    BY <1>1, <1>2, <1>3, <1>5, <1>6, <1>7, <1>8, <1>9, <1>10, <1>11, <1>12
    DEF Next, DrainStep, TaskWakes

(* The books balance in every reachable state.                             *)
LEMMA SlotInvariant == Spec => [](TypeOK /\ SlotInv)
  <1>1. Init => TypeOK /\ SlotInv
    BY TypeOKInit, SlotInvInit
  <1>2. TypeOK /\ SlotInv /\ [Next]_vars => (TypeOK /\ SlotInv)'
    BY TypeOKStep, SlotInvStep
  <1> QED
    BY <1>1, <1>2, PTL DEF Spec

(* No interleaving of acquire, release, resize, cancellation and stop      *)
(* creates or loses a slot: what the semaphore holds, what the drain has   *)
(* taken and what is in flight make up the budget plus the contraction     *)
(* still owed.                                                             *)
THEOREM SlotsConserved == Spec => []SlotConservation
  <1>1. TypeOK /\ SlotInv => SlotConservation
    BY DEF SlotInv
  <1> QED
    BY <1>1, SlotInvariant, PTL

(* While the drain is blocked every slot of the budget is in flight: a     *)
(* release or a growth of the budget never leaves it asleep.               *)
THEOREM BlockedOnlyAtBudget == Spec => []NoIdleSlotWhileBlocked
  <1>1. TypeOK /\ SlotInv => NoIdleSlotWhileBlocked
    BY DEF TypeOK, SlotInv, SlotConservation, Reserved, NoIdleSlotWhileBlocked
  <1> QED
    BY <1>1, SlotInvariant, PTL
==============================================================================
