------------------------- MODULE AIMDControllerProofs -------------------------
(***************************************************************************)
(* Theorems about AIMDController, for every value of its constants.        *)
(***************************************************************************)
EXTENDS AIMDController, TLAPS

(* What every tick does before it decides: the snapshots stay a sequence,  *)
(* one at least remains, and the oldest is no older than the window.       *)
LEMMA ObserveKeeps ==
    ASSUME TypeOK, NEW d \in Delays, NEW batch \in Batches, Observe(d, batch)
    PROVE  /\ snapshots' \in Seq(Snapshot)
           /\ Head(snapshots').age <= WindowS /\ Head(snapshots').age \in Nat
<1> DEFINE aged == [i \in DOMAIN snapshots |->
                      [age   |-> snapshots[i].age + d,
                       since |-> [b \in Bucket |-> snapshots[i].since[b] + batch[b]]]]
           all  == Append(aged, [age |-> 0, since |-> Zero])
<1>1. d \in Nat /\ batch \in [Bucket -> Nat]
  BY ObservationAssumption
<1>2. \A i \in DOMAIN snapshots :
         snapshots[i].age \in Nat /\ snapshots[i].since \in [Bucket -> Nat]
  <2>1. \A i \in DOMAIN snapshots : snapshots[i] \in Snapshot
    BY DEF TypeOK
  <2> QED BY <2>1 DEF Snapshot
<1>3. aged \in Seq(Snapshot)
  <2>1. \A i \in DOMAIN snapshots : aged[i] \in Snapshot
    BY <1>1, <1>2 DEF Snapshot
  <2>2. DOMAIN snapshots = 1 .. Len(snapshots) /\ Len(snapshots) \in Nat
    BY DEF TypeOK
  <2> QED BY <2>1, <2>2
<1>4. [age |-> 0, since |-> Zero] \in Snapshot
  BY DEF Snapshot, Zero
<1> HIDE DEF aged
<1>5. all \in Seq(Snapshot)
  BY <1>3, <1>4
<1>6. PICK i \in DOMAIN all : all[i].age <= WindowS /\ snapshots' = SubSeq(all, i, Len(all))
  BY DEF Observe, aged
<1> HIDE DEF all
<1>7. i \in 1 .. Len(all) /\ Len(all) \in Nat
  BY <1>5, <1>6
<1>8. snapshots' \in Seq(Snapshot) /\ Head(snapshots') = all[i]
  BY <1>5, <1>6, <1>7
<1>9. all[i].age \in Nat
  <2>1. all[i] \in Snapshot
    BY <1>5, <1>6
  <2> QED BY <2>1 DEF Snapshot
<1> QED BY <1>6, <1>8, <1>9

(* A tick's effect on everything but the snapshots: the time since the     *)
(* last decrease grows by at least a tick, and one of the five decisions   *)
(* is taken.                                                               *)
LEMMA TickAges ==
    ASSUME TypeOK, Tick
    PROVE  /\ snapshots' \in Seq(Snapshot)
           /\ Head(snapshots').age <= WindowS /\ Head(snapshots').age \in Nat
           /\ demand' \in BOOLEAN /\ stopped' = stopped
           /\ \/ SinceLastDecrease = -1 /\ sinceDecrease' = -1
              \/ SinceLastDecrease >= 0 /\ sinceDecrease' = WindowS + 1
              \/ /\ SinceLastDecrease >= 0 /\ sinceDecrease' \in 0 .. WindowS
                 /\ sinceDecrease' >= SinceLastDecrease + TickS
<1>1. PICK d \in Delays : /\ \E batch \in Batches : Observe(d, batch)
                          /\ sinceDecrease' = IF SinceLastDecrease = -1 THEN -1
                                  ELSE IF SinceLastDecrease + d > WindowS THEN WindowS + 1
                                  ELSE SinceLastDecrease + d
  BY DEF Tick, SinceLastDecrease
<1>2. d \in Nat /\ d >= TickS /\ TickS \in Nat /\ WindowS \in Nat
  BY ObservationAssumption, ControllerAssumption
<1>3. SinceLastDecrease \in -1 .. WindowS + 1
  BY <1>2 DEF SinceLastDecrease, TypeOK
<1>4. demand' \in BOOLEAN /\ stopped' = stopped
  BY DEF Tick
<1>5. /\ snapshots' \in Seq(Snapshot)
      /\ Head(snapshots').age <= WindowS /\ Head(snapshots').age \in Nat
  BY <1>1, ObserveKeeps
<1> QED BY <1>1, <1>2, <1>3, <1>4, <1>5

(* What each decision does to the cap, the cooldown and the action.        *)
LEMMA Decides ==
    ASSUME TypeOK, Tick
    PROVE  \/ action' = "hold" /\ cap' = cap /\ cooldown' = cooldown
           \/ /\ action' = "hold" /\ ~Blind'
              /\ cap' = cap /\ cooldown > 0 /\ cooldown' = cooldown - 1
           \/ /\ action' = "decrease" /\ cooldown = 0
              /\ cap' = Decreased(cap) /\ cooldown' = CooldownTicks
           \/ /\ action' = "increase" /\ cooldown = 0
              /\ cap' = Increased(cap) /\ cooldown' = cooldown
  BY ControllerAssumption
     DEF Tick, HoldBlind, HoldCoolingDown, Decrease, Increase, HoldSteady, CoolingDown, TypeOK

(* A tick that held with a p99 is counted, no other.                       *)
LEMMA HeldCounts ==
    ASSUME TypeOK, Tick
    PROVE  /\ HeldSinceDecrease \in -1 .. CooldownTicks /\ heldSince' \in -1 .. CooldownTicks
           /\ HeldSinceDecrease = -1 <=> heldSince' = -1
           /\ action' # "hold" => heldSince' = HeldSinceDecrease
           /\ heldSince' >= HeldSinceDecrease
           /\ /\ action' = "hold" /\ ~Blind'
              /\ HeldSinceDecrease # -1 /\ HeldSinceDecrease # CooldownTicks
              => heldSince' = HeldSinceDecrease + 1
<1>1. CooldownTicks \in Nat
  BY ControllerAssumption
<1>2. HeldSinceDecrease \in -1 .. CooldownTicks
  BY <1>1 DEF HeldSinceDecrease, TypeOK
<1>3. CountsHeld
  BY DEF Tick
<1> QED BY <1>1, <1>2, <1>3 DEF CountsHeld

(* The cuts and raises of the cap.                                         *)
LEMMA CapChanges ==
    ASSUME NEW c \in Nat
    PROVE  /\ Increased(c) \in Nat /\ Increased(c) <= CapMax
           /\ Increased(c) >= CapMin \/ Increased(c) >= c
           /\ Decreased(c) \in Nat /\ Decreased(c) >= CapMin
           /\ Decreased(c) <= CapMax \/ Decreased(c) <= c
<1>1. FactorDen \in Nat \ {0} /\ FactorNum \in Nat /\ FactorNum < FactorDen
  BY ControllerAssumption
<1>2. (c * FactorNum) \div FactorDen \in Nat /\ (c * FactorNum) \div FactorDen <= c
  BY <1>1
<1> QED BY <1>2, ControllerAssumption DEF Increased, Decreased

-----------------------------------------------------------------------------
(* The controller's variables keep their types: in particular the cooldown *)
(* stays between 0 and cooldown_ticks and the cap is never negative        *)
(* (aimd.py:130-157).                                                      *)
THEOREM TypeCorrect == Spec => []TypeOK
<1>1. Init => TypeOK
  <2>1. WindowS \in Nat /\ CooldownTicks \in Nat /\ InitCap \in Nat
    BY ControllerAssumption
  <2>2. -1 \in -1 .. WindowS + 1 /\ 0 \in 0 .. CooldownTicks /\ -1 \in -1 .. CooldownTicks
    BY <2>1
  <2> SUFFICES ASSUME Init PROVE TypeOK
    OBVIOUS
  <2>3. snapshots \in Seq(Snapshot)
    BY DEF Init
  <2>5. demand \in BOOLEAN /\ stopped \in BOOLEAN
    BY DEF Init
  <2>4. /\ sinceDecrease \in -1 .. WindowS + 1 /\ cooldown \in 0 .. CooldownTicks
        /\ heldSince \in -1 .. CooldownTicks
    BY <2>2 DEF Init
  <2> QED BY <2>1, <2>3, <2>4, <2>5 DEF Init, TypeOK
<1>2. TypeOK /\ [Next]_vars => TypeOK'
  <2> SUFFICES ASSUME TypeOK, [Next]_vars PROVE TypeOK'
    OBVIOUS
  <2>1. CASE Tick
    <3>1. sinceDecrease' \in -1 .. WindowS + 1
      BY <2>1, TickAges, ControllerAssumption
    <3>2. snapshots' \in Seq(Snapshot) /\ demand' \in BOOLEAN /\ stopped' \in BOOLEAN
      BY <2>1, TickAges DEF TypeOK
    <3>3. cap' \in Nat
      <4>1. cap \in Nat /\ (cap' = cap \/ cap' = Decreased(cap) \/ cap' = Increased(cap))
        BY <2>1, Decides DEF TypeOK
      <4> QED BY <4>1, CapChanges
    <3>4. cooldown' \in 0 .. CooldownTicks
      <4>1. cooldown \in 0 .. CooldownTicks /\ CooldownTicks \in Nat
        BY ControllerAssumption DEF TypeOK
      <4>2. \/ cooldown' = cooldown
            \/ cooldown > 0 /\ cooldown' = cooldown - 1
            \/ cooldown' = CooldownTicks
        BY <2>1, Decides
      <4> QED BY <4>1, <4>2
    <3>5. action' \in {"none", "hold", "decrease", "increase"}
      BY <2>1, Decides
    <3>6. heldSince' \in -1 .. CooldownTicks
      BY <2>1, HeldCounts
    <3> QED BY <3>1, <3>2, <3>3, <3>4, <3>5, <3>6 DEF TypeOK
  <2>2. CASE Stop
    BY <2>2 DEF Stop, TypeOK
  <2>3. CASE UNCHANGED vars
    BY <2>3 DEF vars, TypeOK
  <2> QED BY <2>1, <2>2, <2>3 DEF Next
<1> QED BY <1>1, <1>2, PTL DEF Spec

(* The cap never leaves its bounds further than the bootstrap value did    *)
(* (aimd.py:144-155), for every factor, cooldown, window and histogram.    *)
THEOREM CapBounded == Spec => []CapWithinBounds
<1>1. Init => CapWithinBounds
  <2>1. InitCap \in Nat
    BY ControllerAssumption
  <2> QED BY <2>1 DEF Init, CapWithinBounds
<1>2. TypeOK /\ CapWithinBounds /\ [Next]_vars => CapWithinBounds'
  <2> SUFFICES ASSUME TypeOK, CapWithinBounds, [Next]_vars PROVE CapWithinBounds'
    OBVIOUS
  <2>1. cap \in Nat
    BY DEF TypeOK
  <2>2. CASE Tick
    <3>1. cap' = cap \/ cap' = Decreased(cap) \/ cap' = Increased(cap)
      BY <2>2, Decides
    <3>2. CapMin \in Nat /\ CapMax \in Nat /\ CapMin <= CapMax /\ InitCap \in Nat
      BY ControllerAssumption
    <3>3. CASE cap' = cap
      BY <3>3 DEF CapWithinBounds
    <3>4. CASE cap' = Decreased(cap)
      <4>1. /\ cap' \in Nat /\ cap' >= CapMin
            /\ cap' <= CapMax \/ cap' <= cap
        BY <2>1, <3>4, CapChanges
      <4> QED BY <2>1, <3>2, <4>1 DEF CapWithinBounds
    <3>5. CASE cap' = Increased(cap)
      <4>1. /\ cap' \in Nat /\ cap' <= CapMax
            /\ cap' >= CapMin \/ cap' >= cap
        BY <2>1, <3>5, CapChanges
      <4> QED BY <2>1, <3>2, <4>1 DEF CapWithinBounds
    <3> QED BY <3>1, <3>3, <3>4, <3>5
  <2>3. CASE Stop \/ UNCHANGED vars
    BY <2>3 DEF Stop, vars, CapWithinBounds
  <2> QED BY <2>2, <2>3 DEF Next
<1> QED BY <1>1, <1>2, TypeCorrect, PTL DEF Spec

-----------------------------------------------------------------------------
(* The strengthening that makes the flushing of the window inductive: the  *)
(* ticks of the cooldown already spent since the last decrease have taken  *)
(* at least their nominal time.                                            *)
CooldownPaid ==
    \/ SinceLastDecrease = -1
    \/ SinceLastDecrease = WindowS + 1
    \/ SinceLastDecrease + cooldown * TickS >= CooldownTicks * TickS

FlushInv == CooldownPaid /\ DecisionOnFlushedWindow

(* A tick keeps the strengthening, and its decision is a flushed one.      *)
LEMMA FlushInvHolds ==
    ASSUME TypeOK, CooldownPaid, Tick
    PROVE  FlushInv'
<1>1. TickS \in Nat \ {0} /\ WindowS \in Nat /\ CooldownTicks \in Nat
  BY ControllerAssumption
<1>2. cooldown \in 0 .. CooldownTicks /\ SinceLastDecrease \in -1 .. WindowS + 1
  BY <1>1 DEF TypeOK, SinceLastDecrease
<1>3. action' # "decrease" => SinceLastDecrease' = sinceDecrease'
  BY DEF SinceLastDecrease
<1>4. action' = "decrease" => SinceLastDecrease' = 0
  BY DEF SinceLastDecrease
<1>5. CooldownPaid'
  <2>1. CASE action' = "decrease"
    <3>1. cooldown' = CooldownTicks
      BY <2>1, Decides
    <3>2. (SinceLastDecrease + cooldown * TickS >= CooldownTicks * TickS)'
      BY <1>1, <1>4, <2>1, <3>1
    <3> QED BY <3>2 DEF CooldownPaid
  <2>2. CASE action' # "decrease" /\ sinceDecrease' \in {-1, WindowS + 1}
    BY <1>3, <2>2 DEF CooldownPaid
  <2>3. CASE action' # "decrease" /\ sinceDecrease' \notin {-1, WindowS + 1}
    <3>1. /\ SinceLastDecrease >= 0 /\ sinceDecrease' \in 0 .. WindowS
          /\ sinceDecrease' >= SinceLastDecrease + TickS
      BY <2>3, TickAges
    <3>2. SinceLastDecrease <= WindowS
      BY <1>1, <1>2, <3>1
    <3>3. SinceLastDecrease + cooldown * TickS >= CooldownTicks * TickS
      BY <1>1, <3>1, <3>2 DEF CooldownPaid
    <3>4. cooldown' = cooldown \/ cooldown' = cooldown - 1
      BY <2>3, Decides
    <3>5. cooldown' * TickS >= cooldown * TickS - TickS
      BY <1>1, <1>2, <3>4
    <3>6. sinceDecrease' + cooldown' * TickS >= CooldownTicks * TickS
      BY <1>1, <1>2, <3>1, <3>3, <3>4, <3>5
    <3> QED BY <1>3, <2>3, <3>6 DEF CooldownPaid
  <2> QED BY <2>1, <2>2, <2>3
<1>6. DecisionOnFlushedWindow'
  <2> SUFFICES ASSUME (CooldownTicks + 1) * TickS >= WindowS,
                      action' \in {"decrease", "increase"}, sinceDecrease' # -1
               PROVE  Head(snapshots').age <= sinceDecrease'
    BY DEF DecisionOnFlushedWindow
  <2>1. Head(snapshots').age <= WindowS
    BY TickAges
  <2>2. cooldown = 0
    BY Decides
  <2>3. sinceDecrease' >= WindowS
    <3>1. CASE sinceDecrease' = WindowS + 1
      BY <1>1, <3>1
    <3>2. CASE sinceDecrease' # WindowS + 1
      <4>1. /\ SinceLastDecrease >= 0 /\ sinceDecrease' \in 0 .. WindowS
            /\ sinceDecrease' >= SinceLastDecrease + TickS
        BY <3>2, TickAges
      <4>2. SinceLastDecrease # -1 /\ SinceLastDecrease # WindowS + 1
        BY <1>1, <1>2, <4>1
      <4>3. SinceLastDecrease >= CooldownTicks * TickS
        BY <1>1, <1>2, <2>2, <4>2 DEF CooldownPaid
      <4>4. (CooldownTicks + 1) * TickS = CooldownTicks * TickS + TickS
        BY <1>1
      <4>5. CooldownTicks * TickS \in Nat
        BY <1>1
      <4> QED BY <1>1, <1>2, <4>1, <4>3, <4>4, <4>5
    <3> QED BY <3>1, <3>2
  <2>4. Head(snapshots').age \in Nat
    BY TickAges
  <2>5. sinceDecrease' \in Int
    BY <1>1, TickAges
  <2> QED BY <1>1, <2>1, <2>3, <2>4, <2>5
<1> QED BY <1>5, <1>6 DEF FlushInv

(* No decision looks at observations made before the last decrease, if the *)
(* cooldown is as long as the window (aimd.py:39-43, 138-157, 194-206).    *)
THEOREM WindowFlushed == Spec => []DecisionOnFlushedWindow
<1>1. Init => FlushInv
  BY DEF Init, FlushInv, CooldownPaid, SinceLastDecrease, DecisionOnFlushedWindow
<1>2. TypeOK /\ FlushInv /\ [Next]_vars => FlushInv'
  <2> SUFFICES ASSUME TypeOK, FlushInv, [Next]_vars PROVE FlushInv'
    OBVIOUS
  <2>1. CASE Tick
    BY <2>1, FlushInvHolds DEF FlushInv
  <2>2. CASE Stop \/ UNCHANGED vars
    BY <2>2 DEF Stop, vars, FlushInv, CooldownPaid, SinceLastDecrease, DecisionOnFlushedWindow
  <2> QED BY <2>1, <2>2 DEF Next
<1>3. FlushInv => DecisionOnFlushedWindow
  BY DEF FlushInv
<1> QED BY <1>1, <1>2, <1>3, TypeCorrect, PTL DEF Spec

(* The strengthening for the spacing: what is left of the cooldown and the *)
(* ticks held since the last decrease make up the whole cooldown.          *)
HeldInv ==
    /\ HeldSinceDecrease = -1 \/ HeldSinceDecrease + cooldown >= CooldownTicks
    /\ DecisionsSpaced

(* A tick that takes one off the cooldown counts one held tick.            *)
LEMMA HeldPays ==
    ASSUME NEW k \in Nat, NEW c \in 0 .. k, NEW d \in Int, NEW h \in -1 .. k, NEW i \in Int,
           h = -1 \/ h + c >= k, h = -1 <=> i = -1,
           \/ d = c /\ i >= h
           \/ c > 0 /\ d = c - 1 /\ (h = -1 \/ i = k \/ i = h + 1)
    PROVE  i = -1 \/ i + d >= k
  OBVIOUS

(* No decision comes before cooldown_ticks ticks with a p99 have held      *)
(* since the last decrease, whichever ticks are blind, for every cooldown, *)
(* window and drift of the sleeps (aimd.py:135-157).                       *)
THEOREM Spaced == Spec => []DecisionsSpaced
<1>1. Init => HeldInv
  BY DEF Init, HeldInv, HeldSinceDecrease, DecisionsSpaced
<1>2. TypeOK /\ HeldInv /\ [Next]_vars => HeldInv'
  <2> SUFFICES ASSUME TypeOK, HeldInv, [Next]_vars PROVE HeldInv'
    OBVIOUS
  <2>1. CASE Tick
    <3>1. /\ CooldownTicks \in Nat /\ cooldown \in 0 .. CooldownTicks
          /\ HeldSinceDecrease \in -1 .. CooldownTicks /\ heldSince' \in -1 .. CooldownTicks
      BY <2>1, HeldCounts, ControllerAssumption DEF TypeOK
    <3>2. HeldSinceDecrease = -1 \/ HeldSinceDecrease + cooldown >= CooldownTicks
      BY DEF HeldInv
    <3>3. (HeldSinceDecrease = -1 \/ HeldSinceDecrease + cooldown >= CooldownTicks)'
      <4>1. CASE action' = "decrease"
        <5>1. HeldSinceDecrease' = 0 /\ cooldown' = CooldownTicks
          BY <2>1, <4>1, Decides DEF HeldSinceDecrease
        <5> QED BY <3>1, <5>1
      <4>2. CASE action' # "decrease"
        <5>1. HeldSinceDecrease' = heldSince'
          BY <4>2 DEF HeldSinceDecrease
        <5>2. \/ cooldown' = cooldown
              \/ action' = "hold" /\ ~Blind' /\ cooldown > 0 /\ cooldown' = cooldown - 1
          BY <2>1, <4>2, Decides
        <5>3. heldSince' >= HeldSinceDecrease /\ (HeldSinceDecrease = -1 <=> heldSince' = -1)
          BY <2>1, HeldCounts
        <5>4. action' = "hold" /\ ~Blind' =>
                 \/ HeldSinceDecrease = -1 \/ heldSince' = CooldownTicks
                 \/ heldSince' = HeldSinceDecrease + 1
          BY <2>1, <3>1, HeldCounts
        <5>5. cooldown' \in Int /\ heldSince' \in Int
          BY <3>1, <5>2
        <5>6. heldSince' = -1 \/ heldSince' + cooldown' >= CooldownTicks
          BY <3>1, <3>2, <5>2, <5>3, <5>4, <5>5, HeldPays, Zenon
        <5> QED BY <5>1, <5>6, Zenon
      <4> QED BY <4>1, <4>2
    <3>4. DecisionsSpaced'
      <4> SUFFICES ASSUME action' \in {"decrease", "increase"}
                   PROVE  heldSince' \in {-1, CooldownTicks}
        BY DEF DecisionsSpaced
      <4>1. cooldown = 0 /\ heldSince' = HeldSinceDecrease
        BY <2>1, Decides, HeldCounts
      <4> QED BY <3>1, <3>2, <4>1
    <3> QED BY <3>3, <3>4 DEF HeldInv
  <2>2. CASE Stop \/ UNCHANGED vars
    BY <2>2 DEF Stop, vars, HeldInv, HeldSinceDecrease, DecisionsSpaced
  <2> QED BY <2>1, <2>2 DEF Next
<1>3. HeldInv => DecisionsSpaced
  BY DEF HeldInv
<1> QED BY <1>1, <1>2, <1>3, TypeCorrect, PTL DEF Spec

-----------------------------------------------------------------------------
(* int(c * decrease_factor) is less than c: a factor below 1 rounds down.  *)
LEMMA CutLowers ==
    ASSUME NEW c \in Nat \ {0}
    PROVE  (c * FactorNum) \div FactorDen < c
<1>1. FactorDen \in Nat \ {0} /\ FactorNum \in Nat /\ FactorNum + 1 <= FactorDen
  BY ControllerAssumption
<1> DEFINE q == (c * FactorNum) \div FactorDen
<1>2. c * FactorNum \in Nat /\ c * FactorDen \in Nat
  BY <1>1
<1>3. q \in Nat /\ q * FactorDen <= c * FactorNum
  BY <1>1, <1>2
<1>4. c * FactorNum < c * FactorDen
  <2>1. c * (FactorNum + 1) <= c * FactorDen
    BY <1>1
  <2>2. c * (FactorNum + 1) = c * FactorNum + c
    BY <1>1
  <2> QED BY <1>2, <2>1, <2>2
<1> HIDE DEF q
<1>5. q >= c => q * FactorDen >= c * FactorDen
  BY <1>1, <1>3
<1>6. q * FactorDen \in Nat
  BY <1>1, <1>3
<1>7. q < c
  BY <1>2, <1>3, <1>4, <1>5, <1>6
<1> QED BY <1>7 DEF q

(* Every decrease lowers a cap above the floor and every increase raises   *)
(* one below the ceiling by one, for every factor below 1: no rounding     *)
(* leaves the controller stuck between its bounds (aimd.py:144-157).       *)
THEOREM CapMoves == Spec => DecisionsMove
<1>1. ASSUME TypeOK, [Next]_vars
      PROVE  [UNCHANGED stopped =>
                /\ action' = "decrease" => cap' < cap \/ cap <= CapMin
                /\ action' = "increase" => cap' = cap + 1 \/ cap >= CapMax
                /\ cap' < cap => action' = "decrease" \/ cap > CapMax
                /\ cap' > cap => action' = "increase" \/ cap < CapMin]_vars
  <2> SUFFICES ASSUME Next, UNCHANGED stopped
               PROVE  /\ action' = "decrease" => cap' < cap \/ cap <= CapMin
                      /\ action' = "increase" => cap' = cap + 1 \/ cap >= CapMax
                      /\ cap' < cap => action' = "decrease" \/ cap > CapMax
                      /\ cap' > cap => action' = "increase" \/ cap < CapMin
    BY <1>1
  <2>t. cap \in Nat /\ CapMin \in Nat /\ CapMax \in Nat /\ CapMin <= CapMax
    BY <1>1, ControllerAssumption DEF TypeOK
  <2>1. Tick
    BY DEF Next, Stop
  <2>2. \/ action' = "hold" /\ cap' = cap
        \/ action' = "decrease" /\ cap' = Decreased(cap)
        \/ action' = "increase" /\ cap' = Increased(cap)
    BY <1>1, <2>1, Decides
  <2>3. Decreased(cap) \in Nat /\ (Decreased(cap) < cap \/ cap <= CapMin)
    <3>1. CASE cap = 0
      BY <2>t, <3>1, CapChanges
    <3>2. CASE cap # 0
      <4>1. (cap * FactorNum) \div FactorDen < cap
        BY <2>t, <3>2, CutLowers
      <4>2. (cap * FactorNum) \div FactorDen \in Nat
        BY <2>t, ControllerAssumption
      <4> QED BY <2>t, <4>1, <4>2 DEF Decreased
    <3> QED BY <3>1, <3>2
  <2>4. Decreased(cap) > cap => cap < CapMin
    <3> DEFINE cut == (cap * FactorNum) \div FactorDen
    <3>1. cut \in Nat /\ cut <= cap
      <4>1. CASE cap = 0
        BY <2>t, <4>1, ControllerAssumption
      <4>2. CASE cap # 0
        <5>1. cut < cap
          BY <2>t, <4>2, CutLowers
        <5>2. cut \in Nat
          BY <2>t, ControllerAssumption
        <5> QED BY <2>t, <5>1, <5>2
      <4> QED BY <4>1, <4>2
    <3>2. Decreased(cap) = IF cut < CapMin THEN CapMin ELSE cut
      BY DEF Decreased
    <3> HIDE DEF cut
    <3> QED BY <2>t, <3>1, <3>2
  <2>5. Increased(cap) = cap + 1 \/ (cap >= CapMax /\ Increased(cap) = CapMax)
    <3>1. CASE cap + 1 > CapMax
      BY <2>t, <3>1 DEF Increased
    <3>2. CASE ~(cap + 1 > CapMax)
      BY <3>2 DEF Increased
    <3> QED BY <3>1, <3>2
  <2> QED BY <2>t, <2>2, <2>3, <2>4, <2>5
<1> QED BY <1>1, TypeCorrect, PTL DEF Spec, DecisionsMove

-----------------------------------------------------------------------------
(* A floor above 0 keeps a positive cap positive, so that the scheduler    *)
(* never stops dispatching on the controller's account (aimd.py:145).      *)
THEOREM CapStaysPositive ==
    ASSUME CapMin > 0, InitCap > 0
    PROVE  Spec => [](cap > 0)
<1>1. TypeOK /\ CapWithinBounds => cap > 0
  BY ControllerAssumption DEF TypeOK, CapWithinBounds
<1> QED BY <1>1, TypeCorrect, CapBounded, PTL

(* A window shorter than a tick keeps no two snapshots: every observation  *)
(* is blind and the controller holds for good (aimd.py:188-206).           *)
THEOREM ShortWindowNeverDecides ==
    ASSUME WindowS < TickS
    PROVE  Spec => [](cap = InitCap /\ action \in {"none", "hold"})
<1>1. ASSUME TypeOK, Tick PROVE cap' = cap /\ action' = "hold"
  <2>1. PICK d \in Delays, batch \in Batches : Observe(d, batch)
    BY <1>1 DEF Tick
  <2> DEFINE aged == [i \in DOMAIN snapshots |->
                        [age   |-> snapshots[i].age + d,
                         since |-> [b \in Bucket |-> snapshots[i].since[b] + batch[b]]]]
             all  == Append(aged, [age |-> 0, since |-> Zero])
  <2>2. d \in Nat /\ d > WindowS /\ WindowS \in Nat /\ batch \in [Bucket -> Nat]
    <3>1. d \in Nat /\ d >= TickS
      BY ObservationAssumption
    <3> QED BY <3>1, ControllerAssumption, ObservationAssumption
  <2>3. \A i \in DOMAIN snapshots :
           snapshots[i].age \in Nat /\ snapshots[i].since \in [Bucket -> Nat]
    <3>1. \A i \in DOMAIN snapshots : snapshots[i] \in Snapshot
      BY <1>1 DEF TypeOK
    <3> QED BY <3>1 DEF Snapshot
  <2>4. \A i \in DOMAIN snapshots : aged[i].age > WindowS
    BY <2>2, <2>3
  <2>5. aged \in Seq(Snapshot) /\ DOMAIN aged = DOMAIN snapshots
    <3>1. \A i \in DOMAIN snapshots : aged[i] \in Snapshot
      BY <2>2, <2>3 DEF Snapshot
    <3>2. DOMAIN snapshots = 1 .. Len(snapshots) /\ Len(snapshots) \in Nat
      BY <1>1 DEF TypeOK
    <3> QED BY <3>1, <3>2
  <2>6. [age |-> 0, since |-> Zero] \in Snapshot
    BY DEF Snapshot, Zero
  <2>7. PICK i \in DOMAIN all : all[i].age <= WindowS /\ snapshots' = SubSeq(all, i, Len(all))
    BY <2>1 DEF Observe
  <2> HIDE DEF aged
  <2>8. /\ all \in Seq(Snapshot) /\ Len(all) = Len(aged) + 1 /\ Len(aged) \in Nat
        /\ DOMAIN all = 1 .. Len(all)
        /\ \A j \in 1 .. Len(aged) : all[j] = aged[j] /\ j \in DOMAIN aged
    BY <2>5, <2>6
  <2>9. i = Len(all)
    <3>1. i \in 1 .. Len(aged) => FALSE
      <4> SUFFICES ASSUME i \in 1 .. Len(aged) PROVE FALSE
        OBVIOUS
      <4>1. aged[i].age > WindowS /\ aged[i].age <= WindowS /\ aged[i] \in Snapshot
        BY <2>4, <2>5, <2>7, <2>8
      <4> QED BY <2>2, <4>1 DEF Snapshot
    <3> QED BY <2>7, <2>8, <3>1
  <2> HIDE DEF all
  <2>10. Len(snapshots') = 1
    BY <2>7, <2>8, <2>9
  <2>11. Blind'
    BY <2>10 DEF Blind
  <2> QED
    BY <1>1, <2>11 DEF Tick, HoldBlind, HoldCoolingDown, Decrease, Increase, HoldSteady
<1> DEFINE Inv == cap = InitCap /\ action \in {"none", "hold"}
<1>2. Init => Inv
  BY DEF Init
<1>3. TypeOK /\ Inv /\ [Next]_vars => Inv'
  BY <1>1 DEF Next, Stop, vars
<1> QED BY <1>2, <1>3, TypeCorrect, PTL DEF Spec
==============================================================================
