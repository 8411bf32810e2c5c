---------------------------- MODULE AIMDController ----------------------------
(***************************************************************************)
(* app/scheduler/aimd.py: the periodic task that sets cap_per_worker from  *)
(* the p99 of the time to first token over a rolling window.               *)
(*                                                                         *)
(* A snapshot of the histogram is kept by its age and by the cumulative    *)
(* bucket counts observed since it was taken, which is all the code ever   *)
(* reads of it (differences against the newest); the counters only grow.   *)
(* Seconds are integers and the arithmetic is exact.                       *)
(***************************************************************************)
EXTENDS Integers, Sequences

CONSTANTS
    TickS, WindowS,       \* tick_s, window_s
    CapMin, CapMax, InitCap,
    CooldownTicks,
    FactorNum, FactorDen, \* decrease_factor
    Lower, Upper,         \* target * (1 - band), target * (1 + band)
    Edges,                \* finite bucket edges of the histogram, ascending
    Delays,               \* how long a sleep of TickS may really take
    Batches               \* what may be observed between two ticks: cumulative
                          \* counts per bucket

Bucket == 1 .. Len(Edges) + 1
Inf    == Len(Edges) + 1
Zero   == [b \in Bucket |-> 0]

ASSUME ControllerAssumption ==
    /\ TickS \in Nat \ {0} /\ WindowS \in Nat \ {0}
    /\ CapMin \in Nat /\ CapMax \in Nat /\ CapMin <= CapMax
    /\ InitCap \in Nat /\ CooldownTicks \in Nat
    /\ FactorNum \in Nat \ {0} /\ FactorDen \in Nat /\ FactorNum < FactorDen
    /\ Lower \in Nat /\ Upper \in Nat /\ Lower <= Upper

ASSUME ObservationAssumption ==
    /\ Edges \in Seq(Nat) /\ Len(Edges) > 0
    /\ \A b, c \in DOMAIN Edges : b < c => Edges[b] < Edges[c]
    /\ Delays \subseteq {d \in Nat : d >= TickS}
    /\ Batches \subseteq [Bucket -> Nat]
    /\ \A w \in Batches : \A b, c \in Bucket : b <= c => w[b] <= w[c]

VARIABLES
    snapshots,     \* self._snapshots, oldest first
    cap,           \* the scheduler's cap_per_worker
    cooldown,      \* self._cooldown_remaining
    action,        \* the action recorded last, "none" before the first tick
    demand,        \* what has_demand() would have answered at the last tick
    sinceDecrease, \* at the last tick, age of the last decrease before it (-1:
                   \* none); only the properties read it, WindowS + 1 is "old"
    heldSince,     \* ticks held with a p99 since the last decrease before the
                   \* last tick (-1: none), counted up to CooldownTicks; only
                   \* DecisionsSpaced reads it
    stopped

vars == <<snapshots, cap, cooldown, action, demand, sinceDecrease, heldSince, stopped>>

Snapshot == [age : Nat, since : [Bucket -> Nat]]

TypeOK ==
    /\ snapshots \in Seq(Snapshot)
    /\ cap \in Nat
    /\ cooldown \in 0 .. CooldownTicks
    /\ action \in {"none", "hold", "decrease", "increase"}
    /\ demand \in BOOLEAN
    /\ sinceDecrease \in -1 .. WindowS + 1
    /\ heldSince \in -1 .. CooldownTicks
    /\ stopped \in BOOLEAN

Init ==
    /\ snapshots = <<>> /\ cap = InitCap /\ cooldown = 0
    /\ action = "none" /\ demand = FALSE
    /\ sinceDecrease = -1 /\ heldSince = -1
    /\ stopped = FALSE

-----------------------------------------------------------------------------
(* _observe_p99() on a window w of cumulative counts.  The variants named  *)
(* after a definition (P99Bottom, CoolingDownLate, ...) are faulty: no     *)
(* specification uses them, they serve to show that the properties notice. *)

Total(w) == w[Inf]

(* The bucket of the 0.99 * total -th observation.                         *)
Reaches(w, b) == 100 * w[b] >= 99 * Total(w)
P99Bucket(w)  == CHOOSE b \in Bucket : Reaches(w, b) /\ \A c \in 1 .. b - 1 : ~Reaches(w, c)

(* Interpolated inside its bucket, as num / den; the open-ended bucket     *)
(* counts as the largest finite edge.                                      *)
P99In(w, b, tail) ==
    LET lo   == IF b = 1 THEN 0 ELSE Edges[b - 1]
        cum  == IF b = 1 THEN 0 ELSE w[b - 1]
        span == w[b] - cum
    IN  IF b = Inf THEN [num |-> tail, den |-> 1]
        ELSE [num |-> lo * 100 * span + (Edges[b] - lo) * (99 * Total(w) - 100 * cum),
              den |-> 100 * span]

P99Bottom(w) == P99In(w, P99Bucket(w), Edges[1])

P99(w) == P99In(w, P99Bucket(w), Edges[Len(Edges)])

Above(p, x) == p.num > x * p.den
Below(p, x) == p.num < x * p.den

(* Push a snapshot taken after a sleep of d in which `batch` was observed, *)
(* drop the snapshots at the old end that left the window.                 *)
Observe(d, batch) ==
    LET aged == [i \in DOMAIN snapshots |->
                   [age   |-> snapshots[i].age + d,
                    since |-> [b \in Bucket |-> snapshots[i].since[b] + batch[b]]]]
        all  == Append(aged, [age |-> 0, since |-> Zero])
    IN  \E i \in DOMAIN all :
            /\ all[i].age <= WindowS
            /\ \A j \in 1 .. i - 1 : all[j].age > WindowS
            /\ snapshots' = SubSeq(all, i, Len(all))

Window == Head(snapshots).since

(* NaN: a single snapshot, or fewer than 10 observations in the window.    *)
Blind == Len(snapshots) < 2 \/ Total(Window) < 10

-----------------------------------------------------------------------------
CoolingDownLate  == cooldown >= 0
CoolingDownEarly == cooldown > 1

CoolingDown == cooldown > 0

(* int(cur * decrease_factor), not below the floor.                        *)
DecreasedUnclamped(c) == (c * FactorNum) \div FactorDen
DecreasedRoundedUp(c) ==
    LET cut == (c * FactorNum + FactorDen - 1) \div FactorDen
    IN  IF cut < CapMin THEN CapMin ELSE cut

Decreased(c) ==
    LET cut == (c * FactorNum) \div FactorDen IN IF cut < CapMin THEN CapMin ELSE cut
Increased(c) == IF c + 1 > CapMax THEN CapMax ELSE c + 1

HoldBlindClears ==
    /\ Blind'
    /\ action' = "hold" /\ cooldown' = 0 /\ UNCHANGED cap

(* A NaN holds and leaves the cooldown as it is.                           *)
HoldBlind ==
    /\ Blind'
    /\ action' = "hold" /\ UNCHANGED <<cap, cooldown>>

HoldCoolingDownForever ==
    /\ ~Blind' /\ CoolingDown
    /\ action' = "hold" /\ UNCHANGED <<cap, cooldown>>

HoldCoolingDown ==
    /\ ~Blind' /\ CoolingDown
    /\ cooldown' = cooldown - 1
    /\ action' = "hold" /\ UNCHANGED cap

Decrease ==
    /\ ~Blind' /\ ~CoolingDown /\ Above(P99(Window'), Upper)
    /\ action' = "decrease" /\ cap' = Decreased(cap)
    /\ cooldown' = CooldownTicks

Increase ==
    /\ ~Blind' /\ ~CoolingDown /\ demand' /\ Below(P99(Window'), Lower)
    /\ action' = "increase" /\ cap' = Increased(cap)
    /\ UNCHANGED cooldown

HoldSteady ==
    /\ ~Blind' /\ ~CoolingDown
    /\ ~Above(P99(Window'), Upper)
    /\ ~(demand' /\ Below(P99(Window'), Lower))
    /\ action' = "hold" /\ UNCHANGED <<cap, cooldown>>

(* History: how long ago the last decrease was at the last tick, its own   *)
(* included, and how many ticks held with a p99 followed it.               *)
SinceLastDecrease == IF action = "decrease" THEN 0 ELSE sinceDecrease
HeldSinceDecrease == IF action = "decrease" THEN 0 ELSE heldSince

CountsHeld ==
    heldSince' = IF /\ HeldSinceDecrease \in 0 .. CooldownTicks - 1
                    /\ action' = "hold" /\ ~Blind'
                 THEN HeldSinceDecrease + 1 ELSE HeldSinceDecrease

(* One turn of _loop(); set_cap_per_worker does not suspend.               *)
Tick ==
    /\ ~stopped /\ UNCHANGED stopped
    /\ demand' \in BOOLEAN
    /\ \E d \in Delays :
          /\ \E batch \in Batches : Observe(d, batch)
          /\ sinceDecrease' = IF SinceLastDecrease = -1 THEN -1
                              ELSE IF SinceLastDecrease + d > WindowS THEN WindowS + 1
                              ELSE SinceLastDecrease + d
    /\ HoldBlind \/ HoldCoolingDown \/ Decrease \/ Increase \/ HoldSteady
    /\ CountsHeld

(* stop() cancels the task in its sleep.                                   *)
Stop ==
    /\ ~stopped /\ stopped' = TRUE
    /\ UNCHANGED <<snapshots, cap, cooldown, action, demand, sinceDecrease, heldSince>>

Next == Tick \/ Stop

Spec == Init /\ [][Next]_vars

(* The sleep of the loop always ends.                                      *)
FairSpec == Spec /\ WF_vars(Tick)

-----------------------------------------------------------------------------
Finite == DOMAIN Edges

(* More than one observation in a hundred is slower than edge b.           *)
TailBeyond(w, b) == 100 * w[b] < 99 * Total(w)

(* The cap stays between its bounds, or between them and a bootstrap value *)
(* that was configured outside (aimd.py:144-155).                          *)
CapWithinBounds ==
    /\ cap >= CapMin \/ cap >= InitCap
    /\ cap <= CapMax \/ cap <= InitCap

(* "so the previous step's effect can flush through the rolling window":   *)
(* if the cooldown and the tick that ends it are as long as the window, no *)
(* decision looks at an observation made before the last decrease, however *)
(* the sleeps drift and whichever ticks were blind (aimd.py:39-43, 138-157,*)
(* 194-206).                                                               *)
DecisionOnFlushedWindow ==
    /\ (CooldownTicks + 1) * TickS >= WindowS
    /\ action \in {"decrease", "increase"} /\ sinceDecrease # -1
    => Head(snapshots).age <= sinceDecrease

(* No decision before cooldown_ticks ticks have held after a decrease:     *)
(* ticks without a p99 are not among them, wherever they fall              *)
(* (aimd.py:135-157).                                                      *)
DecisionsSpaced ==
    action \in {"decrease", "increase"} => heldSince \in {-1, CooldownTicks}

(* Every decision moves the cap: a cut lowers it, whatever the rounding of *)
(* small caps, until it is at the floor, and a raise is a single step up,  *)
(* until it is at the ceiling (aimd.py:144-157).                           *)
DecisionsMove ==
    [][UNCHANGED stopped =>
          /\ action' = "decrease" => cap' < cap \/ cap <= CapMin
          /\ action' = "increase" => cap' = cap + 1 \/ cap >= CapMax
          /\ cap' < cap => action' = "decrease" \/ cap > CapMax
          /\ cap' > cap => action' = "increase" \/ cap < CapMin]_vars

(* Interpolation and clamping never invent a verdict: a decrease has more  *)
(* than 1% of the window's observations beyond every edge up to the upper  *)
(* threshold, an increase has 99% of them within every edge from the lower *)
(* threshold on, and demand (aimd.py:144-149, 222-248).                    *)
DecisionsJustified ==
    /\ action = "decrease" =>
          \A b \in Finite : Edges[b] <= Upper => TailBeyond(Window, b)
    /\ action = "increase" =>
          /\ demand
          /\ \A b \in Finite : Edges[b] >= Lower => ~TailBeyond(Window, b)

(* The window shows an overload, or shows none beyond doubt.               *)
Overloaded == ~Blind /\ \E b \in Finite : Edges[b] > Upper /\ TailBeyond(Window, b)
Relaxed    == ~Blind /\ \E b \in Finite : Edges[b] < Lower /\ ~TailBeyond(Window, b)

(* And they miss none: outside of a cooldown an overload is cut at the     *)
(* tick that sees it, also one beyond the last edge, and with demand a     *)
(* relaxed window raises the cap (aimd.py:135-157, 222-248).               *)
DecisionsTimely ==
    [][UNCHANGED stopped /\ ~CoolingDown =>
          /\ Overloaded' => action' = "decrease"
          /\ demand' /\ Relaxed' => action' = "increase"]_vars

(* Under a lasting overload the cap comes down to its floor, through the   *)
(* cooldowns and whatever the rounding (aimd.py:130-157).                  *)
OverloadReachesFloor ==
    []~stopped /\ <>[](snapshots # <<>> /\ Overloaded) => <>[](cap = CapMin)

(* Once requests are fast again and keep coming, the cap climbs back to    *)
(* its ceiling: no cooldown outlives the overload (aimd.py:138-149).       *)
RecoversToCeiling ==
    []~stopped /\ <>[](snapshots # <<>> /\ demand /\ Relaxed) => <>[](cap = CapMax)

-----------------------------------------------------------------------------
(* "After any non-hold action, force hold for this many ticks before the   *)
(* next decision" (tenants.py:40-41).                                      *)
HoldAfterAnyAction ==
    [][CooldownTicks > 0 /\ action \in {"decrease", "increase"} /\ ~stopped'
          => action' = "hold"]_vars
==============================================================================
