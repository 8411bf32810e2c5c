------------------------------- MODULE SlotPool -------------------------------
(***************************************************************************)
(* What a TenantScheduler with caps on promises its callers: a pool of     *)
(* slots over a budget that moves.  A request asks for a slot, is granted  *)
(* one or gives up, and returns it.  Queues, the drain task, futures and   *)
(* wake-ups are hidden; the two faults of the code that concern slots are  *)
(* part of the promise and named, Leak and Surplus.                        *)
(***************************************************************************)
EXTENDS Integers

CONSTANTS
    Request,   \* calls of acquire()
    Budgets    \* values the budget may take

VARIABLES
    own,     \* request -> its share of the pool
    avail,   \* slots free to be granted
    used,    \* slots counted as in flight
    debt,    \* slots a contraction still claims from later returns
    budget,
    closed   \* stop() has begun

vars == <<own, avail, used, debt, budget, closed>>

Share == {"none", "asking", "owning", "returned", "refused", "leaked", "surplus"}

Init ==
    /\ own = [r \in Request |-> "none"]
    /\ budget \in Budgets /\ avail = budget
    /\ used = 0 /\ debt = 0 /\ closed = FALSE

Becomes(r, share) == own' = [own EXCEPT ![r] = share]

(* acquire() refuses at queue_max or lets the request wait.                *)
Ask(r, share) ==
    /\ own[r] = "none" /\ share \in {"asking", "refused"}
    /\ Becomes(r, share)
    /\ UNCHANGED <<avail, used, debt, budget, closed>>

Grant(r) ==
    /\ own[r] = "asking" /\ avail > 0 /\ ~closed
    /\ Becomes(r, "owning")
    /\ avail' = avail - 1 /\ used' = used + 1
    /\ UNCHANGED <<debt, budget, closed>>

(* A wait ends without a slot: timeout, cancellation or stop().            *)
GiveUp(r) ==
    /\ own[r] = "asking"
    /\ Becomes(r, "refused")
    /\ UNCHANGED <<avail, used, debt, budget, closed>>

(* The timeout was raised although the slot had been granted.              *)
Leak(r) ==
    /\ own[r] = "owning"
    /\ Becomes(r, "leaked")
    /\ UNCHANGED <<avail, used, debt, budget, closed>>

(* release(): a debt is paid before a slot becomes free.                   *)
GiveBack ==
    /\ used' = used - 1
    /\ \/ debt > 0 /\ debt' = debt - 1 /\ UNCHANGED avail
       \/ debt = 0 /\ avail' = avail + 1 /\ UNCHANGED debt
    /\ UNCHANGED <<budget, closed>>

Return(r) == own[r] = "owning" /\ Becomes(r, "returned") /\ GiveBack

(* A caller that stop() failed is cancelled and returns a slot it was      *)
(* never granted.                                                          *)
Surplus(r) == closed /\ own[r] = "asking" /\ Becomes(r, "surplus") /\ GiveBack

Resize(b) ==
    /\ ~closed /\ budget' = b
    /\ \/ b > budget /\ avail' = avail + (b - budget) /\ UNCHANGED debt
       \/ b <= budget /\ debt' = debt + (budget - b) /\ UNCHANGED avail
    /\ UNCHANGED <<own, used, closed>>

Close == ~closed /\ closed' = TRUE /\ UNCHANGED <<own, avail, used, debt, budget>>

Next ==
    \/ \E r \in Request :
          \/ \E share \in {"asking", "refused"} : Ask(r, share)
          \/ Grant(r) \/ GiveUp(r) \/ Leak(r) \/ Return(r) \/ Surplus(r)
    \/ \E b \in Budgets : Resize(b)
    \/ Close

Spec == Init /\ [][Next]_vars
===============================================================================
