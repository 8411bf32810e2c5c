-------------------------- MODULE AIMDDecisionProofs --------------------------
(***************************************************************************)
(* The interpolated p99 neither invents nor misses a verdict:              *)
(* DecisionsJustified and DecisionsTimely for every histogram, window and  *)
(* pair of thresholds.                                                     *)
(***************************************************************************)
EXTENDS AIMDControllerProofs, WellFoundedInduction

(* A non-empty set of naturals has a least element.                        *)
LEMMA LeastNatural ==
    ASSUME NEW T \in SUBSET Nat, T # {}
    PROVE  \E x \in T : \A y \in T : x <= y
<1> DEFINE R == {p \in Nat \X Nat : p[1] < p[2]}
<1>1. IsWellFoundedOn(R, Nat)
  BY NatLessThanWellFounded DEF OpToRel
<1>2. PICK x \in T : \A y \in T : <<y, x>> \notin R
  <2> HIDE DEF R
  <2> QED BY <1>1, WFMin
<1>3. \A y \in T : ~(y < x)
  BY <1>2
<1> QED BY <1>3

-----------------------------------------------------------------------------
(* Cumulative counts: what a window of the histogram is.                   *)
Cumulative(w) ==
    /\ w \in [Bucket -> Nat]
    /\ \A b, c \in Bucket : b <= c => w[b] <= w[c]

(* The search of the code's loop ends at a bucket, the first to reach the  *)
(* rank.                                                                   *)
LEMMA BucketFound ==
    ASSUME NEW w \in [Bucket -> Nat]
    PROVE  /\ P99Bucket(w) \in Bucket /\ Reaches(w, P99Bucket(w))
           /\ \A c \in 1 .. P99Bucket(w) - 1 : ~Reaches(w, c)
<1> DEFINE T == {b \in Bucket : Reaches(w, b)}
<1>1. Len(Edges) \in Nat /\ Inf \in Bucket
  BY ObservationAssumption DEF Inf, Bucket
<1>2. Inf \in T
  <2>1. w[Inf] \in Nat
    BY <1>1
  <2> QED BY <1>1, <2>1 DEF Reaches, Total
<1>3. PICK b \in T : \A c \in T : b <= c
  <2>1. T \in SUBSET Nat
    BY DEF Bucket
  <2> QED BY <1>2, <2>1, LeastNatural
<1>4. \A c \in 1 .. b - 1 : c \in Bucket /\ ~(b <= c)
  BY <1>1, <1>3 DEF Bucket
<1>5. b \in Bucket /\ Reaches(w, b) /\ \A c \in 1 .. b - 1 : ~Reaches(w, c)
  BY <1>3, <1>4
<1> HIDE DEF T
<1> QED BY <1>5 DEF P99Bucket

-----------------------------------------------------------------------------
(* A point interpolated between lo and hi lies between them.               *)
LEMMA Between ==
    ASSUME NEW lo \in Nat, NEW hi \in Nat, lo <= hi,
           NEW den \in Nat, NEW n \in Nat, 0 < n, n <= den
    PROVE  /\ lo * den <= lo * den + (hi - lo) * n
           /\ lo * den + (hi - lo) * n <= hi * den
<1> DEFINE gap == hi - lo
<1>1. gap \in Nat /\ hi = lo + gap
  OBVIOUS
<1>2. hi * den = lo * den + gap * den
  BY <1>1
<1> HIDE DEF gap
<1>3. 0 <= gap * n /\ gap * n <= gap * den
  BY <1>1
<1>4. lo * den \in Nat /\ gap * n \in Nat /\ gap * den \in Nat
  BY <1>1
<1>5. lo * den <= lo * den + gap * n /\ lo * den + gap * n <= hi * den
  BY <1>2, <1>3, <1>4
<1> QED BY <1>5 DEF gap

(* A common positive factor can be dropped.                                *)
LEMMA Cancel ==
    ASSUME NEW a \in Nat, NEW b \in Nat, NEW den \in Nat, a * den < b * den
    PROVE  a < b
<1> SUFFICES ASSUME b <= a PROVE FALSE
  OBVIOUS
<1>1. PICK k \in Nat : a = b + k
  OBVIOUS
<1>2. a * den = b * den + k * den /\ k * den >= 0 /\ b * den \in Nat
  BY <1>1
<1> QED BY <1>2

(* Inside a finite bucket the interpolated value lies between its edges.   *)
LEMMA InsideBucket ==
    ASSUME NEW w, Cumulative(w), Total(w) > 0,
           NEW b \in DOMAIN Edges, b = P99Bucket(w)
    PROVE  LET lo == IF b = 1 THEN 0 ELSE Edges[b - 1]
               p  == P99(w)
           IN  /\ p.num \in Nat /\ p.den \in Nat /\ p.den > 0
               /\ lo \in Nat /\ Edges[b] \in Nat
               /\ lo * p.den <= p.num /\ p.num <= Edges[b] * p.den
<1> DEFINE lo   == IF b = 1 THEN 0 ELSE Edges[b - 1]
           cum  == IF b = 1 THEN 0 ELSE w[b - 1]
           span == w[b] - cum
           n    == 99 * Total(w) - 100 * cum
           den  == 100 * span
<1>1. b \in 1 .. Len(Edges) /\ Len(Edges) \in Nat /\ b \in Bucket /\ b # Inf
  BY ObservationAssumption DEF Bucket, Inf
<1>2. b # 1 => b - 1 \in 1 .. Len(Edges) /\ b - 1 \in Bucket
  BY <1>1 DEF Bucket
<1>3. /\ lo \in Nat /\ Edges[b] \in Nat /\ lo <= Edges[b]
  BY <1>1, <1>2, ObservationAssumption
<1>4. w[b] \in Nat /\ cum \in Nat /\ Total(w) \in Nat
  BY <1>1, <1>2 DEF Cumulative, Total, Bucket, Inf
<1>5. 100 * w[b] >= 99 * Total(w)
  BY BucketFound DEF Cumulative, Reaches
<1>6. 100 * cum < 99 * Total(w)
  <2>1. CASE b = 1
    BY <1>4, <2>1
  <2>2. CASE b # 1
    <3>1. ~Reaches(w, b - 1)
      BY <1>2, <1>1, <2>2, BucketFound DEF Cumulative
    <3> QED BY <1>4, <2>2, <3>1 DEF Reaches
  <2> QED BY <2>1, <2>2
<1>7. n \in Nat /\ 0 < n /\ den \in Nat /\ n <= den
  BY <1>4, <1>5, <1>6
<1>8. P99(w) = [num |-> lo * 100 * span + (Edges[b] - lo) * n, den |-> den]
  BY <1>1 DEF P99, P99In
<1>9. lo * 100 * span = lo * den
  BY <1>3, <1>4
<1> HIDE DEF lo, n, den
<1>10. /\ lo * den <= lo * den + (Edges[b] - lo) * n
       /\ lo * den + (Edges[b] - lo) * n <= Edges[b] * den
  BY <1>3, <1>7, Between
<1>11. P99(w).num = lo * den + (Edges[b] - lo) * n /\ P99(w).den = den
  BY <1>8, <1>9
<1>12. P99(w).num \in Nat
  <2>1. (Edges[b] - lo) * n \in Nat /\ lo * den \in Nat
    BY <1>3, <1>7
  <2> QED BY <1>11, <2>1
<1> USE DEF lo
<1> QED BY <1>3, <1>7, <1>10, <1>11, <1>12

-----------------------------------------------------------------------------
(* A p99 above a threshold has the rank beyond every edge up to it.        *)
LEMMA AboveIsSlow ==
    ASSUME NEW w, Cumulative(w), Total(w) > 0, NEW x \in Nat, Above(P99(w), x),
           NEW e \in Finite, Edges[e] <= x
    PROVE  TailBeyond(w, e)
<1>1. /\ e \in 1 .. Len(Edges) /\ Len(Edges) \in Nat /\ Edges[e] \in Nat /\ e \in Bucket
      /\ \A b, c \in DOMAIN Edges : b < c => Edges[b] < Edges[c]
  BY ObservationAssumption DEF Finite, Bucket
<1>2. P99Bucket(w) \in Bucket /\ \A c \in 1 .. P99Bucket(w) - 1 : ~Reaches(w, c)
  BY BucketFound DEF Cumulative
<1>3. e < P99Bucket(w)
  <2>1. CASE P99Bucket(w) = Inf
    BY <1>1, <2>1 DEF Inf
  <2>2. CASE P99Bucket(w) # Inf
    <3>1. PICK b \in DOMAIN Edges : b = P99Bucket(w)
      BY <1>1, <1>2, <2>2 DEF Bucket, Inf
    <3>2. /\ P99(w).num \in Nat /\ P99(w).den \in Nat /\ Edges[b] \in Nat
          /\ P99(w).num <= Edges[b] * P99(w).den
      BY <3>1, InsideBucket
    <3>3. x * P99(w).den < Edges[b] * P99(w).den
      <4>1. x * P99(w).den \in Nat /\ Edges[b] * P99(w).den \in Nat
        BY <3>2
      <4> QED BY <3>2, <4>1 DEF Above
    <3>4. x < Edges[b]
      BY <3>2, <3>3, Cancel
    <3>5. ~(b <= e)
      BY <1>1, <3>1, <3>2, <3>4
    <3> QED BY <1>1, <3>1, <3>5
  <2> QED BY <2>1, <2>2
<1>4. ~Reaches(w, e)
  BY <1>1, <1>2, <1>3 DEF Bucket
<1>5. w[e] \in Nat /\ Total(w) \in Nat
  BY <1>1 DEF Cumulative, Total, Bucket, Inf
<1> QED BY <1>4, <1>5 DEF Reaches, TailBeyond

(* A p99 below a threshold has the rank within every edge from it on.      *)
LEMMA BelowIsFast ==
    ASSUME NEW w, Cumulative(w), Total(w) > 0, NEW x \in Nat, Below(P99(w), x),
           NEW e \in Finite, Edges[e] >= x
    PROVE  ~TailBeyond(w, e)
<1>1. /\ e \in 1 .. Len(Edges) /\ Len(Edges) \in Nat /\ Edges[e] \in Nat /\ e \in Bucket
      /\ \A b, c \in DOMAIN Edges : b < c => Edges[b] < Edges[c]
  BY ObservationAssumption DEF Finite, Bucket
<1>2. P99Bucket(w) \in Bucket /\ Reaches(w, P99Bucket(w))
  BY BucketFound DEF Cumulative
<1>3. P99Bucket(w) <= e
  <2>1. CASE P99Bucket(w) = Inf
    <3>1. Edges[Len(Edges)] < x
      <4>1. P99(w) = [num |-> Edges[Len(Edges)], den |-> 1]
        BY <2>1 DEF P99, P99In
      <4>2. Edges[Len(Edges)] \in Nat
        BY ObservationAssumption
      <4> QED BY <4>1, <4>2 DEF Below
    <3>2. Edges[e] <= Edges[Len(Edges)]
      <4>1. Len(Edges) \in DOMAIN Edges /\ e \in DOMAIN Edges /\ Edges[Len(Edges)] \in Nat
        BY <1>1, ObservationAssumption DEF Finite
      <4> QED BY <1>1, <4>1
    <3>3. Edges[Len(Edges)] \in Nat
      BY ObservationAssumption
    <3> QED BY <1>1, <3>1, <3>2, <3>3
  <2>2. CASE P99Bucket(w) # Inf
    <3>1. PICK b \in DOMAIN Edges : b = P99Bucket(w)
      BY <1>1, <1>2, <2>2 DEF Bucket, Inf
    <3> DEFINE lo == IF b = 1 THEN 0 ELSE Edges[b - 1]
    <3>2. /\ P99(w).num \in Nat /\ P99(w).den \in Nat /\ lo \in Nat
          /\ lo * P99(w).den <= P99(w).num
      BY <3>1, InsideBucket
    <3> HIDE DEF lo
    <3>3. lo * P99(w).den < x * P99(w).den
      <4>1. x * P99(w).den \in Nat /\ lo * P99(w).den \in Nat
        BY <3>2
      <4> QED BY <3>2, <4>1 DEF Below
    <3>4. lo < x
      BY <3>2, <3>3, Cancel
    <3>5. ~(e <= b - 1)
      <4> SUFFICES ASSUME e <= b - 1 PROVE FALSE
        OBVIOUS
      <4>0. DOMAIN Edges = 1 .. Len(Edges)
        BY ObservationAssumption
      <4>1. b \in 1 .. Len(Edges) /\ b # 1 /\ b - 1 \in DOMAIN Edges /\ e \in DOMAIN Edges
        BY <1>1, <4>0
      <4>2. Edges[b - 1] \in Nat
        BY <4>1, ObservationAssumption
      <4>3. Edges[e] <= Edges[b - 1]
        BY <1>1, <4>1, <4>2
      <4> QED BY <1>1, <3>4, <4>1, <4>2, <4>3 DEF lo
    <3>6. b \in Nat
      BY <1>1
    <3> QED BY <1>1, <3>1, <3>5, <3>6
  <2> QED BY <2>1, <2>2
<1>4. w[P99Bucket(w)] <= w[e] /\ w[P99Bucket(w)] \in Nat /\ w[e] \in Nat /\ Total(w) \in Nat
  BY <1>1, <1>2, <1>3 DEF Cumulative, Total, Bucket, Inf
<1> QED BY <1>2, <1>4 DEF Reaches, TailBeyond

(* The rank beyond an edge above a threshold puts the p99 above it.        *)
LEMMA SlowIsAbove ==
    ASSUME NEW w, Cumulative(w), Total(w) > 0, NEW x \in Nat,
           NEW e \in Finite, Edges[e] > x, TailBeyond(w, e)
    PROVE  Above(P99(w), x)
<1>1. /\ e \in 1 .. Len(Edges) /\ Len(Edges) \in Nat /\ Edges[e] \in Nat /\ e \in Bucket
      /\ DOMAIN Edges = 1 .. Len(Edges)
      /\ \A b \in DOMAIN Edges : Edges[b] \in Nat
      /\ \A b, c \in DOMAIN Edges : b < c => Edges[b] < Edges[c]
  BY ObservationAssumption DEF Finite, Bucket
<1>2. P99Bucket(w) \in Bucket /\ Reaches(w, P99Bucket(w))
  BY BucketFound DEF Cumulative
<1>3. ~(P99Bucket(w) <= e)
  <2> SUFFICES ASSUME P99Bucket(w) <= e PROVE FALSE
    OBVIOUS
  <2>1. /\ w[P99Bucket(w)] <= w[e] /\ w[P99Bucket(w)] \in Nat /\ w[e] \in Nat
        /\ Total(w) \in Nat
    BY <1>1, <1>2 DEF Cumulative, Total, Bucket, Inf
  <2> QED BY <1>2, <2>1 DEF Reaches, TailBeyond
<1>4. CASE P99Bucket(w) = Inf
  <2>1. P99(w) = [num |-> Edges[Len(Edges)], den |-> 1]
    BY <1>4 DEF P99, P99In
  <2>2. Edges[Len(Edges)] \in Nat /\ Edges[e] <= Edges[Len(Edges)]
    BY <1>1
  <2>3. x * 1 = x
    OBVIOUS
  <2> QED BY <1>1, <2>1, <2>2, <2>3 DEF Above
<1>5. CASE P99Bucket(w) # Inf
  <2>1. PICK b \in DOMAIN Edges : b = P99Bucket(w)
    BY <1>1, <1>2, <1>5 DEF Bucket, Inf
  <2> DEFINE lo == IF b = 1 THEN 0 ELSE Edges[b - 1]
  <2>2. /\ P99(w).num \in Nat /\ P99(w).den \in Nat /\ P99(w).den > 0
        /\ lo \in Nat /\ lo * P99(w).den <= P99(w).num
    BY <2>1, InsideBucket
  <2>3. lo > x
    <3>1. b \in Nat /\ e < b /\ b - 1 \in DOMAIN Edges /\ b # 1
      BY <1>1, <1>2, <1>3, <2>1
    <3>2. Edges[e] <= Edges[b - 1] /\ Edges[b - 1] \in Nat
      BY <1>1, <3>1
    <3> QED BY <1>1, <3>1, <3>2
  <2> HIDE DEF lo
  <2>4. (x + 1) * P99(w).den <= lo * P99(w).den
    BY <2>2, <2>3
  <2>5. (x + 1) * P99(w).den = x * P99(w).den + P99(w).den /\ x * P99(w).den \in Nat
    BY <2>2
  <2>6. lo * P99(w).den \in Nat
    BY <2>2
  <2> QED BY <2>2, <2>4, <2>5, <2>6 DEF Above
<1> QED BY <1>4, <1>5

(* The rank within an edge below a threshold puts the p99 below it.        *)
LEMMA FastIsBelow ==
    ASSUME NEW w, Cumulative(w), Total(w) > 0, NEW x \in Nat,
           NEW e \in Finite, Edges[e] < x, ~TailBeyond(w, e)
    PROVE  Below(P99(w), x)
<1>1. /\ e \in 1 .. Len(Edges) /\ Len(Edges) \in Nat /\ Edges[e] \in Nat /\ e \in Bucket
      /\ DOMAIN Edges = 1 .. Len(Edges)
      /\ \A b \in DOMAIN Edges : Edges[b] \in Nat
      /\ \A b, c \in DOMAIN Edges : b < c => Edges[b] < Edges[c]
  BY ObservationAssumption DEF Finite, Bucket
<1>2. P99Bucket(w) \in Bucket /\ \A c \in 1 .. P99Bucket(w) - 1 : ~Reaches(w, c)
  BY BucketFound DEF Cumulative
<1>3. Reaches(w, e)
  <2>1. w[e] \in Nat /\ Total(w) \in Nat
    BY <1>1 DEF Cumulative, Total, Bucket, Inf
  <2> QED BY <2>1 DEF Reaches, TailBeyond
<1>4. P99Bucket(w) <= e
  BY <1>1, <1>2, <1>3 DEF Bucket
<1>5. PICK b \in DOMAIN Edges : b = P99Bucket(w)
  BY <1>1, <1>2, <1>4 DEF Bucket
<1>6. /\ P99(w).num \in Nat /\ P99(w).den \in Nat /\ P99(w).den > 0
      /\ Edges[b] \in Nat /\ P99(w).num <= Edges[b] * P99(w).den
  BY <1>5, InsideBucket
<1>7. Edges[b] + 1 <= x
  BY <1>1, <1>4, <1>5
<1>8. (Edges[b] + 1) * P99(w).den <= x * P99(w).den
  BY <1>6, <1>7
<1>9. /\ (Edges[b] + 1) * P99(w).den = Edges[b] * P99(w).den + P99(w).den
      /\ Edges[b] * P99(w).den \in Nat /\ x * P99(w).den \in Nat
  BY <1>6
<1> QED BY <1>6, <1>8, <1>9 DEF Below

-----------------------------------------------------------------------------
(* Every snapshot holds cumulative counts.                                 *)
CumulativeInv == \A i \in DOMAIN snapshots : Cumulative(snapshots[i].since)

(* Pushing a batch keeps the counts of every snapshot cumulative.          *)
LEMMA ObserveCumulative ==
    ASSUME TypeOK, CumulativeInv, NEW d \in Delays, NEW batch \in Batches, Observe(d, batch)
    PROVE  CumulativeInv'
<1> DEFINE aged == [i \in DOMAIN snapshots |->
                      [age   |-> snapshots[i].age + d,
                       since |-> [b \in Bucket |-> snapshots[i].since[b] + batch[b]]]]
           all  == Append(aged, [age |-> 0, since |-> Zero])
<1>1. Len(snapshots) \in Nat /\ DOMAIN snapshots = 1 .. Len(snapshots)
  BY DEF TypeOK
<1>2. Cumulative(batch)
  BY ObservationAssumption DEF Cumulative
<1>3. \A i \in DOMAIN snapshots : Cumulative(aged[i].since)
  <2> TAKE i \in DOMAIN snapshots
  <2> DEFINE s == snapshots[i].since
  <2>1. Cumulative(s)
    BY DEF CumulativeInv
  <2>2. aged[i].since = [b \in Bucket |-> s[b] + batch[b]]
    OBVIOUS
  <2> HIDE DEF s
  <2>3. Cumulative([b \in Bucket |-> s[b] + batch[b]])
    <3>1. /\ s \in [Bucket -> Nat] /\ batch \in [Bucket -> Nat]
          /\ \A b, c \in Bucket : b <= c => s[b] <= s[c] /\ batch[b] <= batch[c]
      BY <1>2, <2>1 DEF Cumulative
    <3>2. \A b \in Bucket : s[b] \in Nat /\ batch[b] \in Nat
      BY <3>1
    <3> QED BY <3>1, <3>2 DEF Cumulative
  <2> QED BY <2>2, <2>3
<1>4. Cumulative(Zero)
  BY DEF Cumulative, Zero
<1>5. aged \in Seq(Snapshot)
  <2>1. \A i \in DOMAIN snapshots : aged[i] \in Snapshot
    <3>1. \A i \in DOMAIN snapshots : snapshots[i] \in Snapshot
      BY DEF TypeOK
    <3>2. \A i \in DOMAIN snapshots : snapshots[i].age + d \in Nat
      BY <3>1, ObservationAssumption DEF Snapshot
    <3> QED BY <1>3, <3>2 DEF Snapshot, Cumulative
  <2> QED BY <1>1, <2>1
<1>6. Len(aged) = Len(snapshots)
  BY <1>1
<1> HIDE DEF aged
<1>7. /\ all \in Seq(Snapshot)
      /\ \A i \in DOMAIN all : Cumulative(all[i].since)
  <2>1. all \in Seq(Snapshot)
    BY <1>5, <1>4 DEF Cumulative, Snapshot
  <2>2. \A i \in 1 .. Len(all) : all[i] = IF i <= Len(aged) THEN aged[i] ELSE [age |-> 0, since |-> Zero]
    BY <1>5
  <2>3. DOMAIN all = 1 .. Len(all) /\ DOMAIN aged = 1 .. Len(aged) /\ Len(aged) \in Nat
    BY <1>5, <2>1
  <2> QED BY <1>1, <1>3, <1>4, <1>6, <2>1, <2>2, <2>3
<1>8. PICK i \in DOMAIN all : snapshots' = SubSeq(all, i, Len(all))
  BY DEF Observe, aged
<1> HIDE DEF all
<1>9. i \in 1 .. Len(all) /\ Len(all) \in Nat /\ DOMAIN all = 1 .. Len(all)
  BY <1>7, <1>8
<1>10. /\ DOMAIN snapshots' = 1 .. Len(all) - i + 1
       /\ \A j \in 1 .. Len(all) - i + 1 : snapshots'[j] = all[i + j - 1]
  BY <1>7, <1>8, <1>9
<1>11. \A j \in 1 .. Len(all) - i + 1 : i + j - 1 \in DOMAIN all
  BY <1>9
<1> QED BY <1>7, <1>10, <1>11 DEF CumulativeInv

(* What a tick sees, unless it is blind, is a cumulative window with       *)
(* observations.                                                           *)
LEMMA SeenWindow ==
    ASSUME TypeOK, CumulativeInv', Tick, ~Blind'
    PROVE  Cumulative(Window') /\ Total(Window') > 0
<1>1. snapshots' \in Seq(Snapshot) /\ ~(Len(snapshots') < 2) /\ ~(Total(Window') < 10)
  BY TickAges DEF Blind
<1>2. 1 \in DOMAIN snapshots' /\ Head(snapshots') = snapshots'[1]
  BY <1>1
<1>3. Cumulative(Window')
  BY <1>2 DEF CumulativeInv, Window
<1>4. Total(Window') \in Nat
  BY <1>3, ObservationAssumption DEF Cumulative, Total, Bucket, Inf
<1> QED BY <1>1, <1>3, <1>4

(* Interpolation and clamping never invent a verdict (aimd.py:144-149,     *)
(* 222-248), for every histogram, window and pair of thresholds.           *)
THEOREM Justified == Spec => []DecisionsJustified
<1> DEFINE Inv == CumulativeInv /\ DecisionsJustified
<1>1. Init => Inv
  BY DEF Init, CumulativeInv, DecisionsJustified
<1>2. TypeOK /\ Inv /\ [Next]_vars => Inv'
  <2> SUFFICES ASSUME TypeOK, Inv, [Next]_vars PROVE Inv'
    OBVIOUS
  <2>1. CASE Tick
    <3>1. CumulativeInv'
      BY <2>1, ObserveCumulative DEF Tick
    <3>2. ASSUME ~Blind' PROVE Cumulative(Window') /\ Total(Window') > 0
      BY <2>1, <3>1, <3>2, SeenWindow
    <3>3. Upper \in Nat /\ Lower \in Nat
      BY ControllerAssumption
    <3>4. ASSUME action' = "decrease", NEW b \in Finite, Edges[b] <= Upper
          PROVE  TailBeyond(Window', b)
      <4>1. ~Blind' /\ Above(P99(Window'), Upper)
        BY <2>1, <3>4 DEF Tick, HoldBlind, HoldCoolingDown, Decrease, Increase, HoldSteady
      <4> QED BY <3>2, <3>3, <3>4, <4>1, AboveIsSlow
    <3>5. ASSUME action' = "increase"
          PROVE  demand' /\ \A b \in Finite : Edges[b] >= Lower => ~TailBeyond(Window', b)
      <4>1. ~Blind' /\ demand' /\ Below(P99(Window'), Lower)
        BY <2>1, <3>5 DEF Tick, HoldBlind, HoldCoolingDown, Decrease, Increase, HoldSteady
      <4> QED BY <3>2, <3>3, <4>1, BelowIsFast
    <3>6. DecisionsJustified'
      BY <3>4, <3>5 DEF DecisionsJustified, TailBeyond, Finite, Total
    <3> QED BY <3>1, <3>6
  <2>2. CASE Stop \/ UNCHANGED vars
    BY <2>2 DEF Stop, vars, CumulativeInv, DecisionsJustified, Window
  <2> QED BY <2>1, <2>2 DEF Next
<1>3. Inv => DecisionsJustified
  OBVIOUS
<1> QED BY <1>1, <1>2, <1>3, TypeCorrect, PTL DEF Spec

(* Outside of a cooldown no overload, be it beyond the last edge, and with *)
(* demand no relaxed window is passed over (aimd.py:135-157, 222-248), for *)
(* every histogram, window and pair of thresholds.                         *)
THEOREM Timely == Spec => DecisionsTimely
<1>1. Init => CumulativeInv
  BY DEF Init, CumulativeInv
<1>2. TypeOK /\ CumulativeInv /\ [Next]_vars => CumulativeInv'
  <2> SUFFICES ASSUME TypeOK, CumulativeInv, [Next]_vars PROVE CumulativeInv'
    OBVIOUS
  <2>1. CASE Tick
    BY <2>1, ObserveCumulative DEF Tick
  <2>2. CASE Stop \/ UNCHANGED vars
    BY <2>2 DEF Stop, vars, CumulativeInv
  <2> QED BY <2>1, <2>2 DEF Next
<1>3. ASSUME TypeOK, CumulativeInv, CumulativeInv', [Next]_vars
      PROVE  [UNCHANGED stopped /\ ~CoolingDown =>
                /\ Overloaded' => action' = "decrease"
                /\ demand' /\ Relaxed' => action' = "increase"]_vars
  <2> SUFFICES ASSUME Next, UNCHANGED stopped, ~CoolingDown
               PROVE  /\ Overloaded' => action' = "decrease"
                      /\ demand' /\ Relaxed' => action' = "increase"
    BY <1>3
  <2>1. Tick
    BY DEF Next, Stop
  <2>2. Upper \in Nat /\ Lower \in Nat /\ Lower <= Upper
    BY ControllerAssumption
  <2>3. ~Blind' => Decrease \/ Increase \/ HoldSteady
    BY <2>1 DEF Tick, HoldBlind, HoldCoolingDown
  <2>4. ~Blind' => Cumulative(Window') /\ Total(Window') > 0
    BY <1>3, <2>1, SeenWindow
  <2>5. Overloaded' => ~Blind' /\ Above(P99(Window'), Upper) /\ ~Below(P99(Window'), Lower)
    <3> SUFFICES ASSUME Overloaded'
                 PROVE  ~Blind' /\ Above(P99(Window'), Upper) /\ ~Below(P99(Window'), Lower)
      OBVIOUS
    <3>1. PICK b \in Finite : Edges[b] > Upper /\ TailBeyond(Window', b)
      BY DEF Overloaded, TailBeyond, Finite, Total
    <3>2. ~Blind'
      BY DEF Overloaded
    <3>3. Above(P99(Window'), Upper)
      BY <2>2, <2>4, <3>1, <3>2, SlowIsAbove
    <3>4. ~Below(P99(Window'), Lower)
      <4> SUFFICES ASSUME Below(P99(Window'), Lower) PROVE FALSE
        OBVIOUS
      <4>1. Edges[b] \in Nat
        BY ObservationAssumption DEF Finite
      <4>2. Edges[b] >= Lower
        BY <2>2, <3>1, <4>1
      <4>3. ~TailBeyond(Window', b)
        BY <2>2, <2>4, <3>2, <4>2, BelowIsFast
      <4> QED BY <3>1, <4>3
    <3> QED BY <3>2, <3>3, <3>4
  <2>6. Relaxed' => ~Blind' /\ Below(P99(Window'), Lower) /\ ~Above(P99(Window'), Upper)
    <3> SUFFICES ASSUME Relaxed'
                 PROVE  ~Blind' /\ Below(P99(Window'), Lower) /\ ~Above(P99(Window'), Upper)
      OBVIOUS
    <3>1. PICK b \in Finite : Edges[b] < Lower /\ ~TailBeyond(Window', b)
      BY DEF Relaxed, TailBeyond, Finite, Total
    <3>2. ~Blind'
      BY DEF Relaxed
    <3>3. Below(P99(Window'), Lower)
      BY <2>2, <2>4, <3>1, <3>2, FastIsBelow
    <3>4. ~Above(P99(Window'), Upper)
      <4> SUFFICES ASSUME Above(P99(Window'), Upper) PROVE FALSE
        OBVIOUS
      <4>1. Edges[b] \in Nat
        BY ObservationAssumption DEF Finite
      <4>2. Edges[b] <= Upper
        BY <2>2, <3>1, <4>1
      <4>3. TailBeyond(Window', b)
        BY <2>2, <2>4, <3>2, <4>2, AboveIsSlow
      <4> QED BY <3>1, <4>3
    <3> QED BY <3>2, <3>3, <3>4
  <2> QED
    BY <2>3, <2>5, <2>6, Zenon DEF Decrease, Increase, HoldSteady
<1> QED BY <1>1, <1>2, <1>3, TypeCorrect, PTL DEF Spec, DecisionsTimely
===============================================================================
