---------------------------- MODULE WatcherProofs ----------------------------
(***************************************************************************)
(* The watcher counts the Ready endpoints right, for any cluster, any      *)
(* order of listing and any number of streams: TypeOK and CaughtUp.        *)
(***************************************************************************)
EXTENDS WorkerCapacityWatcher, FiniteSetTheorems, TLAPS

(* The Ready endpoints of a slice.                                         *)
Ready(eps) == {e \in DOMAIN eps : eps[e] = "true"}

(* They are finitely many.                                                 *)
LEMMA ReadyFinite ==
    ASSUME NEW eps \in Endpoints
    PROVE  IsFiniteSet(Ready(eps)) /\ CountReady(eps) \in Nat
           /\ CountReady(eps) = Cardinality(Ready(eps))
<1>1. Ready(eps) \in SUBSET Endpoint
  BY DEF Ready, Endpoints
<1>2. IsFiniteSet(Ready(eps))
  BY <1>1, WatcherAssumption, FS_Subset
<1> QED BY <1>2, FS_CardinalityType DEF CountReady, Ready

(* The elements that stand for a count per slice.                          *)
LEMMA UnitsOf ==
    ASSUME NEW c, NEW n, NEW k
    PROVE  <<n, k>> \in Units(c) <=> n \in DOMAIN c /\ k \in 1 .. c[n]
BY DEF Units

(* The total of finitely many counts is a number.                          *)
LEMMA TotalNat ==
    ASSUME NEW S \in SUBSET Slice, NEW c \in [S -> Nat]
    PROVE  IsFiniteSet(Units(c)) /\ Total(c) \in Nat
<1> DEFINE Blocks == {{n} \X (1 .. c[n]) : n \in S}
<1>1. IsFiniteSet(S)
  BY WatcherAssumption, FS_Subset
<1>2. IsFiniteSet(Blocks)
  <2> DEFINE block == [n \in S |-> {n} \X (1 .. c[n])]
  <2>1. block \in Surjection(S, Blocks)
    BY DEF Surjection
  <2> QED BY <1>1, <2>1, FS_Surjection
<1>3. \A B \in Blocks : IsFiniteSet(B)
  <2> SUFFICES ASSUME NEW n \in S PROVE IsFiniteSet({n} \X (1 .. c[n]))
    OBVIOUS
  <2>1. IsFiniteSet(1 .. c[n])
    BY FS_Interval
  <2> QED BY <2>1, FS_Singleton, FS_Product
<1>4. Units(c) = UNION Blocks
  BY DEF Units
<1>5. IsFiniteSet(Units(c))
  <2> HIDE DEF Blocks
  <2> QED BY <1>2, <1>3, <1>4, FS_UNION
<1> QED BY <1>5, FS_CardinalityType DEF Total

(* A total is the sum of the totals over a set of slices and the others.   *)
LEMMA TotalSplit ==
    ASSUME NEW S \in SUBSET Slice, NEW c \in [S -> Nat], NEW A \in SUBSET S
    PROVE  Total(c) = Total([n \in A |-> c[n]]) + Total([n \in S \ A |-> c[n]])
<1> DEFINE inside == [n \in A |-> c[n]]
           outside == [n \in S \ A |-> c[n]]
<1>1. inside \in [A -> Nat] /\ outside \in [S \ A -> Nat]
  OBVIOUS
<1>2. IsFiniteSet(Units(inside)) /\ IsFiniteSet(Units(outside))
      /\ Total(inside) \in Nat /\ Total(outside) \in Nat
  BY <1>1, TotalNat
<1>3. Units(c) = Units(inside) \cup Units(outside)
  BY DEF Units
<1>4. Units(inside) \cap Units(outside) = {}
  BY DEF Units
<1>5. Cardinality(Units(c)) = Cardinality(Units(inside)) + Cardinality(Units(outside))
  <2> DEFINE U == Units(inside)
             V == Units(outside)
  <2>1. Cardinality({}) = 0
    BY FS_EmptySet
  <2>2. Cardinality(U) \in Nat /\ Cardinality(V) \in Nat
    BY <1>2 DEF Total
  <2>3. U \cap V = {} /\ IsFiniteSet(U) /\ IsFiniteSet(V)
    BY <1>2, <1>4
  <2> HIDE DEF U, V
  <2>4. Cardinality(U \cup V)
            = Cardinality(U) + Cardinality(V) - Cardinality(U \cap V)
    BY <2>3, FS_Union, Zenon
  <2>5. Cardinality(U \cap V) = 0
    BY <2>1, <2>3, Zenon
  <2>6. Cardinality(U \cup V) = Cardinality(U) + Cardinality(V)
    BY <2>2, <2>4, <2>5
  <2> QED BY <1>3, <2>6 DEF U, V
<1> QED BY <1>5 DEF Total

(* Counted slice by slice, the Ready endpoints are those of the cluster.   *)
LEMMA TotalReady ==
    ASSUME NEW S \in SUBSET Slice, cluster \in [S -> Endpoints]
    PROVE  Total([n \in S |-> CountReady(cluster[n])]) = ReadyTotal
<1> DEFINE c == [n \in S |-> CountReady(cluster[n])]
           pairs == {p \in Slice \X Endpoint :
                        /\ p[1] \in DOMAIN cluster /\ p[2] \in DOMAIN cluster[p[1]]
                        /\ cluster[p[1]][p[2]] = "true"}
           number == [n \in S |-> CHOOSE f :
                         f \in Bijection(1 .. c[n], Ready(cluster[n]))]
           place == [u \in Units(c) |-> <<u[1], number[u[1]][u[2]]>>]
<1>1. c \in [S -> Nat]
  BY ReadyFinite
<1>2. ASSUME NEW n \in S
      PROVE  /\ number[n] \in [1 .. c[n] -> Ready(cluster[n])]
             /\ \A j, k \in 1 .. c[n] : number[n][j] = number[n][k] => j = k
             /\ \A e \in Ready(cluster[n]) : \E k \in 1 .. c[n] : number[n][k] = e
  <2>1. ExistsBijection(1 .. c[n], Ready(cluster[n]))
    BY ReadyFinite, FS_CardinalityType
  <2>2. number[n] \in Bijection(1 .. c[n], Ready(cluster[n]))
    BY <2>1 DEF ExistsBijection
  <2> HIDE DEF number, c
  <2> QED BY <2>2 DEF Bijection, Injection, Surjection, IsInjective
<1> HIDE DEF number
<1>3. \A u \in Units(c) : /\ u[1] \in S /\ u[2] \in 1 .. c[u[1]]
                          /\ u = <<u[1], u[2]>>
  BY DEF Units
<1>4. \A p \in pairs : /\ p[1] \in S /\ p[2] \in Ready(cluster[p[1]])
                       /\ p = <<p[1], p[2]>>
  BY DEF Ready
<1>5. \A n \in S : \A e \in Ready(cluster[n]) : <<n, e>> \in pairs
  <2> SUFFICES ASSUME NEW n \in S, NEW e \in Ready(cluster[n])
               PROVE  <<n, e>> \in pairs
    OBVIOUS
  <2>1. cluster[n] \in Endpoints
    OBVIOUS
  <2>2. e \in DOMAIN cluster[n] /\ e \in Endpoint /\ cluster[n][e] = "true"
    BY <2>1 DEF Ready, Endpoints
  <2> QED BY <2>2
<1>6. ASSUME NEW u \in Units(c) PROVE place[u] \in pairs
  <2>1. number[u[1]][u[2]] \in Ready(cluster[u[1]])
    <3> DEFINE n == u[1]
               k == u[2]
    <3>1. n \in S /\ k \in 1 .. c[n]
      BY <1>3
    <3> HIDE DEF n, k, c
    <3>2. number[n] \in [1 .. c[n] -> Ready(cluster[n])]
      BY <1>2, <3>1
    <3>3. number[n][k] \in Ready(cluster[n])
      BY <3>1, <3>2
    <3> QED BY <3>3 DEF n, k
  <2>2. <<u[1], number[u[1]][u[2]]>> \in pairs
    BY <1>3, <1>5, <2>1
  <2> QED BY <2>2
<1>7. ASSUME NEW u \in Units(c), NEW v \in Units(c), place[u] = place[v]
      PROVE  u = v
  <2>1. u[1] = v[1] /\ number[u[1]][u[2]] = number[u[1]][v[2]]
    BY <1>7
  <2>2. u[2] = v[2]
    BY <1>2, <1>3, <2>1
  <2> QED BY <1>3, <2>1, <2>2
<1>8. ASSUME NEW p \in pairs PROVE \E u \in Units(c) : place[u] = p
  <2>1. PICK k \in 1 .. c[p[1]] : number[p[1]][k] = p[2]
    BY <1>2, <1>4
  <2>2. <<p[1], k>> \in Units(c)
    BY <1>4, <2>1, UnitsOf
  <2> QED BY <1>4, <2>1, <2>2
<1>9. place \in Bijection(Units(c), pairs)
  <2> HIDE DEF number, pairs, c
  <2>1. place \in [Units(c) -> pairs]
    BY <1>6
  <2> QED BY <1>7, <1>8, <2>1 DEF Bijection, Injection, Surjection, IsInjective
<1>10. Cardinality(pairs) = Cardinality(Units(c))
  <2>1. IsFiniteSet(Units(c))
    BY <1>1, TotalNat
  <2> HIDE DEF number, pairs, c, place
  <2> QED BY <1>9, <2>1, FS_Bijection DEF ExistsBijection
<1> QED BY <1>10 DEF Total, ReadyTotal

-----------------------------------------------------------------------------
(* A listing names exactly the slices that exist, as they are.             *)
LEMMA ListingComplete ==
    ASSUME TypeOK, NEW l \in Listings
    PROVE  /\ l \in Seq(Event)
           /\ \A i \in DOMAIN l : /\ l[i].type = "MODIFIED" /\ l[i].name \in DOMAIN cluster
                                  /\ l[i].object = cluster[l[i].name]
           /\ \A n \in DOMAIN cluster : \E i \in DOMAIN l : l[i].name = n
<1> DEFINE S == DOMAIN cluster
           D == 1 .. Cardinality(S)
<1>1. S \in SUBSET Slice /\ cluster \in [S -> Endpoints]
  BY DEF TypeOK
<1>2. IsFiniteSet(S) /\ Cardinality(S) \in Nat
  BY <1>1, WatcherAssumption, FS_Subset, FS_CardinalityType
<1>3. PICK order \in SetToSeqs(S) : l = [i \in DOMAIN order |-> Present(order[i])]
  BY DEF Listings
<1>4. order \in [D -> S] /\ \A i, j \in D : i # j => order[i] # order[j]
  BY <1>3 DEF SetToSeqs
<1>5. order \in Injection(D, S)
  BY <1>4 DEF Injection, IsInjective
<1>6. Cardinality(D) = Cardinality(S)
  BY <1>2, FS_Interval
<1>7. order \in Surjection(D, S)
  <2> HIDE DEF D, S
  <2> QED BY <1>2, <1>5, <1>6, FS_Injection
<1>8. \A n \in S : \E i \in D : order[i] = n
  BY <1>7 DEF Surjection
<1>9. DOMAIN l = D /\ \A i \in D : l[i] = Present(order[i])
  BY <1>3, <1>4
<1>10. \A n \in S : Present(n) \in Event
  BY <1>1 DEF Present, Event
<1>11. l \in [D -> Event]
  <2>1. \A i \in D : order[i] \in S
    BY <1>4
  <2> HIDE DEF D, S
  <2>2. l = [i \in D |-> Present(order[i])]
    BY <1>3, <1>4
  <2> QED BY <1>10, <2>1, <2>2
<1>12. l \in Seq(Event)
  <2> HIDE DEF S
  <2> QED BY <1>2, <1>11
<1> HIDE DEF D
<1> QED BY <1>4, <1>8, <1>9, <1>12 DEF Present

(* An event, handled, leaves counts of slices.                             *)
LEMMA CountsTyped ==
    ASSUME TypeOK, ConsumeEvent
    PROVE  \E S \in SUBSET Slice : counts' \in [S -> Nat]
<1> DEFINE ev == Head(feed)
<1>1. ev \in Event
  BY DEF TypeOK, ConsumeEvent
<1>2. ev.name \in Slice /\ CountReady(ev.object) \in Nat
  BY <1>1, ReadyFinite DEF Event
<1>3. PICK S \in SUBSET Slice : counts \in [S -> Nat]
  BY DEF TypeOK
<1>4. CASE ev.type = "DELETED"
  <2>1. counts' = [n \in S \ {ev.name} |-> counts[n]]
    BY <1>3, <1>4 DEF ConsumeEvent
  <2>2. counts' \in [S \ {ev.name} -> Nat]
    BY <1>3, <2>1
  <2> QED BY <2>2
<1>5. CASE ev.type # "DELETED"
  <2>1. counts' = [n \in S \cup {ev.name} |->
                      IF n = ev.name THEN CountReady(ev.object) ELSE counts[n]]
    BY <1>3, <1>5 DEF ConsumeEvent
  <2> HIDE DEF ev
  <2>2. counts' \in [S \cup {ev.name} -> Nat]
    BY <1>2, <1>3, <2>1
  <2> QED BY <1>2, <2>2
<1> QED BY <1>4, <1>5

(* The parts of TypeOK.                                                    *)
ClusterOK == \E S \in SUBSET Slice : cluster \in [S -> Endpoints]
CountsOK == \E S \in SUBSET Slice : counts \in [S -> Nat]
FeedOK == feed \in Seq(Event)
BoundsOK ==
    /\ pc \in {"opening", "consuming", "backoff", "aborted", "stopped"}
    /\ lastObserved \in Nat \cup {-1} /\ numWorkers \in Nat
    /\ changes \in 0 .. MaxChanges /\ ends \in 0 .. MaxEnds

(* The type invariant is the four parts together.                          *)
LEMMA TypeParts == TypeOK <=> ClusterOK /\ CountsOK /\ FeedOK /\ BoundsOK
BY DEF TypeOK, ClusterOK, CountsOK, FeedOK, BoundsOK

(* The same in the next state.                                             *)
LEMMA NextTypeParts ==
    TypeOK' <=> ClusterOK' /\ CountsOK' /\ FeedOK' /\ BoundsOK'
BY DEF TypeOK, ClusterOK, CountsOK, FeedOK, BoundsOK

(* Every step keeps the types.                                             *)
LEMMA TypeStep ==
    ASSUME TypeOK, [Next]_vars
    PROVE  TypeOK'
<1> USE WatcherAssumption, TypeParts, NextTypeParts
<1>1. UNCHANGED cluster => ClusterOK'
  BY DEF ClusterOK
<1>2. UNCHANGED counts => CountsOK'
  BY DEF CountsOK
<1>3. feed' = <<>> => FeedOK'
  BY DEF FeedOK
<1>4. UNCHANGED feed => FeedOK'
  BY DEF FeedOK
<1>5. ASSUME NEW n \in Slice, DeleteSlice(n) PROVE TypeOK'
  <2>1. FeedOK'
    <3>1. [type |-> "DELETED", name |-> n, object |-> cluster[n]] \in Event
      BY <1>5 DEF DeleteSlice, Event, ClusterOK
    <3> QED BY <1>5, <3>1 DEF DeleteSlice, Report, FeedOK
  <2>2. ClusterOK'
    <3>1. PICK S \in SUBSET Slice : cluster \in [S -> Endpoints]
      BY DEF ClusterOK
    <3>2. cluster' \in [S \ {n} -> Endpoints]
      BY <1>5, <3>1 DEF DeleteSlice
    <3> QED BY <3>2 DEF ClusterOK
  <2>3. BoundsOK'
    BY <1>5 DEF DeleteSlice, BoundsOK
  <2> QED BY <1>2, <1>5, <2>1, <2>2, <2>3 DEF DeleteSlice
<1>6. ASSUME NEW n \in Slice, NEW eps \in Endpoints, PutSlice(n, eps)
      PROVE  TypeOK'
  <2>1. FeedOK'
    <3>1. [type |-> "MODIFIED", name |-> n, object |-> eps] \in Event
      BY DEF Event
    <3> QED BY <1>6, <3>1 DEF PutSlice, Report, FeedOK
  <2>2. ClusterOK'
    <3>1. PICK S \in SUBSET Slice : cluster \in [S -> Endpoints]
      BY DEF ClusterOK
    <3>2. cluster' \in [S \cup {n} -> Endpoints]
      BY <1>6, <3>1 DEF PutSlice
    <3>3. S \cup {n} \in SUBSET Slice
      OBVIOUS
    <3> QED BY <3>2, <3>3 DEF ClusterOK
  <2>3. BoundsOK'
    BY <1>6 DEF PutSlice, BoundsOK
  <2> QED BY <1>2, <1>6, <2>1, <2>2, <2>3 DEF PutSlice
<1>7. CASE StreamOpens
  <2>1. FeedOK'
    BY <1>7, ListingComplete DEF StreamOpens, FeedOK
  <2>2. BoundsOK'
    BY <1>7 DEF StreamOpens, BoundsOK
  <2> QED BY <1>1, <1>2, <1>7, <2>1, <2>2 DEF StreamOpens
<1>8. CASE ConsumeEvent
  <2>1. CountsOK'
    BY <1>8, CountsTyped DEF CountsOK
  <2>2. Total(counts') \in Nat
    BY <2>1, TotalNat DEF CountsOK
  <2>3. FeedOK'
    BY <1>8 DEF ConsumeEvent, FeedOK
  <2>4. BoundsOK'
    BY <1>8, <2>2 DEF ConsumeEvent, BoundsOK
  <2> QED BY <1>1, <1>8, <2>1, <2>3, <2>4 DEF ConsumeEvent
<1>9. CASE BackoffEnds
  <2>1. BoundsOK'
    BY <1>9 DEF BackoffEnds, BoundsOK
  <2> QED BY <1>1, <1>2, <1>4, <1>9, <2>1 DEF BackoffEnds
<1>10. ASSUME NEW phase \in {"opening", "backoff", "aborted"}, StreamEndsIn(phase)
       PROVE  TypeOK'
  <2>1. BoundsOK'
    BY <1>10 DEF StreamEndsIn, BoundsOK
  <2> QED BY <1>1, <1>2, <1>3, <1>10, <2>1 DEF StreamEndsIn
<1>11. CASE Stop
  <2>1. BoundsOK'
    BY <1>11 DEF Stop, BoundsOK
  <2> QED BY <1>1, <1>2, <1>3, <1>11, <2>1 DEF Stop
<1>12. CASE UNCHANGED vars
  <2>1. BoundsOK'
    BY <1>12 DEF vars, BoundsOK
  <2> QED BY <1>1, <1>2, <1>4, <1>12, <2>1 DEF vars
<1> QED
  BY <1>5, <1>6, <1>7, <1>8, <1>9, <1>10, <1>11, <1>12
  DEF Next, WatcherStep, StreamCloses, StreamFails, AuthFails

(* The watcher keeps its types; its total is always a number of endpoints, *)
(* whatever events arrive (watcher.py:197-214).                            *)
THEOREM TypeCorrect == Spec => []TypeOK
<1>1. Init => TypeOK
  <2> SUFFICES ASSUME Init PROVE TypeOK
    OBVIOUS
  <2>1. <<>> \in [{} -> Nat]
    BY SMT
  <2>2. <<>> \in Seq(Event)
    OBVIOUS
  <2>3. CountsOK
    BY <2>1 DEF Init, CountsOK
  <2>4. ClusterOK /\ FeedOK /\ BoundsOK
    BY <2>2, WatcherAssumption DEF Init, ClusterOK, FeedOK, BoundsOK
  <2> QED BY <2>3, <2>4, TypeParts
<1>2. TypeOK /\ [Next]_vars => TypeOK'
  BY TypeStep
<1> QED BY <1>1, <1>2, PTL DEF Spec

-----------------------------------------------------------------------------
(* An event says how its slice is now.                                     *)
Tells(ev) ==
    IF ev.type = "DELETED" THEN ev.name \notin DOMAIN cluster
    ELSE ev.name \in DOMAIN cluster /\ ev.object = cluster[ev.name]

(* Event i is the last in the feed about its slice.                        *)
Latest(i) == \A j \in DOMAIN feed : i < j => feed[j].name # feed[i].name

(* A slice that exists is counted as it is, or an event about it is due.   *)
Accounted(n) ==
    (\A i \in DOMAIN feed : feed[i].name # n) =>
        n \in DOMAIN counts /\ counts[n] = CountReady(cluster[n])

(* With a stream open, the feed ends in the truth about every slice.       *)
FeedInv ==
    pc = "consuming" =>
        /\ \A i \in DOMAIN feed : Latest(i) => Tells(feed[i])
        /\ \A n \in DOMAIN cluster : Accounted(n)

(* num_workers follows the counts.                                         *)
SyncInv ==
    lastObserved # -1 => numWorkers = lastObserved /\ lastObserved = Total(counts)

(* Init establishes both: no stream is open and nothing was observed.      *)
LEMMA InitWatcherInv == Init => FeedInv /\ SyncInv
BY DEF Init, FeedInv, SyncInv

(* Only the handling of an event touches the counts and what they set.     *)
LEMMA SyncStep ==
    ASSUME TypeOK, SyncInv, [Next]_vars
    PROVE  SyncInv'
<1>1. CASE ConsumeEvent
  <2>1. Total(counts') \in Nat
    <3>1. \E S \in SUBSET Slice : counts' \in [S -> Nat]
      BY <1>1, CountsTyped
    <3> QED BY <3>1, TotalNat
  <2>2. lastObserved' = Total(counts')
        /\ numWorkers' = IF Total(counts') # lastObserved THEN Total(counts') ELSE numWorkers
    BY <1>1 DEF ConsumeEvent
  <2>3. Total(counts') # -1
    BY <2>1
  <2> QED BY <2>2, <2>3 DEF SyncInv
<1>2. CASE UNCHANGED <<counts, lastObserved, numWorkers>>
  BY <1>2 DEF SyncInv
<1> QED
  BY <1>1, <1>2 DEF Next, DeleteSlice, PutSlice, WatcherStep, StreamOpens, BackoffEnds,
     StreamCloses, StreamFails, AuthFails, StreamEndsIn, Stop, vars

(* A change of slice n is reported last.                                   *)
LEMMA ReportStep ==
    ASSUME TypeOK, FeedInv, pc = "consuming", UNCHANGED <<pc, counts>>,
           NEW ev \in Event, feed' = Append(feed, ev), Tells(ev)',
           DOMAIN cluster' \ {ev.name} = DOMAIN cluster \ {ev.name},
           \A m \in DOMAIN cluster \ {ev.name} : cluster'[m] = cluster[m]
    PROVE  FeedInv'
<1>1. feed \in Seq(Event) /\ Len(feed) \in Nat /\ DOMAIN feed = 1 .. Len(feed)
  BY DEF TypeOK
<1>2. /\ DOMAIN feed' = 1 .. Len(feed) + 1
      /\ \A i \in DOMAIN feed : feed'[i] = feed[i]
      /\ feed'[Len(feed) + 1] = ev
  BY <1>1
<1>3. ASSUME NEW i \in DOMAIN feed', Latest(i)'
      PROVE  Tells(feed[i])'
  <2>1. CASE i = Len(feed) + 1
    BY <1>2, <2>1
  <2>2. CASE i # Len(feed) + 1
    <3>1. i \in DOMAIN feed
      BY <1>1, <1>2, <2>2
    <3>2. feed[i].name # ev.name
      BY <1>1, <1>2, <1>3, <3>1 DEF Latest
    <3>3. Latest(i)
      BY <1>1, <1>2, <1>3, <3>1 DEF Latest
    <3>4. Tells(feed[i])
      BY <3>1, <3>3 DEF FeedInv
    <3>5. Tells(feed[i])'
      BY <1>2, <3>1, <3>2, <3>4 DEF Tells
    <3> QED BY <1>2, <3>1, <3>5
  <2> QED BY <2>1, <2>2
<1>4. ASSUME NEW n \in DOMAIN cluster', \A i \in DOMAIN feed' : feed'[i].name # n
      PROVE  n \in DOMAIN counts' /\ counts'[n] = CountReady(cluster'[n])
  <2>1. n # ev.name /\ n \in DOMAIN cluster /\ cluster'[n] = cluster[n]
    BY <1>1, <1>2, <1>4
  <2>2. \A i \in DOMAIN feed : feed[i].name # n
    BY <1>1, <1>2, <1>4
  <2> QED BY <2>1, <2>2 DEF FeedInv, Accounted
<1> QED BY <1>3, <1>4 DEF FeedInv, Accounted

(* Handling the first event keeps the account of every slice.              *)
LEMMA ConsumeStep ==
    ASSUME TypeOK, FeedInv, ConsumeEvent
    PROVE  FeedInv'
<1> DEFINE ev == Head(feed)
<1>1. /\ feed \in Seq(Event) /\ feed # <<>> /\ feed' = Tail(feed)
      /\ pc = "consuming" /\ UNCHANGED cluster
  BY DEF TypeOK, ConsumeEvent
<1>2. /\ Len(feed) \in Nat \ {0} /\ DOMAIN feed = 1 .. Len(feed)
      /\ DOMAIN feed' = 1 .. Len(feed) - 1
      /\ \A i \in DOMAIN feed' : i + 1 \in DOMAIN feed /\ feed'[i] = feed[i + 1]
      /\ ev = feed[1]
  BY <1>1
<1>3. ASSUME NEW i \in DOMAIN feed', Latest(i)'
      PROVE  Tells(feed[i])'
  <2>1. \A j \in DOMAIN feed : i + 1 < j => feed[j].name # feed[i + 1].name
    <3> SUFFICES ASSUME NEW j \in DOMAIN feed, i + 1 < j
                 PROVE  feed[j].name # feed[i + 1].name
      OBVIOUS
    <3>1. j - 1 \in DOMAIN feed' /\ i < j - 1 /\ (j - 1) + 1 = j
      BY <1>2
    <3> QED BY <1>2, <1>3, <3>1 DEF Latest
  <2>2. Latest(i + 1)
    BY <2>1 DEF Latest
  <2>3. Tells(feed[i + 1])
    BY <1>1, <1>2, <2>2 DEF FeedInv
  <2> QED BY <1>1, <1>2, <2>3 DEF Tells
<1>4. ASSUME NEW n \in DOMAIN cluster, \A i \in DOMAIN feed' : feed'[i].name # n
      PROVE  n \in DOMAIN counts' /\ counts'[n] = CountReady(cluster[n])
  <2>1. \A j \in DOMAIN feed : 1 < j => feed[j].name # n
    <3> SUFFICES ASSUME NEW j \in DOMAIN feed, 1 < j
                 PROVE  feed[j].name # n
      OBVIOUS
    <3>1. j - 1 \in DOMAIN feed' /\ (j - 1) + 1 = j
      BY <1>2
    <3> QED BY <1>2, <1>4, <3>1
  <2>2. CASE ev.name = n
    <3>1. Latest(1) /\ 1 \in DOMAIN feed
      BY <1>2, <2>1, <2>2 DEF Latest
    <3>2. Tells(ev)
      BY <1>1, <1>2, <3>1 DEF FeedInv
    <3>3. ev.type # "DELETED" /\ ev.object = cluster[n]
      BY <2>2, <3>2 DEF Tells
    <3>4. counts' = [m \in DOMAIN counts \cup {n} |->
                        IF m = n THEN CountReady(cluster[n]) ELSE counts[m]]
      BY <2>2, <3>3 DEF ConsumeEvent
    <3> QED BY <3>4
  <2>3. CASE ev.name # n
    <3>1. \A j \in DOMAIN feed : feed[j].name # n
      BY <1>2, <2>1, <2>3
    <3>2. n \in DOMAIN counts /\ counts[n] = CountReady(cluster[n])
      BY <1>1, <3>1 DEF FeedInv, Accounted
    <3>3. \/ counts' = [m \in DOMAIN counts \ {ev.name} |-> counts[m]]
          \/ counts' = [m \in DOMAIN counts \cup {ev.name} |->
                           IF m = ev.name THEN CountReady(ev.object) ELSE counts[m]]
      BY DEF ConsumeEvent
    <3> QED BY <2>3, <3>2, <3>3
  <2> QED BY <2>2, <2>3
<1> QED BY <1>1, <1>3, <1>4 DEF FeedInv, Accounted

(* Every step keeps the account.                                           *)
LEMMA FeedStep ==
    ASSUME TypeOK, FeedInv, [Next]_vars
    PROVE  FeedInv'
<1>1. ASSUME NEW n \in Slice, DeleteSlice(n) PROVE FeedInv'
  <2>1. CASE pc = "consuming"
    <3>1. PICK ev \in Event : ev = [type |-> "DELETED", name |-> n, object |-> cluster[n]]
      <4>1. [type |-> "DELETED", name |-> n, object |-> cluster[n]] \in Event
        BY <1>1, TypeParts DEF DeleteSlice, Event, ClusterOK
      <4> QED BY <4>1
    <3>2. feed' = Append(feed, ev) /\ UNCHANGED <<pc, counts>>
      BY <1>1, <2>1, <3>1 DEF DeleteSlice, Report
    <3>3. /\ DOMAIN cluster' = DOMAIN cluster \ {n}
          /\ \A m \in DOMAIN cluster \ {n} : cluster'[m] = cluster[m]
      BY <1>1 DEF DeleteSlice
    <3>4. Tells(ev)'
      BY <3>1, <3>3 DEF Tells
    <3>5. ev.name = n
      BY <3>1
    <3> QED BY <2>1, <3>1, <3>2, <3>3, <3>4, <3>5, ReportStep
  <2>2. CASE pc # "consuming"
    BY <1>1, <2>2 DEF DeleteSlice, FeedInv
  <2> QED BY <2>1, <2>2
<1>2. ASSUME NEW n \in Slice, NEW eps \in Endpoints, PutSlice(n, eps)
      PROVE  FeedInv'
  <2>1. CASE pc = "consuming"
    <3>1. PICK ev \in Event : ev = [type |-> "MODIFIED", name |-> n, object |-> eps]
      BY DEF Event
    <3>2. feed' = Append(feed, ev) /\ UNCHANGED <<pc, counts>>
      BY <1>2, <2>1, <3>1 DEF PutSlice, Report
    <3>3. /\ DOMAIN cluster' = DOMAIN cluster \cup {n}
          /\ cluster'[n] = eps
          /\ \A m \in DOMAIN cluster \ {n} : cluster'[m] = cluster[m]
      BY <1>2 DEF PutSlice
    <3>4. Tells(ev)'
      BY <3>1, <3>3 DEF Tells
    <3>5. ev.name = n
      BY <3>1
    <3> QED BY <2>1, <3>1, <3>2, <3>3, <3>4, <3>5, ReportStep
  <2>2. CASE pc # "consuming"
    BY <1>2, <2>2 DEF PutSlice, FeedInv
  <2> QED BY <2>1, <2>2
<1>3. CASE StreamOpens
  <2>1. feed' \in Listings /\ UNCHANGED <<cluster, counts>>
    BY <1>3 DEF StreamOpens
  <2>2. /\ \A i \in DOMAIN feed' : /\ feed'[i].type = "MODIFIED"
                                   /\ feed'[i].name \in DOMAIN cluster
                                   /\ feed'[i].object = cluster[feed'[i].name]
        /\ \A n \in DOMAIN cluster : \E i \in DOMAIN feed' : feed'[i].name = n
    BY <2>1, ListingComplete
  <2> QED BY <2>1, <2>2 DEF FeedInv, Tells, Accounted
<1>4. CASE ConsumeEvent
  BY <1>4, ConsumeStep
<1>5. CASE BackoffEnds
  BY <1>5 DEF BackoffEnds, FeedInv
<1>6. CASE StreamCloses \/ StreamFails \/ AuthFails
  BY <1>6 DEF StreamCloses, StreamFails, AuthFails, StreamEndsIn, FeedInv
<1>7. CASE Stop
  BY <1>7 DEF Stop, FeedInv
<1>8. CASE UNCHANGED vars
  BY <1>8 DEF vars, FeedInv, Latest, Tells, Accounted
<1> QED BY <1>1, <1>2, <1>3, <1>4, <1>5, <1>6, <1>7, <1>8 DEF Next, WatcherStep

(* The invariant gives the property: the counts of the slices that exist   *)
(* add up to the Ready endpoints, the others are the stale ones.           *)
LEMMA InvCaughtUp == TypeOK /\ FeedInv /\ SyncInv => CaughtUp
<1> SUFFICES ASSUME TypeOK, FeedInv, SyncInv,
                    pc = "consuming", feed = <<>>, lastObserved # -1
             PROVE  numWorkers = ReadyTotal + StaleTotal
  BY DEF CaughtUp
<1> DEFINE S == DOMAIN cluster
           C == DOMAIN counts
<1>1. S \in SUBSET Slice /\ cluster \in [S -> Endpoints]
  BY TypeParts DEF ClusterOK
<1>2. C \in SUBSET Slice /\ counts \in [C -> Nat]
  BY TypeParts DEF CountsOK
<1>3. \A n \in S : n \in C /\ counts[n] = CountReady(cluster[n])
  BY DEF FeedInv, Accounted
<1>4. Stale = C \ S
  BY DEF Stale
<1>5. [n \in S |-> counts[n]] = [n \in S |-> CountReady(cluster[n])]
  BY <1>3
<1>6. S \in SUBSET C
  BY <1>3
<1>7. Total(counts) = Total([n \in S |-> counts[n]]) + Total([n \in C \ S |-> counts[n]])
  <2> HIDE DEF S, C
  <2> QED BY <1>2, <1>6, TotalSplit
<1>8. Total([n \in S |-> counts[n]]) = ReadyTotal
  <2> HIDE DEF S, C
  <2> QED BY <1>1, <1>5, TotalReady
<1>9. numWorkers = Total(counts)
  BY DEF SyncInv
<1> HIDE DEF S, C
<1> QED BY <1>4, <1>7, <1>8, <1>9 DEF StaleTotal

(* Once every event is handled, num_workers is the number of Ready         *)
(* endpoints plus the stale counts, for any cluster, any history of        *)
(* streams and any order of listing (watcher.py:197-214).                  *)
THEOREM CountsRight == Spec => []CaughtUp
<1>1. Init => FeedInv /\ SyncInv
  BY InitWatcherInv
<1>2. TypeOK /\ FeedInv /\ SyncInv /\ [Next]_vars => (FeedInv /\ SyncInv)'
  BY FeedStep, SyncStep
<1>3. TypeOK /\ FeedInv /\ SyncInv => CaughtUp
  BY InvCaughtUp
<1> QED BY <1>1, <1>2, <1>3, TypeCorrect, PTL DEF Spec
-----------------------------------------------------------------------------
(* What a new stream delivers repeats how the slices are.                  *)
LEMMA ListingRepeats ==
    ASSUME NEW l \in Listings
    PROVE  \A i \in DOMAIN l : /\ l[i].name \in DOMAIN cluster
                               /\ l[i] = Present(l[i].name)
<1>1. PICK order \in SetToSeqs(DOMAIN cluster) :
                l = [i \in DOMAIN order |-> Present(order[i])]
  BY DEF Listings
<1>2. \A i \in DOMAIN order : order[i] \in DOMAIN cluster
  BY <1>1 DEF SetToSeqs
<1> QED BY <1>1, <1>2 DEF Present

(* An event that repeats how its slice is changes nothing.                 *)
LEMMA RepeatChangesNothing ==
    ASSUME TypeOK, SyncInv, Steady, ConsumeEvent
    PROVE  counts' = counts /\ numWorkers' = numWorkers /\ Steady'
<1> DEFINE ev == Head(feed)
<1>1. /\ Len(feed) \in Nat \ {0} /\ DOMAIN feed = 1 .. Len(feed)
      /\ DOMAIN feed' = 1 .. Len(feed) - 1
      /\ \A i \in DOMAIN feed' : i + 1 \in DOMAIN feed /\ feed'[i] = feed[i + 1]
      /\ ev = feed[1] /\ 1 \in DOMAIN feed
  BY DEF TypeOK, ConsumeEvent
<1>2. ev.name \in DOMAIN cluster /\ ev = Present(ev.name)
  BY <1>1 DEF Steady
<1>3. ev.type = "MODIFIED" /\ ev.object = cluster[ev.name]
  BY <1>2 DEF Present
<1>4. ev.name \in DOMAIN counts /\ counts[ev.name] = CountReady(ev.object)
  BY <1>2, <1>3 DEF Steady
<1>5. counts' = counts
  <2>1. PICK S \in SUBSET Slice : counts \in [S -> Nat]
    BY DEF TypeOK
  <2>2. counts' = [n \in DOMAIN counts \cup {ev.name} |->
                      IF n = ev.name THEN CountReady(ev.object) ELSE counts[n]]
    BY <1>3 DEF ConsumeEvent
  <2> HIDE DEF ev
  <2> QED BY <1>4, <2>1, <2>2
<1>6. lastObserved = Total(counts)
  BY DEF Steady, SyncInv
<1>7. Total(counts) # -1 /\ lastObserved' = Total(counts') /\ UNCHANGED cluster
  BY <1>6 DEF Steady, ConsumeEvent
<1>8. numWorkers' = numWorkers
  BY <1>5, <1>6 DEF ConsumeEvent
<1>9. \A i \in DOMAIN feed' : /\ feed'[i].name \in DOMAIN cluster
                              /\ feed'[i] = Present(feed'[i].name)
  BY <1>1, <1>7 DEF Steady
<1>10. \A n \in DOMAIN cluster' :
          n \in DOMAIN counts' /\ counts'[n] = CountReady(cluster'[n])
  BY <1>5, <1>7 DEF Steady
<1>11. Steady'
  <2>1. lastObserved' # -1
    BY <1>5, <1>7
  <2>2. \A i \in DOMAIN feed' : Present(feed'[i].name)
            = [type |-> "MODIFIED", name |-> feed'[i].name, object |-> cluster'[feed'[i].name]]
    BY <1>7 DEF Present
  <2> HIDE DEF ev
  <2> QED BY <1>7, <1>9, <1>10, <2>1, <2>2 DEF Steady, Present
<1> QED BY <1>5, <1>8, <1>11

(* A watcher that has counted every slice holds num_workers still while    *)
(* the cluster does: no end, failure or reopening of a stream, and no      *)
(* order of the listing, moves it (watcher.py:107-131, 197-214).           *)
THEOREM ReconnectQuiet == Spec => ReconnectIsQuiet
<1>1. ASSUME TypeOK, SyncInv, [Next]_vars
      PROVE  [Steady /\ UNCHANGED cluster => numWorkers' = numWorkers /\ Steady']_vars
  <2> SUFFICES ASSUME Next, Steady, UNCHANGED cluster
               PROVE  numWorkers' = numWorkers /\ Steady'
    BY <1>1
  <2>1. ASSUME NEW n \in Slice, DeleteSlice(n) PROVE FALSE
    <3>1. n \in DOMAIN cluster /\ n \notin DOMAIN cluster'
      BY <2>1 DEF DeleteSlice
    <3> QED BY <3>1
  <2>2. ASSUME NEW n \in Slice, NEW eps \in Endpoints, PutSlice(n, eps) PROVE FALSE
    BY <2>2 DEF PutSlice
  <2>3. CASE StreamOpens
    <3>1. feed' \in Listings /\ UNCHANGED <<cluster, counts, lastObserved, numWorkers>>
      BY <2>3 DEF StreamOpens
    <3>2. PICK l \in Listings : l = feed'
      BY <3>1
    <3>3. \A i \in DOMAIN l : l[i].name \in DOMAIN cluster /\ l[i] = Present(l[i].name)
      BY ListingRepeats
    <3>4. Steady'
      BY <3>1, <3>2, <3>3 DEF Steady, Present
    <3> QED BY <3>1, <3>4
  <2>4. CASE ConsumeEvent
    BY <1>1, <2>4, RepeatChangesNothing
  <2>5. CASE BackoffEnds
    BY <2>5 DEF BackoffEnds, Steady, Present
  <2>6. CASE StreamCloses \/ StreamFails \/ AuthFails \/ Stop
    <3>1. feed' = <<>> /\ UNCHANGED <<cluster, counts, lastObserved, numWorkers>>
      BY <2>6 DEF StreamCloses, StreamFails, AuthFails, StreamEndsIn, Stop
    <3>2. DOMAIN feed' = {}
      BY <3>1
    <3> QED BY <3>1, <3>2 DEF Steady
  <2> QED BY <2>1, <2>2, <2>3, <2>4, <2>5, <2>6 DEF Next, WatcherStep
<1>2. Init => SyncInv
  BY InitWatcherInv
<1>3. TypeOK /\ SyncInv /\ [Next]_vars => SyncInv'
  BY SyncStep
<1> QED BY <1>1, <1>2, <1>3, TypeCorrect, PTL DEF Spec, ReconnectIsQuiet
=============================================================================
