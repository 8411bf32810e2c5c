----------------------------- MODULE GatewayProofs -----------------------------
(* The safety properties of the gateway, for every set of requests, every  *)
(* file, every length of the streams and every budget.                     *)
EXTENDS Gateway, FiniteSetTheorems, WellFoundedInduction, TLAPS

(* What a request's task awaits and where its iterators are.               *)
PathInv ==
    \A r \in Request :
        /\ at[r] \in {"new", "acquire", "body", "connect", "error"} => iter[r] = "none"
        /\ at[r] = "head" => iter[r] = "fresh"
        /\ at[r] = "stream" => iter[r] \in {"pulling", "yielded", "upclose", "clclose"}
        /\ at[r] = "last" => iter[r] = "over"
        /\ at[r] = "done" => iter[r] \notin {"fresh", "pulling"}
        /\ iter[r] = "none" => upstream[r] = "none"
        /\ iter[r] = "clclose" => upstream[r] = "closed"
        /\ iter[r] = "over" => upstream[r] \in {"closed", "unknown"}
        /\ iter[r] \notin {"none", "clclose", "over"} => upstream[r] = "open"

(* Who owns a slot: nobody before its dispatch, everybody while served,    *)
(* and after the end those whose iterators hold it still.                  *)
OwnInv ==
    CapsOn => \A r \in Request :
        /\ at[r] = "new" => own[r] = "none"
        /\ at[r] = "acquire" => own[r] \in {"asking", "owning"}
        /\ Served(r) => own[r] = "owning"
        /\ at[r] \in {"last", "error"} => own[r] \notin {"asking", "owning"}
        /\ at[r] = "done" => /\ own[r] # "asking"
                             /\ own[r] = "owning" <=> iter[r] \in {"yielded", "lost"}

(* The parts of the stream's samples: the outcome is counted where the     *)
(* `finally` begins.                                                       *)
SampleInv ==
    /\ SamplesTrue
    /\ \A r \in Request :
          outcome[r] # "none" => iter[r] \in {"upclose", "clclose", "over"}

(* What has been counted, opened and granted at each await, and after it.  *)
CountInv ==
    \A r \in Request :
        /\ at[r] = "new" => own[r] = "none"
        /\ at[r] \in {"new", "acquire", "error"} => client[r] = "none"
        /\ at[r] \in {"new", "acquire", "body", "connect", "head"} => code[r] = "exc"
        /\ at[r] \in {"stream", "last"} => code[r] \in Statuses
        /\ at[r] = "error" => /\ code[r] \in {"401", "504"}
                              /\ own[r] \in {"none", "refused", "leaked"}
        /\ at[r] = "done" /\ iter[r] = "none" =>
              /\ code[r] \in {"401", "504", "exc"}
              /\ code[r] # "exc" => client[r] = "none" /\ own[r] \in {"none", "refused", "leaked"}
        /\ at[r] = "done" /\ iter[r] # "none" =>
              code[r] \in Statuses \/ (code[r] = "exc" /\ iter[r] = "lost")
        /\ iter[r] = "none" => ttft[r] = 0

(* The order in which the lifespan starts and stops its tasks.             *)
LifespanInv ==
    /\ phase = "boot" => up = {} /\ ~closed
    /\ CapsOn /\ up # {} => "drain" \in up
    /\ closed => up \subseteq {"drain"}

-----------------------------------------------------------------------------
(* The configuration is read once.                                         *)
LEMMA ConfigFixed ==
  ASSUME [Next]_vars
  PROVE  raw' = raw /\ (CapsOn <=> CapsOn')
  <1>1. raw' = raw
    <2>1. ASSUME NEW r \in Request, ServerStep(r) PROVE raw' = raw
      BY <2>1 DEF ServerStep, lifespanVars, AcquireReturns, AcquireTimesOut, UpstreamAnswers,
         ProxyFails, ChunkArrives, UpstreamEnds, UpstreamBreaks, UpstreamCloses, ClientCloses,
         CloseFails, GuardFinalized, IteratorFinalized
    <2>2. ASSUME NEW r \in Request, ClientStep(r) \/ Dispatched(r) \/ AcquireCancelled(r)
          PROVE  raw' = raw
      BY <2>2 DEF ClientStep, lifespanVars, Arrive, BodyArrives, ProxyFails, HeadSent, HeadFails,
         ChunkSent, SendFails, ResponseEnds, Dispatched, AcquireCancelled
    <2>3. CASE Startup \/ ShutdownBegins \/ TaskStopped \/ ControllerResizes
      BY <2>3 DEF Startup, ShutdownBegins, TaskStopped, StopsNext, ControllerResizes
    <2> QED
      BY <2>1, <2>2, <2>3 DEF Next, vars, lifespanVars
  <1> QED
    BY <1>1 DEF CapsOn, registry

(* The pool's part of the types, and that its steps keep it.               *)
PoolTypes ==
    /\ own \in [Request -> Pool!Share]
    /\ avail \in Nat /\ debt \in Nat /\ used \in Int /\ budget \in Nat
    /\ closed \in BOOLEAN

(* Each operation of the pool keeps the types of the pool's variables.     *)
LEMMA PoolStepTypes ==
  ASSUME PoolTypes, Pool!Next \/ UNCHANGED poolVars
  PROVE  PoolTypes'
  <1>1. CASE UNCHANGED poolVars
    BY <1>1 DEF PoolTypes, poolVars
  <1>2. ASSUME NEW r \in Request, NEW share \in {"asking", "refused"}, Pool!Ask(r, share)
        PROVE  PoolTypes'
    BY <1>2 DEF PoolTypes, Pool!Share, Pool!Ask, Pool!Becomes
  <1>3. ASSUME NEW r \in Request, Pool!Grant(r) \/ Pool!GiveUp(r) \/ Pool!Leak(r)
        PROVE  PoolTypes'
    BY <1>3 DEF PoolTypes, Pool!Share, Pool!Grant, Pool!GiveUp, Pool!Leak, Pool!Becomes
  <1>4. ASSUME NEW r \in Request, Pool!Return(r) \/ Pool!Surplus(r) PROVE PoolTypes'
    BY <1>4 DEF PoolTypes, Pool!Share, Pool!Return, Pool!Surplus, Pool!Becomes, Pool!GiveBack
  <1>5. ASSUME NEW b \in Budgets, Pool!Resize(b) PROVE PoolTypes'
    BY <1>5, GatewayAssumption DEF PoolTypes, Pool!Resize
  <1>6. CASE Pool!Close
    BY <1>6 DEF PoolTypes, Pool!Close
  <1> QED
    BY <1>1, <1>2, <1>3, <1>4, <1>5, <1>6 DEF Pool!Next

-----------------------------------------------------------------------------
(* A request that is served, or whose iterators were dropped, returns its  *)
(* slot.                                                                   *)
LEMMA Returned ==
  ASSUME OwnInv, NEW r \in Request, Served(r) \/ Dropped(r), ReleaseSlot(r)
  PROVE  \/ CapsOn /\ Pool!Return(r)
         \/ ~CapsOn /\ UNCHANGED poolVars
  BY DEF OwnInv, Dropped, ReleaseSlot, Pool!Return

(* Every step of the gateway is a step of the pool or leaves it unchanged. *)
LEMMA StepKeepsProtocol ==
  ASSUME OwnInv, [Next]_vars
  PROVE  Pool!Next \/ UNCHANGED poolVars
  <1>1. ASSUME NEW r \in Request,
               AcquireReturns(r) \/ UpstreamAnswers(r) \/ ChunkArrives(r) \/ UpstreamEnds(r)
                 \/ UpstreamBreaks(r) \/ UpstreamCloses(r) \/ IteratorFinalized(r)
                 \/ BodyArrives(r) \/ HeadSent(r) \/ HeadFails(r) \/ ChunkSent(r)
                 \/ SendFails(r) \/ ResponseEnds(r)
        PROVE  UNCHANGED poolVars
    BY <1>1 DEF AcquireReturns, UpstreamAnswers, ChunkArrives, UpstreamEnds, UpstreamBreaks,
       UpstreamCloses, IteratorFinalized, BodyArrives, HeadSent, HeadFails, ChunkSent,
       SendFails, ResponseEnds
  <1>2. ASSUME NEW r \in Request,
               Arrive(r) \/ Dispatched(r) \/ AcquireTimesOut(r) \/ AcquireCancelled(r)
        PROVE  Pool!Next \/ UNCHANGED poolVars
    BY <1>2 DEF Arrive, Dispatched, AcquireTimesOut, AcquireCancelled, Pool!Next
  <1>3. ASSUME NEW r \in Request, ProxyFails(r) \/ GuardFinalized(r)
        PROVE  Pool!Next \/ UNCHANGED poolVars
    BY <1>3, Returned DEF ProxyFails, GuardFinalized, Served, Dropped, Pool!Next
  <1>4. ASSUME NEW r \in Request, ClientCloses(r) \/ CloseFails(r)
        PROVE  Pool!Next \/ UNCHANGED poolVars
    <2>1. PICK clean : IterOver(r, clean)
      BY <1>4 DEF ClientCloses, CloseFails
    <2> QED
      BY <2>1, Returned DEF IterOver, Served, Pool!Next
  <1>5. ASSUME Startup \/ ShutdownBegins \/ TaskStopped \/ ControllerResizes
        PROVE  Pool!Next \/ UNCHANGED poolVars
    BY <1>5 DEF Startup, ShutdownBegins, TaskStopped, StopsNext, ControllerResizes, Pool!Next
  <1> QED
    BY <1>1, <1>2, <1>3, <1>4, <1>5 DEF Next, ServerStep, ClientStep, vars

-----------------------------------------------------------------------------
(* The types of what the requests and the lifespan own.                    *)
LifespanTypes ==
    /\ raw \in RawConfigs
    /\ phase \in {"boot", "failed", "serving", "stopping", "down"}
    /\ up \subseteq {"drain", "aimd", "watcher"}
    /\ resizes \in 0 .. MaxResizes

RequestTypes ==
    /\ at \in [Request -> {"new", "acquire", "body", "connect", "head",
                           "stream", "last", "error", "done"}]
    /\ iter \in [Request -> {"none", "fresh", "pulling", "yielded", "orphan",
                             "upclose", "clclose", "over", "lost"}]
    /\ upstream \in [Request -> {"none", "open", "closed", "unknown"}]
    /\ client \in [Request -> {"none", "open", "closed", "unknown"}]
    /\ chunks \in [Request -> 0 .. MaxChunks]
    /\ ttft \in [Request -> {0, 1}]
    /\ outcome \in [Request -> {"none", "true", "false"}]
    /\ code \in [Request -> Codes]

(* The type invariant is the three parts together.                         *)
LEMMA TypesParts == TypeOK <=> LifespanTypes /\ RequestTypes /\ PoolTypes
  BY DEF TypeOK, LifespanTypes, RequestTypes, PoolTypes

(* Every step keeps the types of the variables of the lifespan.            *)
LEMMA LifespanTypesStep == LifespanTypes /\ [Next]_vars => LifespanTypes'
  <1> SUFFICES ASSUME LifespanTypes, [Next]_vars PROVE LifespanTypes'
    OBVIOUS
  <1>1. CASE Startup
    BY <1>1 DEF Startup, LifespanTypes
  <1>2. CASE ShutdownBegins \/ TaskStopped
    BY <1>2 DEF ShutdownBegins, TaskStopped, StopsNext, LifespanTypes
  <1>3. CASE ControllerResizes
    BY <1>3, GatewayAssumption DEF ControllerResizes, LifespanTypes
  <1>4. ASSUME NEW r \in Request, ServerStep(r) \/ ClientStep(r) \/ Dispatched(r) \/ AcquireCancelled(r)
        PROVE  UNCHANGED lifespanVars
    BY <1>4 DEF ServerStep, ClientStep, AcquireReturns, AcquireTimesOut, UpstreamAnswers,
       ProxyFails, ChunkArrives, UpstreamEnds, UpstreamBreaks, UpstreamCloses, ClientCloses,
       CloseFails, GuardFinalized, IteratorFinalized, Arrive, BodyArrives, HeadSent, HeadFails,
       ChunkSent, SendFails, ResponseEnds, Dispatched, AcquireCancelled
  <1>5. CASE UNCHANGED lifespanVars
    BY <1>5 DEF lifespanVars, LifespanTypes
  <1> QED
    BY <1>1, <1>2, <1>3, <1>4, <1>5 DEF Next, vars

(* Every step keeps the types of the variables of the requests.            *)
LEMMA RequestTypesStep == RequestTypes /\ [Next]_vars => RequestTypes'
  <1> SUFFICES ASSUME RequestTypes, [Next]_vars PROVE RequestTypes'
    OBVIOUS
  <1> USE DEF RequestTypes, Codes, Goes, Turns
  <1>1. CASE UNCHANGED <<at, streamVars, code>>
    BY <1>1 DEF streamVars
  <1>2. ASSUME NEW r \in Request, Arrive(r) \/ AcquireReturns(r) \/ AcquireTimesOut(r)
        PROVE  RequestTypes'
    BY <1>2 DEF Arrive, AcquireReturns, AcquireTimesOut, StartSeen, streamVars
  <1>3. ASSUME NEW r \in Request, AcquireCancelled(r) \/ ProxyFails(r) \/ ResponseEnds(r)
        PROVE  RequestTypes'
    BY <1>3 DEF AcquireCancelled, ProxyFails, ResponseEnds, Crashes, streamVars
  <1>4. ASSUME NEW r \in Request, BodyArrives(r) \/ UpstreamAnswers(r)
        PROVE  RequestTypes'
    BY <1>4 DEF BodyArrives, UpstreamAnswers, StartSeen
  <1>5. ASSUME NEW r \in Request, HeadSent(r) \/ HeadFails(r) \/ ChunkSent(r) \/ SendFails(r)
        PROVE  RequestTypes'
    BY <1>5 DEF HeadSent, HeadFails, ChunkSent, SendFails, StartSeen, streamVars
  <1>6. ASSUME NEW r \in Request, ChunkArrives(r) PROVE RequestTypes'
    BY <1>6, GatewayAssumption DEF ChunkArrives, ObservesTTFT, First
  <1>7. ASSUME NEW r \in Request, UpstreamEnds(r) \/ UpstreamBreaks(r) \/ IteratorFinalized(r)
        PROVE  RequestTypes'
    BY <1>7 DEF UpstreamEnds, UpstreamBreaks, IteratorFinalized, Finally, ObservesTTFT, First
  <1>8. ASSUME NEW r \in Request,
               UpstreamCloses(r) \/ ClientCloses(r) \/ CloseFails(r) \/ GuardFinalized(r)
        PROVE  RequestTypes'
    BY <1>8 DEF UpstreamCloses, ClientCloses, CloseFails, GuardFinalized, IterOver
  <1>9. ASSUME Startup \/ ShutdownBegins \/ TaskStopped \/ ControllerResizes
                 \/ \E r \in Request : Dispatched(r)
        PROVE  UNCHANGED <<at, streamVars, code>>
    BY <1>9 DEF Startup, ShutdownBegins, TaskStopped, StopsNext, ControllerResizes, Dispatched
  <1> HIDE DEF RequestTypes
  <1> QED
    BY <1>1, <1>2, <1>3, <1>4, <1>5, <1>6, <1>7, <1>8, <1>9
    DEF Next, ServerStep, ClientStep, vars

-----------------------------------------------------------------------------
(* The steps that move neither a task nor an iterator.                     *)
LEMMA Outside ==
  ASSUME Startup \/ ShutdownBegins \/ TaskStopped \/ ControllerResizes
           \/ (\E r \in Request : Dispatched(r)) \/ UNCHANGED vars
  PROVE  UNCHANGED <<at, streamVars, code>>
  BY DEF Startup, ShutdownBegins, TaskStopped, StopsNext, ControllerResizes, Dispatched, vars

(* Tasks and iterators keep in step.                                       *)
LEMMA PathStep == RequestTypes /\ PathInv /\ [Next]_vars => PathInv'
  <1> SUFFICES ASSUME RequestTypes, PathInv, [Next]_vars PROVE PathInv'
    OBVIOUS
  <1> USE DEF RequestTypes, PathInv, Goes, Turns
  <1>1. CASE UNCHANGED <<at, streamVars, code>>
    BY <1>1 DEF streamVars
  <1>2. ASSUME NEW r \in Request, Arrive(r) \/ AcquireReturns(r) \/ AcquireTimesOut(r)
        PROVE  PathInv'
    BY <1>2 DEF Arrive, AcquireReturns, AcquireTimesOut, streamVars
  <1>3. ASSUME NEW r \in Request, AcquireCancelled(r) \/ ProxyFails(r) \/ ResponseEnds(r)
        PROVE  PathInv'
    BY <1>3 DEF AcquireCancelled, ProxyFails, ResponseEnds, Crashes, streamVars
  <1>4. ASSUME NEW r \in Request, BodyArrives(r) \/ UpstreamAnswers(r)
        PROVE  PathInv'
    BY <1>4 DEF BodyArrives, UpstreamAnswers
  <1>5. ASSUME NEW r \in Request, HeadSent(r) \/ HeadFails(r) \/ ChunkSent(r) \/ SendFails(r)
        PROVE  PathInv'
    BY <1>5 DEF HeadSent, HeadFails, ChunkSent, SendFails, streamVars
  <1>6. ASSUME NEW r \in Request, ChunkArrives(r) PROVE PathInv'
    BY <1>6 DEF ChunkArrives
  <1>7. ASSUME NEW r \in Request, UpstreamEnds(r) \/ UpstreamBreaks(r) \/ IteratorFinalized(r)
        PROVE  PathInv'
    BY <1>7 DEF UpstreamEnds, UpstreamBreaks, IteratorFinalized, Finally
  <1>8. ASSUME NEW r \in Request, UpstreamCloses(r) \/ GuardFinalized(r)
        PROVE  PathInv'
    BY <1>8 DEF UpstreamCloses, GuardFinalized
  <1>9. ASSUME NEW r \in Request, ClientCloses(r) \/ CloseFails(r)
        PROVE  PathInv'
    BY <1>9 DEF ClientCloses, CloseFails, IterOver
  <1> HIDE DEF PathInv
  <1> QED
    BY <1>1, <1>2, <1>3, <1>4, <1>5, <1>6, <1>7, <1>8, <1>9, Outside
    DEF Next, ServerStep, ClientStep

(* What iterator() opened is closed behind it.                             *)
LEMMA NothingLeftOpenStep ==
  RequestTypes /\ PathInv /\ NothingLeftOpen /\ [Next]_vars => NothingLeftOpen'
  <1> SUFFICES ASSUME RequestTypes, PathInv, NothingLeftOpen, [Next]_vars
               PROVE  NothingLeftOpen'
    OBVIOUS
  <1> USE DEF RequestTypes, NothingLeftOpen, Goes, Turns
  <1>1. CASE UNCHANGED <<iter, upstream, client>>
    BY <1>1
  <1>2. ASSUME NEW r \in Request, BodyArrives(r) \/ UpstreamAnswers(r)
        PROVE  NothingLeftOpen'
    BY <1>2 DEF BodyArrives, UpstreamAnswers, PathInv
  <1>3. ASSUME NEW r \in Request,
               HeadSent(r) \/ HeadFails(r) \/ ChunkSent(r) \/ ChunkArrives(r) \/ GuardFinalized(r)
        PROVE  NothingLeftOpen'
    BY <1>3 DEF HeadSent, HeadFails, ChunkSent, ChunkArrives, GuardFinalized
  <1>4. ASSUME NEW r \in Request, UpstreamEnds(r) \/ UpstreamBreaks(r) \/ IteratorFinalized(r)
        PROVE  NothingLeftOpen'
    BY <1>4 DEF UpstreamEnds, UpstreamBreaks, IteratorFinalized, Finally
  <1>5. ASSUME NEW r \in Request, UpstreamCloses(r) \/ ClientCloses(r) \/ CloseFails(r)
        PROVE  NothingLeftOpen'
    BY <1>5 DEF UpstreamCloses, ClientCloses, CloseFails, IterOver, PathInv
  <1>6. ASSUME NEW r \in Request,
               Arrive(r) \/ AcquireReturns(r) \/ AcquireTimesOut(r) \/ AcquireCancelled(r)
                 \/ ProxyFails(r) \/ ResponseEnds(r) \/ SendFails(r)
        PROVE  UNCHANGED <<iter, upstream, client>>
    BY <1>6 DEF Arrive, AcquireReturns, AcquireTimesOut, AcquireCancelled, ProxyFails,
       ResponseEnds, SendFails, streamVars
  <1> HIDE DEF NothingLeftOpen
  <1> QED
    BY <1>1, <1>2, <1>3, <1>4, <1>5, <1>6, Outside
    DEF Next, ServerStep, ClientStep, streamVars

-----------------------------------------------------------------------------
(* Every path of a request keeps its slot exactly as long as it is served. *)
LEMMA OwnStep ==
  RequestTypes /\ PoolTypes /\ PathInv /\ OwnInv /\ [Next]_vars => OwnInv'
  <1> SUFFICES ASSUME RequestTypes, PoolTypes, PathInv, OwnInv, [Next]_vars, CapsOn
               PROVE  /\ CapsOn'
                      /\ (\A r \in Request :
                            /\ at[r] = "new" => own[r] = "none"
                            /\ at[r] = "acquire" => own[r] \in {"asking", "owning"}
                            /\ Served(r) => own[r] = "owning"
                            /\ at[r] \in {"last", "error"} => own[r] \notin {"asking", "owning"}
                            /\ at[r] = "done" =>
                                 /\ own[r] # "asking"
                                 /\ own[r] = "owning" <=> iter[r] \in {"yielded", "lost"})'
    BY ConfigFixed DEF OwnInv
  <1>0. CapsOn'
    BY ConfigFixed
  <1> USE DEF RequestTypes, PoolTypes, OwnInv, Served, Goes, Turns, Pool!Becomes
  <1>1. CASE UNCHANGED <<at, iter, own>>
    BY <1>0, <1>1
  <1>2. ASSUME NEW r \in Request, Arrive(r) \/ Dispatched(r) \/ AcquireReturns(r)
        PROVE  OwnInv'
    BY <1>2 DEF Arrive, Dispatched, AcquireReturns, Pool!Ask, Pool!Grant, poolVars, streamVars, PathInv
  <1>3. ASSUME NEW r \in Request, AcquireTimesOut(r) \/ AcquireCancelled(r) \/ ProxyFails(r)
        PROVE  OwnInv'
    BY <1>3 DEF AcquireTimesOut, AcquireCancelled, ProxyFails, Crashes, ReleaseSlot, Pool!GiveUp,
       Pool!Leak, Pool!Return, Pool!Surplus, streamVars, PathInv
  <1>4. ASSUME NEW r \in Request, BodyArrives(r) \/ UpstreamAnswers(r) \/ ResponseEnds(r)
        PROVE  OwnInv'
    BY <1>4 DEF BodyArrives, UpstreamAnswers, ResponseEnds, poolVars, streamVars, PathInv
  <1>5. ASSUME NEW r \in Request, HeadSent(r) \/ HeadFails(r) \/ ChunkSent(r) \/ SendFails(r)
        PROVE  OwnInv'
    BY <1>5 DEF HeadSent, HeadFails, ChunkSent, SendFails, poolVars, streamVars
  <1>6. ASSUME NEW r \in Request,
               ChunkArrives(r) \/ UpstreamEnds(r) \/ UpstreamBreaks(r) \/ IteratorFinalized(r)
        PROVE  OwnInv'
    BY <1>6 DEF ChunkArrives, UpstreamEnds, UpstreamBreaks, IteratorFinalized, Finally, poolVars, PathInv
  <1>7. ASSUME NEW r \in Request, UpstreamCloses(r) \/ GuardFinalized(r)
        PROVE  OwnInv'
    BY <1>7 DEF UpstreamCloses, GuardFinalized, ReleaseSlot, poolVars
  <1>8. ASSUME NEW r \in Request, ClientCloses(r) \/ CloseFails(r)
        PROVE  OwnInv'
    BY <1>8 DEF ClientCloses, CloseFails, IterOver, ReleaseSlot, poolVars
  <1>9. ASSUME Startup \/ ShutdownBegins \/ TaskStopped \/ ControllerResizes \/ UNCHANGED vars
        PROVE  UNCHANGED <<at, iter, own>>
    BY <1>9 DEF Startup, ShutdownBegins, TaskStopped, StopsNext, ControllerResizes, Pool!Close,
       Pool!Resize, poolVars, streamVars, vars
  <1>10. OwnInv'
    <2> HIDE DEF OwnInv
    <2> QED
      BY <1>0, <1>1, <1>2, <1>3, <1>4, <1>5, <1>6, <1>7, <1>8, <1>9
      DEF Next, ServerStep, ClientStep, OwnInv
  <1> QED
    BY <1>0, <1>10

-----------------------------------------------------------------------------
(* The samples of a stream agree with its course.                          *)
LEMMA SampleStep ==
  RequestTypes /\ PathInv /\ SampleInv /\ [Next]_vars => SampleInv'
  <1> SUFFICES ASSUME RequestTypes, PathInv, SampleInv, [Next]_vars
               PROVE  SampleInv'
    OBVIOUS
  <1> USE DEF RequestTypes, SampleInv, SamplesTrue, Goes, Turns
  <1>1. CASE UNCHANGED <<iter, chunks, ttft, outcome>>
    BY <1>1
  <1>2. ASSUME NEW r \in Request, UpstreamAnswers(r) PROVE SampleInv'
    BY <1>2 DEF UpstreamAnswers, PathInv
  <1>3. ASSUME NEW r \in Request,
               HeadSent(r) \/ HeadFails(r) \/ ChunkSent(r) \/ GuardFinalized(r)
        PROVE  SampleInv'
    BY <1>3 DEF HeadSent, HeadFails, ChunkSent, GuardFinalized, PathInv
  <1>4. ASSUME NEW r \in Request, ChunkArrives(r) PROVE SampleInv'
    BY <1>4 DEF ChunkArrives, ObservesTTFT
  <1>5. ASSUME NEW r \in Request, UpstreamEnds(r) \/ UpstreamBreaks(r) \/ IteratorFinalized(r)
        PROVE  SampleInv'
    BY <1>5 DEF UpstreamEnds, UpstreamBreaks, IteratorFinalized, Finally, ObservesTTFT, First
  <1>6. ASSUME NEW r \in Request, UpstreamCloses(r) \/ ClientCloses(r) \/ CloseFails(r)
        PROVE  SampleInv'
    BY <1>6 DEF UpstreamCloses, ClientCloses, CloseFails, IterOver
  <1>7. ASSUME NEW r \in Request,
               Arrive(r) \/ AcquireReturns(r) \/ AcquireTimesOut(r) \/ AcquireCancelled(r)
                 \/ ProxyFails(r) \/ ResponseEnds(r) \/ SendFails(r) \/ BodyArrives(r)
        PROVE  UNCHANGED <<iter, chunks, ttft, outcome>>
    BY <1>7 DEF Arrive, AcquireReturns, AcquireTimesOut, AcquireCancelled, ProxyFails,
       ResponseEnds, SendFails, BodyArrives, streamVars
  <1> HIDE DEF SampleInv
  <1> QED
    BY <1>1, <1>2, <1>3, <1>4, <1>5, <1>6, <1>7, Outside
    DEF Next, ServerStep, ClientStep, streamVars

(* What is counted keeps in step with what was opened and granted.         *)
LEMMA CountStep ==
  RequestTypes /\ PoolTypes /\ PathInv /\ CountInv /\ [Next]_vars => CountInv'
  <1> SUFFICES ASSUME RequestTypes, PoolTypes, PathInv, CountInv, [Next]_vars
               PROVE  CountInv'
    OBVIOUS
  <1> USE DEF RequestTypes, PoolTypes, CountInv, Goes, Turns, Pool!Becomes
  <1>1. CASE UNCHANGED <<at, iter, client, ttft, code, own>>
    BY <1>1
  <1>2. ASSUME NEW r \in Request, Arrive(r) \/ AcquireReturns(r) PROVE CountInv'
    BY <1>2 DEF Arrive, AcquireReturns, StartSeen, Pool!Ask, poolVars, streamVars
  <1>3. ASSUME NEW r \in Request, Dispatched(r) PROVE CountInv'
    BY <1>3 DEF Dispatched, Pool!Grant, streamVars
  <1>4. ASSUME NEW r \in Request, AcquireTimesOut(r) \/ AcquireCancelled(r) PROVE CountInv'
    BY <1>4 DEF AcquireTimesOut, AcquireCancelled, Crashes, StartSeen, Pool!GiveUp, Pool!Leak,
       Pool!Return, Pool!Surplus, streamVars, PathInv
  <1>5. ASSUME NEW r \in Request, BodyArrives(r) \/ UpstreamAnswers(r) PROVE CountInv'
    BY <1>5 DEF BodyArrives, UpstreamAnswers, poolVars
  <1>6. ASSUME NEW r \in Request, ProxyFails(r) PROVE CountInv'
    BY <1>6 DEF ProxyFails, Crashes, ReleaseSlot, poolVars, streamVars, PathInv
  <1>7. ASSUME NEW r \in Request, HeadSent(r) \/ HeadFails(r) PROVE CountInv'
    <2>1. CASE HeadSent(r)
      BY <2>1 DEF HeadSent, StartSeen, poolVars, PathInv
    <2>2. CASE HeadFails(r)
      <3>1. PICK c \in Statuses \cup {"exc"} : code' = [code EXCEPT ![r] = c]
        BY <2>2 DEF HeadFails, StartSeen
      <3> QED
        BY <2>2, <3>1 DEF HeadFails, poolVars
    <2> QED
      BY <1>7, <2>1, <2>2
  <1>8. ASSUME NEW r \in Request, ChunkSent(r) \/ SendFails(r) \/ ResponseEnds(r) PROVE CountInv'
    BY <1>8 DEF ChunkSent, SendFails, ResponseEnds, poolVars, streamVars, PathInv
  <1>9. ASSUME NEW r \in Request,
               ChunkArrives(r) \/ UpstreamEnds(r) \/ UpstreamBreaks(r) \/ IteratorFinalized(r)
        PROVE  CountInv'
    BY <1>9 DEF ChunkArrives, UpstreamEnds, UpstreamBreaks, IteratorFinalized, Finally,
       ObservesTTFT, poolVars, PathInv
  <1>10. ASSUME NEW r \in Request, UpstreamCloses(r) \/ GuardFinalized(r) PROVE CountInv'
    BY <1>10 DEF UpstreamCloses, GuardFinalized, ReleaseSlot, poolVars, PathInv
  <1>11. ASSUME NEW r \in Request, ClientCloses(r) \/ CloseFails(r) PROVE CountInv'
    BY <1>11 DEF ClientCloses, CloseFails, IterOver, ReleaseSlot, poolVars, PathInv
  <1>12. ASSUME Startup \/ ShutdownBegins \/ TaskStopped \/ ControllerResizes \/ UNCHANGED vars
         PROVE  UNCHANGED <<at, iter, client, ttft, code, own>>
    BY <1>12 DEF Startup, ShutdownBegins, TaskStopped, StopsNext, ControllerResizes, Pool!Close,
       Pool!Resize, poolVars, streamVars, vars
  <1> HIDE DEF CountInv
  <1> QED
    BY <1>1, <1>2, <1>3, <1>4, <1>5, <1>6, <1>7, <1>8, <1>9, <1>10, <1>11, <1>12
    DEF Next, ServerStep, ClientStep

(* The controllers come after the drain and go before it.                  *)
LEMMA LifespanStep ==
  LifespanTypes /\ LifespanInv /\ [Next]_vars => LifespanInv'
  <1> SUFFICES ASSUME LifespanTypes, LifespanInv, [Next]_vars
               PROVE  LifespanInv'
    OBVIOUS
  <1>0. CapsOn <=> CapsOn'
    BY ConfigFixed
  <1> USE <1>0 DEF LifespanTypes, LifespanInv
  <1>1. CASE UNCHANGED <<phase, up, closed>>
    BY <1>1
  <1>2. CASE Startup
    BY <1>2 DEF Startup, CapsOn, poolVars
  <1>3. ASSUME NEW left \in {up, up \ {Stopping(up)}}, StopsNext(left)
        PROVE  LifespanInv'
    <2>1. phase' # "boot" /\ up' = left
      BY <1>3 DEF StopsNext
    <2>2. CapsOn /\ up' # {} => "drain" \in up'
      BY <1>3, <2>1 DEF Stopping
    <2>3. closed' => up' \subseteq {"drain"}
      BY <1>3, <2>1 DEF StopsNext, Stopping, poolVars
    <2> QED
      BY <2>1, <2>2, <2>3
  <1>4. CASE ControllerResizes
    BY <1>4 DEF ControllerResizes, Pool!Resize
  <1>5. ASSUME NEW r \in Request,
               ServerStep(r) \/ ClientStep(r) \/ Dispatched(r) \/ AcquireCancelled(r)
        PROVE  UNCHANGED <<phase, up, closed>>
    BY <1>5 DEF ServerStep, ClientStep, AcquireReturns, AcquireTimesOut, UpstreamAnswers,
       ProxyFails, ChunkArrives, UpstreamEnds, UpstreamBreaks, UpstreamCloses, ClientCloses,
       CloseFails, GuardFinalized, IteratorFinalized, Arrive, BodyArrives, HeadSent, HeadFails,
       ChunkSent, SendFails, ResponseEnds, Dispatched, AcquireCancelled, IterOver, ReleaseSlot,
       Pool!Ask, Pool!Grant, Pool!GiveUp, Pool!Leak, Pool!Return, Pool!Surplus, Pool!GiveBack,
       lifespanVars, poolVars
  <1> HIDE DEF LifespanInv
  <1> QED
    BY <1>1, <1>2, <1>3, <1>4, <1>5
    DEF Next, ShutdownBegins, TaskStopped, vars, lifespanVars, poolVars

-----------------------------------------------------------------------------
(* The accounts of the pool: free and used slots make up the budget and    *)
(* the debt, and the used ones are owned or leaked, less the surplus.      *)
With(share) == {r \in Request : own[r] = share}

PoolSum == avail + used = budget + debt

PoolCount ==
    used = Cardinality(With("owning")) + Cardinality(With("leaked"))
             - Cardinality(With("surplus"))

(* Each operation of the pool keeps the sum of its accounts.               *)
LEMMA PoolSumStep ==
  PoolTypes /\ PoolSum /\ (Pool!Next \/ UNCHANGED poolVars) => PoolSum'
  BY GatewayAssumption
  DEF PoolTypes, PoolSum, poolVars, Pool!Next, Pool!Ask, Pool!Grant, Pool!GiveUp, Pool!Leak,
      Pool!Return, Pool!Surplus, Pool!GiveBack, Pool!Resize, Pool!Close

(* How a request's change of share changes the number of those with it.    *)
LEMMA WithMoves ==
  ASSUME NEW r \in Request, NEW old, NEW new, NEW share, old # new,
         own \in [Request -> Pool!Share], own[r] = old, Pool!Becomes(r, new)
  PROVE  /\ Cardinality(With(share)) \in Nat
         /\ Cardinality(With(share)') = Cardinality(With(share))
              + (IF share = new THEN 1 ELSE 0) - (IF share = old THEN 1 ELSE 0)
  <1>1. With(share) \subseteq Request /\ IsFiniteSet(With(share)) /\ Cardinality(With(share)) \in Nat
    BY GatewayAssumption, FS_Subset, FS_CardinalityType DEF With
  <1>2. CASE share = new
    <2>1. With(share)' = With(share) \cup {r} /\ r \notin With(share)
      BY <1>2 DEF With, Pool!Becomes
    <2> QED
      BY <1>1, <1>2, <2>1, FS_AddElement
  <1>3. CASE share = old
    <2>1. With(share)' = With(share) \ {r} /\ r \in With(share)
      BY <1>3 DEF With, Pool!Becomes
    <2> QED
      BY <1>1, <1>3, <2>1, FS_RemoveElement
  <1>4. CASE share # old /\ share # new
    <2>1. With(share)' = With(share)
      BY <1>4 DEF With, Pool!Becomes
    <2> QED
      BY <1>1, <1>4, <2>1
  <1> QED
    BY <1>2, <1>3, <1>4

(* Each operation of the pool keeps the in-flight count what the shares    *)
(* say.                                                                    *)
LEMMA PoolCountStep ==
  PoolTypes /\ PoolCount /\ (Pool!Next \/ UNCHANGED poolVars) => PoolCount'
  <1> SUFFICES ASSUME PoolTypes, PoolCount, Pool!Next \/ UNCHANGED poolVars
               PROVE  PoolCount'
    OBVIOUS
  <1>0. own \in [Request -> Pool!Share] /\ used \in Int
    BY DEF PoolTypes
  <1>1. CASE UNCHANGED <<own, used>>
    BY <1>1 DEF PoolCount, With
  <1>2. ASSUME NEW r \in Request, NEW share \in {"asking", "refused"}, Pool!Ask(r, share)
        PROVE  PoolCount'
    <2>1. own[r] = "none" /\ Pool!Becomes(r, share) /\ used' = used
      BY <1>2 DEF Pool!Ask
    <2> QED
      BY <1>0, <2>1, WithMoves DEF PoolCount
  <1>3. ASSUME NEW r \in Request, Pool!Grant(r) PROVE PoolCount'
    <2>1. own[r] = "asking" /\ Pool!Becomes(r, "owning") /\ used' = used + 1
      BY <1>3 DEF Pool!Grant
    <2> QED
      BY <1>0, <2>1, WithMoves DEF PoolCount
  <1>4. ASSUME NEW r \in Request, Pool!GiveUp(r) PROVE PoolCount'
    <2>1. own[r] = "asking" /\ Pool!Becomes(r, "refused") /\ used' = used
      BY <1>4 DEF Pool!GiveUp
    <2> QED
      BY <1>0, <2>1, WithMoves DEF PoolCount
  <1>5. ASSUME NEW r \in Request, Pool!Leak(r) PROVE PoolCount'
    <2>1. own[r] = "owning" /\ Pool!Becomes(r, "leaked") /\ used' = used
      BY <1>5 DEF Pool!Leak
    <2> QED
      BY <1>0, <2>1, WithMoves DEF PoolCount
  <1>6. ASSUME NEW r \in Request, Pool!Return(r) PROVE PoolCount'
    <2>1. own[r] = "owning" /\ Pool!Becomes(r, "returned") /\ used' = used - 1
      BY <1>6 DEF Pool!Return, Pool!GiveBack
    <2> QED
      BY <1>0, <2>1, WithMoves DEF PoolCount
  <1>7. ASSUME NEW r \in Request, Pool!Surplus(r) PROVE PoolCount'
    <2>1. own[r] = "asking" /\ Pool!Becomes(r, "surplus") /\ used' = used - 1
      BY <1>7 DEF Pool!Surplus, Pool!GiveBack
    <2> QED
      BY <1>0, <2>1, WithMoves DEF PoolCount
  <1>8. ASSUME Pool!Close \/ (\E b \in Budgets : Pool!Resize(b)) \/ UNCHANGED poolVars
        PROVE  UNCHANGED <<own, used>>
    BY <1>8 DEF Pool!Close, Pool!Resize, poolVars
  <1> QED
    BY <1>1, <1>2, <1>3, <1>4, <1>5, <1>6, <1>7, <1>8 DEF Pool!Next

-----------------------------------------------------------------------------
(* Everything together is inductive.                                       *)
GatewayInv ==
    /\ LifespanTypes /\ RequestTypes /\ PoolTypes
    /\ PathInv /\ OwnInv /\ NothingLeftOpen /\ SampleInv /\ CountInv /\ LifespanInv
    /\ PoolSum /\ PoolCount

(* The process starts with the invariant.                                  *)
LEMMA GatewayInvInit == Init => GatewayInv
  <1> SUFFICES ASSUME Init PROVE GatewayInv
    OBVIOUS
  <1>1. InitialBudget(raw) \in Nat
    BY GatewayAssumption DEF Init
  <1>2. LifespanTypes /\ RequestTypes /\ PoolTypes
    <2>1. LifespanTypes
      BY GatewayAssumption DEF Init, LifespanTypes
    <2>2. RequestTypes
      BY GatewayAssumption DEF Init, RequestTypes, Codes
    <2>3. PoolTypes
      <3>1. own \in [Request -> Pool!Share]
        BY DEF Init, Pool!Share
      <3>2. avail \in Nat /\ debt \in Nat /\ used \in Int /\ budget \in Nat
        BY <1>1 DEF Init
      <3>3. closed \in BOOLEAN
        BY DEF Init
      <3> QED
        BY <3>1, <3>2, <3>3 DEF PoolTypes
    <2> QED
      BY <2>1, <2>2, <2>3
  <1>3. PathInv /\ OwnInv /\ NothingLeftOpen /\ SampleInv /\ CountInv /\ LifespanInv
    BY DEF Init, PathInv, OwnInv, Served, NothingLeftOpen, SampleInv, SamplesTrue, CountInv, LifespanInv
  <1>4. PoolSum
    BY <1>1 DEF Init, PoolSum
  <1>5. With("owning") = {} /\ With("leaked") = {} /\ With("surplus") = {}
    BY DEF Init, With
  <1>6. PoolCount
    BY <1>5, FS_EmptySet DEF Init, PoolCount
  <1> QED
    BY <1>2, <1>3, <1>4, <1>6 DEF GatewayInv

(* Every step keeps it.                                                    *)
LEMMA GatewayInvStep == GatewayInv /\ [Next]_vars => GatewayInv'
  <1> SUFFICES ASSUME GatewayInv, [Next]_vars PROVE GatewayInv'
    OBVIOUS
  <1>1. Pool!Next \/ UNCHANGED poolVars
    BY StepKeepsProtocol DEF GatewayInv
  <1>2. PoolTypes' /\ PoolSum' /\ PoolCount'
    BY <1>1, PoolStepTypes, PoolSumStep, PoolCountStep DEF GatewayInv
  <1> QED
    BY <1>2, LifespanTypesStep, RequestTypesStep, PathStep, OwnStep, NothingLeftOpenStep,
       SampleStep, CountStep, LifespanStep DEF GatewayInv

(* So it holds always; the request-path properties below follow from it.   *)
LEMMA GatewayInvariant == Spec => []GatewayInv
  BY GatewayInvInit, GatewayInvStep, PTL DEF Spec

(* Types are correct, for every file the gateway may read.                 *)
THEOREM TypeCorrect == Spec => []TypeOK
  <1>1. GatewayInv => TypeOK
    BY TypesParts DEF GatewayInv
  <1> QED
    BY <1>1, GatewayInvariant, PTL

(* A request owns its slot exactly as long as it is served, on every path  *)
(* through failures, cancellations and finalizers.                         *)
THEOREM SlotHeldWhileServed == Spec => []SlotWhileServed
  <1>1. GatewayInv => SlotWhileServed
    <2> SUFFICES ASSUME GatewayInv, CapsOn, NEW r \in Request
                 PROVE  /\ Served(r) => own[r] = "owning"
                        /\ own[r] = "owning" => \/ Served(r) \/ at[r] = "acquire"
                                                \/ Dropped(r) \/ iter[r] = "lost"
      BY DEF SlotWhileServed
    <2> QED
      BY DEF GatewayInv, RequestTypes, OwnInv, Served, Dropped
  <1> QED
    BY <1>1, GatewayInvariant, PTL

(* From the connect until the response is closed the upstream has to do    *)
(* only with requests under a slot, but for the overhang.                  *)
THEOREM UpstreamHoldsSlot == Spec => []UpstreamUnderSlot
  <1>1. GatewayInv => UpstreamUnderSlot
    <2> SUFFICES ASSUME GatewayInv, CapsOn, NEW r \in Load, r \notin Overhang
                 PROVE  own[r] = "owning"
      BY DEF UpstreamUnderSlot
    <2>0. r \in Request
      BY DEF Load
    <2>1. CASE at[r] = "connect"
      BY <2>0, <2>1 DEF GatewayInv, OwnInv, Served
    <2>2. CASE upstream[r] = "open"
      <3>1. iter[r] \in {"fresh", "pulling", "yielded", "orphan", "upclose", "lost"}
        BY <2>0, <2>2 DEF GatewayInv, RequestTypes, PathInv
      <3>2. at[r] \in {"head", "stream", "done"}
        BY <2>0, <3>1 DEF GatewayInv, RequestTypes, PathInv
      <3> QED
        BY <2>0, <3>1, <3>2 DEF GatewayInv, PathInv, OwnInv, Served, Overhang
    <2> QED
      BY <2>1, <2>2 DEF Load
  <1> QED
    BY <1>1, GatewayInvariant, PTL

(* The upstream's load is within the budget, the contraction owed, the     *)
(* surplus of a stop and the overhang, for any number of requests.         *)
THEOREM UpstreamBounded == Spec => []UpstreamWithinBudget
  <1>1. GatewayInv /\ UpstreamUnderSlot => UpstreamWithinBudget
    <2> SUFFICES ASSUME GatewayInv, UpstreamUnderSlot, CapsOn
                 PROVE  Cardinality(Load) <= budget + debt + Cardinality(Overhang)
                                               + Cardinality(With("surplus"))
      BY DEF UpstreamWithinBudget, With
    <2>1. \A share : IsFiniteSet(With(share)) /\ Cardinality(With(share)) \in Nat
      BY GatewayAssumption, FS_Subset, FS_CardinalityType DEF With
    <2>2. IsFiniteSet(Overhang) /\ Cardinality(Overhang) \in Nat
      BY GatewayAssumption, FS_Subset, FS_CardinalityType DEF Overhang
    <2>3. Load \subseteq With("owning") \cup Overhang
      BY DEF UpstreamUnderSlot, With, Load
    <2>4. LET both == With("owning") \cup Overhang IN
          /\ IsFiniteSet(both)
          /\ Cardinality(both) = Cardinality(With("owning")) + Cardinality(Overhang)
                                   - Cardinality(With("owning") \cap Overhang)
      BY <2>1, <2>2, FS_Union
    <2>5. Cardinality(With("owning") \cap Overhang) \in Nat
      BY <2>1, FS_Intersection, FS_CardinalityType
    <2>6. /\ Cardinality(Load) \in Nat
          /\ Cardinality(Load) <= Cardinality(With("owning") \cup Overhang)
      BY <2>3, <2>4, FS_Subset, FS_CardinalityType
    <2>7. Cardinality(Load) <= Cardinality(With("owning")) + Cardinality(Overhang)
      BY <2>1, <2>2, <2>4, <2>5, <2>6
    <2> QED
      BY <2>1, <2>2, <2>6, <2>7 DEF GatewayInv, PoolTypes, PoolSum, PoolCount
  <1> QED
    BY <1>1, GatewayInvariant, UpstreamHoldsSlot, PTL

(* What iterator() opened is closed behind it unless closing fails.        *)
THEOREM ClosedBehind == Spec => []NothingLeftOpen
  <1>1. GatewayInv => NothingLeftOpen
    BY DEF GatewayInv
  <1> QED
    BY <1>1, GatewayInvariant, PTL

(* The samples of a stream agree with its course.                          *)
THEOREM SamplesAgree == Spec => []SamplesTrue
  <1>1. GatewayInv => SamplesTrue
    BY DEF GatewayInv, SampleInv
  <1> QED
    BY <1>1, GatewayInvariant, PTL

(* The counters of a finished request do not contradict each other.        *)
THEOREM CountersInAgreement == Spec => []CountersAgree
  <1>1. GatewayInv => CountersAgree
    <2> SUFFICES ASSUME GatewayInv, NEW r \in Request, at[r] = "done"
                 PROVE  \/ /\ upstream[r] = "none" /\ outcome[r] = "none" /\ ttft[r] = 0
                           /\ code[r] \in {"401", "504", "exc"}
                           /\ code[r] # "exc" => /\ client[r] = "none"
                                                /\ own[r] \in {"none", "refused", "leaked"}
                        \/ /\ upstream[r] # "none"
                           /\ code[r] \in Statuses \/ (code[r] = "exc" /\ iter[r] = "lost")
                           /\ outcome[r] = "none" <=> iter[r] \in {"yielded", "orphan", "lost"}
      BY DEF CountersAgree
    <2>1. CASE iter[r] = "none"
      BY <2>1 DEF GatewayInv, PathInv, SampleInv, CountInv
    <2>2. CASE iter[r] # "none"
      <3>1. upstream[r] # "none"
        BY <2>2 DEF GatewayInv, PathInv
      <3>2. outcome[r] = "none" <=> iter[r] \in {"yielded", "orphan", "lost"}
        BY <2>2 DEF GatewayInv, RequestTypes, PathInv, SampleInv, SamplesTrue
      <3> QED
        BY <2>2, <3>1, <3>2 DEF GatewayInv, CountInv
    <2> QED
      BY <2>1, <2>2
  <1> QED
    BY <1>1, GatewayInvariant, PTL

(* A controller runs only beside the scheduler it steers.                  *)
THEOREM ControllersNested == Spec => []ControllersUnderScheduler
  <1>1. GatewayInv => ControllersUnderScheduler
    BY DEF GatewayInv, LifespanTypes, LifespanInv, ControllersUnderScheduler
  <1> QED
    BY <1>1, GatewayInvariant, PTL

(* The gateway implements the pool's caller: every slot is returned by its *)
(* owner and once, and nothing resizes the pool after its stop.            *)
THEOREM ProtocolKept == Spec => KeepsProtocol
  <1>1. Init => Pool!Init
    BY GatewayAssumption DEF Init, Pool!Init
  <1>2. GatewayInv /\ [Next]_vars => [Pool!Next]_Pool!vars
    BY StepKeepsProtocol DEF GatewayInv, poolVars, Pool!vars
  <1> QED
    BY <1>1, <1>2, GatewayInvariant, PTL DEF Spec, KeepsProtocol, Pool!Spec

-----------------------------------------------------------------------------
(* The last index of a non-empty set of them.                              *)
LEMMA LastFound ==
    ASSUME NEW n \in Nat, NEW S \in SUBSET (1 .. n), S # {}
    PROVE  LastOf(S) \in S /\ \A j \in S : j <= LastOf(S)
<1> DEFINE R == {p \in Nat \X Nat : p[1] < p[2]}
           T == {n - j : j \in S}
<1>1. IsWellFoundedOn(R, Nat)
  BY NatLessThanWellFounded DEF OpToRel
<1>2. T \in SUBSET Nat /\ T # {}
  <2>1. \A j \in S : n - j \in Nat
    OBVIOUS
  <2> QED BY <2>1
<1>3. PICK x \in T : \A y \in T : <<y, x>> \notin R
  <2> HIDE DEF R, T
  <2> QED BY <1>1, <1>2, WFMin
<1>4. \A y \in T : ~(y < x)
  BY <1>2, <1>3
<1>5. PICK i \in S : x = n - i
  BY <1>3
<1>6. \A j \in S : j <= i
  <2> SUFFICES ASSUME NEW j \in S PROVE j <= i
    OBVIOUS
  <2>1. n - j \in T
    OBVIOUS
  <2>2. ~(n - j < n - i)
    BY <1>4, <1>5, <2>1
  <2>3. i \in Int /\ j \in Int
    OBVIOUS
  <2> QED BY <2>2, <2>3
<1> QED BY <1>6 DEF LastOf

(* The registry admits by a key the tenant of the last entry with it, as   *)
(* the last entry with its id describes it, or nobody if that is empty.    *)
LEMMA KeysResolve ==
    ASSUME NEW config \in RawConfigs, Loads(config), NEW i \in DOMAIN config.tenants
    PROVE  LET reg    == LoadRegistry(config)
               key    == Key(config.tenants[i])
               id     == config.tenants[i].id
               tenant == Resolve(reg, key)
           IN  \/ \E j \in DOMAIN config.tenants : j > i /\ Key(config.tenants[j]) = key
               \/ id = "" /\ tenant = Nobody
               \/ id # "" /\ tenant.id = id /\ tenant = Scheduled(reg)[id]
<1> DEFINE tenants == config.tenants
           reg     == LoadRegistry(config)
           key     == Key(tenants[i])
           same    == {j \in DOMAIN tenants : Key(tenants[j]) = key}
           last    == LastOf(same)
           id      == tenants[last].id
           entries == {j \in DOMAIN tenants : tenants[j].id = id}
           tenant  == tenants[LastOf(entries)]
<1>1. PICK n \in Nat : DOMAIN tenants = 1 .. n
  <2> DEFINE E == {tenants[j] : j \in DOMAIN tenants}
  <2>1. tenants \in Seq(E)
    BY TenantsAssumption
  <2> HIDE DEF E, tenants
  <2>2. Len(tenants) \in Nat /\ DOMAIN tenants = 1 .. Len(tenants)
    BY <2>1
  <2> QED BY <2>2
<1>2. \A j \in DOMAIN tenants : Key(tenants[j]) # ""
  BY DEF Loads
<1>3. last \in same /\ \A j \in same : j <= last
  <2>1. i \in same /\ same \in SUBSET (1 .. n)
    BY <1>1
  <2> HIDE DEF same
  <2> QED BY <2>1, LastFound
<1>4. LastOf(entries) \in entries
  <2>1. last \in entries /\ entries \in SUBSET (1 .. n)
    BY <1>1, <1>3
  <2> HIDE DEF entries
  <2> QED BY <2>1, LastFound
<1>5. tenant.id = id
  BY <1>4
<1>6. reg.all = tenants /\ reg.by_id = ById(tenants) /\ reg.token_to_id = TokenToId(tenants)
  BY DEF LoadRegistry
<1>7. key \in DOMAIN TokenToId(tenants) /\ TokenToId(tenants)[key] = id
  BY DEF TokenToId
<1>8. ById(tenants)[id] = tenant
  BY <1>3 DEF ById
<1>9. Scheduled(reg)[id] = tenant
  BY <1>3, <1>6 DEF Scheduled
<1>10. Resolve(reg, key) = IF id = "" THEN Nobody ELSE tenant
  BY <1>2, <1>3, <1>6, <1>7, <1>8 DEF Resolve
<1>11. \/ last = i
       \/ \E j \in DOMAIN tenants : j > i /\ Key(tenants[j]) = key
  <2>1. last \in DOMAIN tenants /\ Key(tenants[last]) = key /\ i <= last
    BY <1>3
  <2>2. last \in Int /\ i \in Int
    BY <1>1, <2>1
  <2> HIDE DEF last, tenants, key
  <2> QED BY <2>1, <2>2
<1>12. last = i => id = tenants[i].id
  OBVIOUS
<1> HIDE DEF reg, id, tenant, key, tenants, last
<1>13. last = i => \/ tenants[i].id = "" /\ Resolve(reg, key) = Nobody
                   \/ /\ tenants[i].id # "" /\ Resolve(reg, key).id = tenants[i].id
                      /\ Resolve(reg, key) = Scheduled(reg)[tenants[i].id]
  BY <1>5, <1>9, <1>10, <1>12
<1> QED BY <1>11, <1>13 DEF reg, key, tenants

(* The process serves only a file that loads.                              *)
LoadedInv == phase \in {"serving", "stopping", "down"} => Loads(raw)

(* Only the start of the lifespan, which reads the file, leads to serving. *)
LEMMA LoadedStep ==
    ASSUME LoadedInv, [Next]_vars
    PROVE  LoadedInv' /\ UNCHANGED raw
<1>1. CASE Startup
  BY <1>1 DEF Startup, LoadedInv
<1>2. CASE ShutdownBegins \/ TaskStopped
  BY <1>2 DEF ShutdownBegins, TaskStopped, StopsNext, LoadedInv
<1>3. CASE UNCHANGED <<raw, phase>>
  BY <1>3 DEF LoadedInv
<1> QED
  BY <1>1, <1>2, <1>3
  DEF Next, ServerStep, ClientStep, vars, lifespanVars, ControllerResizes, Dispatched,
      AcquireCancelled, AcquireReturns, AcquireTimesOut, UpstreamAnswers, ProxyFails,
      ChunkArrives, UpstreamEnds, UpstreamBreaks, UpstreamCloses, ClientCloses,
      CloseFails, GuardFinalized, IteratorFinalized, Arrive, BodyArrives, HeadSent,
      HeadFails, ChunkSent, SendFails, ResponseEnds

(* Whatever the file lists twice, authentication, registry and scheduler   *)
(* mean the same tenant (tenants.py:89-97, 185-199, core.py:46).           *)
THEOREM KeysAgree == Spec => []KeysServeTheirTenants
<1>1. Init => LoadedInv /\ raw \in RawConfigs
  BY DEF Init, LoadedInv
<1>2. LoadedInv /\ raw \in RawConfigs /\ [Next]_vars => (LoadedInv /\ raw \in RawConfigs)'
  BY LoadedStep
<1>3. LoadedInv /\ raw \in RawConfigs => KeysServeTheirTenants
  BY KeysResolve, Zenon DEF LoadedInv, KeysServeTheirTenants, registry
<1> QED BY <1>1, <1>2, <1>3, PTL DEF Spec
===============================================================================
