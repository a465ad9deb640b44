------------------------------ MODULE PageProofs ------------------------------
(***************************************************************************)
(* Proofs about ProctorPage, for every configuration of the page and every  *)
(* bound.                                                                   *)
(*                                                                          *)
(* NothingDropped and InOrder are not inductive: they rest on the events    *)
(* the page holds, those of the batch before those of the queue, being the  *)
(* last ones raised, without a gap (Window), on everything before them      *)
(* being known (Below), and on the same of every request that was given up  *)
(* and may still reach the server (StrayInv).                               *)
(***************************************************************************)
EXTENDS ProctorPage, FiniteSetTheorems, TLAPS

\* The part of the type invariant that is about events.
EventType ==
    /\ raised \in Seq(Kinds) /\ Len(raised) <= MaxEvents
    /\ queue \in Seq(Events) /\ batch \in Seq(Events) /\ log \in Seq(Events)
    /\ timer \in BOOLEAN
    /\ request \in {"none", "nowhere", "sent", "answered"}
    /\ request = "none" <=> batch = <<>>
    /\ answer \in Nat
    /\ stray \subseteq Seq(Events) /\ strays \in 0 .. MaxStray
    /\ left \subseteq Events

\* Sequence b is from + 1, from + 2, ...
Follows(b, from) == \A i \in DOMAIN b : b[i] = from + i

\* The last event that the page no longer holds.
Base == Len(raised) - (Len(batch) + Len(queue))

Window ==
    /\ Len(batch) + Len(queue) <= Len(raised)
    /\ Follows(batch, Base)
    /\ Follows(queue, Base + Len(batch))

Below == \A e \in 1 .. Base : e \in Known

\* The server has stored what it has answered.
AnsweredStored == request = "answered" => Range(batch) \subseteq Range(log)

StrayInv ==
    \A b \in stray : \E k \in 0 .. MaxEvents : Follows(b, k) /\ 1 .. k \subseteq Known

EventInv ==
    /\ EventType
    /\ Window
    /\ Below
    /\ AnsweredStored
    /\ StrayInv
    /\ InOrder

------------------------------------------------------------------------------
(***************************************************************************)
(* Sequences of event numbers.                                              *)
(***************************************************************************)

LEMMA Bounds == MaxEvents \in Nat /\ MaxStray \in Nat /\ MaxReloads \in Nat
  BY PageAssumption

LEMMA EmptySeq == <<>> \in Seq(Events) /\ <<>> \in Seq(Kinds) /\ Len(<<>>) = 0
  OBVIOUS

LEMMA RangeConcat ==
    ASSUME NEW S, NEW s \in Seq(S), NEW t \in Seq(S)
    PROVE  Range(s \o t) = Range(s) \union Range(t)
<1>1. /\ DOMAIN (s \o t) = 1 .. Len(s) + Len(t)
      /\ DOMAIN s = 1 .. Len(s) /\ DOMAIN t = 1 .. Len(t)
      /\ Len(s) \in Nat /\ Len(t) \in Nat
      /\ \A i \in 1 .. Len(s) : (s \o t)[i] = s[i]
      /\ \A i \in 1 .. Len(t) : (s \o t)[Len(s) + i] = t[i]
  OBVIOUS
<1>2. ASSUME NEW i \in DOMAIN (s \o t) PROVE (s \o t)[i] \in Range(s) \union Range(t)
  <2>1. CASE i <= Len(s)
    BY <1>1, <2>1 DEF Range
  <2>2. CASE i > Len(s)
    <3>1. i - Len(s) \in DOMAIN t /\ (s \o t)[i] = t[i - Len(s)]
      BY <1>1, <2>2
    <3> QED
      BY <3>1 DEF Range
  <2> QED
    BY <1>1, <2>1, <2>2
<1>3. ASSUME NEW i \in DOMAIN s PROVE s[i] \in Range(s \o t)
  BY <1>1 DEF Range
<1>4. ASSUME NEW i \in DOMAIN t PROVE t[i] \in Range(s \o t)
  <2>1. Len(s) + i \in DOMAIN (s \o t) /\ (s \o t)[Len(s) + i] = t[i]
    BY <1>1
  <2> QED
    BY <2>1 DEF Range
<1> QED
  BY <1>2, <1>3, <1>4 DEF Range

\* A sequence of numbers that follow one another has exactly those numbers.
LEMMA FollowsRange ==
    ASSUME NEW b \in Seq(Events), NEW k \in Nat, Follows(b, k)
    PROVE  \A e \in k + 1 .. k + Len(b) : e \in Range(b)
<1> SUFFICES ASSUME NEW e \in k + 1 .. k + Len(b) PROVE e \in Range(b)
  OBVIOUS
<1>1. e - k \in DOMAIN b /\ b[e - k] = e
  BY DEF Follows
<1> QED
  BY <1>1 DEF Range

LEMMA FollowsConcat ==
    ASSUME NEW a \in Seq(Events), NEW b \in Seq(Events), NEW k \in Nat,
           Follows(a, k), Follows(b, k + Len(a))
    PROVE  Follows(a \o b, k)
  BY DEF Follows

\* Where the page stands.
LEMMA BaseType ==
    ASSUME EventType, Window
    PROVE  /\ Base \in 0 .. MaxEvents
           /\ Len(raised) \in Nat /\ Len(batch) \in Nat /\ Len(queue) \in Nat
           /\ Base + Len(batch) + Len(queue) = Len(raised)
<1>1. Len(raised) \in Nat /\ Len(batch) \in Nat /\ Len(queue) \in Nat
  BY DEF EventType
<1> QED
  BY <1>1, Bounds DEF EventType, Window, Base

\* What is known stays known.
LEMMA StrayStays ==
    ASSUME StrayInv, Known \subseteq Known', stray' \subseteq stray
    PROVE  StrayInv'
  BY DEF StrayInv, Follows

------------------------------------------------------------------------------
(***************************************************************************)
(* The steps of the buffer keep the invariant.                              *)
(***************************************************************************)

\* flushEvents, with q for the queue.
LEMMA FlushEventsInv ==
    ASSUME EventInv, raised' \in Seq(Kinds), Len(raised') <= MaxEvents,
           NEW q \in Seq(Events), Len(raised') = Base + Len(batch) + Len(q),
           Follows(q, Base + Len(batch)), FlushEvents(q), UNCHANGED server
    PROVE  EventInv'
<1>0. /\ Base \in 0 .. MaxEvents /\ Len(q) \in Nat
      /\ Len(raised) \in Nat /\ Len(batch) \in Nat /\ Len(queue) \in Nat
  BY BaseType DEF EventInv
<1>1. /\ UNCHANGED <<stray, strays, log, left, answer>> /\ timer' = FALSE
      /\ Known' = Known
  BY DEF FlushEvents, server, Known
<1>2. CASE batch # <<>> \/ q = <<>>
  <2>1. queue' = q /\ batch' = batch /\ request' = request
    BY <1>2 DEF FlushEvents
  <2>2. Base' = Base
    BY <1>0, <2>1 DEF Base
  <2>3. EventType'
    BY <1>1, <2>1 DEF EventInv, EventType
  <2>4. Window'
    BY <1>0, <2>1, <2>2 DEF EventInv, Window, Follows
  <2>5. Below' /\ AnsweredStored' /\ StrayInv' /\ InOrder'
    BY <1>1, <2>1, <2>2, StrayStays DEF EventInv, Below, AnsweredStored, InOrder
  <2> QED
    BY <2>3, <2>4, <2>5 DEF EventInv
<1>3. CASE batch = <<>> /\ q # <<>>
  <2>1. queue' = <<>> /\ batch' = q /\ request' \in {"sent", "nowhere"} /\ Len(batch) = 0
    BY <1>3 DEF FlushEvents
  <2>2. Base' = Base
    BY <1>0, <2>1 DEF Base
  <2>3. EventType'
    BY <1>1, <1>3, <2>1 DEF EventInv, EventType
  <2>4. Window'
    BY <1>0, <2>1, <2>2 DEF EventInv, Window, Follows
  <2>5. Below' /\ AnsweredStored' /\ StrayInv' /\ InOrder'
    BY <1>1, <2>1, <2>2, StrayStays DEF EventInv, Below, AnsweredStored, InOrder
  <2> QED
    BY <2>3, <2>4, <2>5 DEF EventInv
<1> QED
  BY <1>2, <1>3

\* An event of kind k is pushed.
LEMMA Pushed ==
    ASSUME EventInv, NEW k \in Kinds, Len(raised) < MaxEvents, raised' = Append(raised, k),
           NEW q, q = Append(queue, Len(raised'))
    PROVE  /\ raised' \in Seq(Kinds) /\ Len(raised') <= MaxEvents
           /\ q \in Seq(Events) /\ Len(raised') = Base + Len(batch) + Len(q)
           /\ Follows(q, Base + Len(batch))
<1>0. /\ Base \in 0 .. MaxEvents
      /\ Len(raised) \in Nat /\ Len(batch) \in Nat /\ Len(queue) \in Nat
      /\ Base + Len(batch) + Len(queue) = Len(raised)
      /\ raised \in Seq(Kinds) /\ queue \in Seq(Events)
      /\ Follows(queue, Base + Len(batch))
  BY BaseType DEF EventInv, EventType, Window
<1>1. raised' \in Seq(Kinds) /\ Len(raised') = Len(raised) + 1
  BY <1>0
<1>2. Len(raised') \in Events
  BY <1>0, <1>1, Bounds DEF Events
<1>3. q \in Seq(Events) /\ Len(q) = Len(queue) + 1
  BY <1>0, <1>2
<1>4. Follows(q, Base + Len(batch))
  BY <1>0, <1>1, <1>2 DEF Follows
<1> QED
  BY <1>0, <1>1, <1>3, <1>4, Bounds

LEMMA QueueEventInv ==
    ASSUME EventInv, NEW k \in Kinds, QueueEvent(k), UNCHANGED server
    PROVE  EventInv'
<1> DEFINE q == Append(queue, Len(raised'))
<1>1. Len(raised) < MaxEvents /\ raised' = Append(raised, k)
  BY DEF QueueEvent
<1>2. /\ raised' \in Seq(Kinds) /\ Len(raised') <= MaxEvents
      /\ q \in Seq(Events) /\ Len(raised') = Base + Len(batch) + Len(q)
      /\ Follows(q, Base + Len(batch))
  BY <1>1, Pushed
<1>3. CASE k # "info"
  <2>1. FlushEvents(q)
    BY <1>3 DEF QueueEvent
  <2> QED
    BY <1>2, <2>1, FlushEventsInv
<1>4. CASE k = "info"
  <2>1. /\ queue' = q /\ timer' = TRUE
        /\ UNCHANGED <<batch, request, answer, stray, strays, log, left>> /\ Known' = Known
    BY <1>4 DEF QueueEvent, server, Known
  <2> HIDE DEF q
  <2>2. /\ Base \in 0 .. MaxEvents /\ Len(q) \in Nat /\ Len(batch) \in Nat
    BY <1>2, BaseType DEF EventInv
  <2>3. Base' = Base
    BY <1>2, <2>1, <2>2 DEF Base
  <2>4. EventType'
    BY <1>2, <2>1 DEF EventInv, EventType
  <2>5. Window'
    BY <1>2, <2>1, <2>2, <2>3 DEF EventInv, Window, Follows
  <2>6. Below' /\ AnsweredStored' /\ StrayInv' /\ InOrder'
    BY <2>1, <2>3, StrayStays DEF EventInv, Below, AnsweredStored, InOrder
  <2> QED
    BY <2>4, <2>5, <2>6 DEF EventInv
<1> QED
  BY <1>3, <1>4

LEMMA SendHeartbeatInv == EventInv /\ SendHeartbeat => EventInv'
<1> SUFFICES ASSUME EventInv, SendHeartbeat PROVE EventInv'
  OBVIOUS
<1>1. /\ Len(raised) < MaxEvents /\ raised' = Append(raised, "info") /\ "info" \in Kinds
      /\ FlushEvents(Append(queue, Len(raised'))) /\ UNCHANGED server
  BY DEF SendHeartbeat, Kinds
<1> QED
  BY <1>1, Pushed, FlushEventsInv

LEMMA FlushTimerInv == EventInv /\ FlushTimer => EventInv'
<1> SUFFICES ASSUME EventInv, FlushTimer PROVE EventInv'
  OBVIOUS
<1>1. raised' = raised /\ FlushEvents(queue) /\ UNCHANGED server
  BY DEF FlushTimer
<1> QED
  BY <1>1, BaseType, FlushEventsInv DEF EventInv, EventType, Window

\* The web server stores a batch whose predecessors are known.
LEMMA Stores ==
    ASSUME EventInv, NEW b \in Seq(Events), NEW k \in 0 .. MaxEvents,
           Follows(b, k), 1 .. k \subseteq Known, log' = log \o b, left' = left
    PROVE  /\ InOrder' /\ log' \in Seq(Events)
           /\ Range(log') = Range(log) \union Range(b)
           /\ Known \subseteq Known'
<1>0. log \in Seq(Events) /\ left \subseteq Events
  BY DEF EventInv, EventType
<1>1. log' \in Seq(Events) /\ Range(log') = Range(log) \union Range(b)
  BY <1>0, RangeConcat
<1>2. ASSUME NEW j \in DOMAIN log', NEW e \in 1 .. log'[j] - 1
      PROVE  e \in left \/ \E i \in 1 .. j : log'[i] = e
  <2>0. Len(log) \in Nat /\ Len(b) \in Nat /\ j \in 1 .. Len(log) + Len(b)
    BY <1>0, <1>2
  <2>1. CASE j <= Len(log)
    <3>1. j \in DOMAIN log /\ log'[j] = log[j]
      BY <1>0, <2>0, <2>1
    <3>2. e \in left \/ \E i \in 1 .. j : log[i] = e
      BY <1>2, <3>1 DEF EventInv, InOrder
    <3>3. \A i \in 1 .. j : log'[i] = log[i]
      BY <1>0, <2>0, <2>1
    <3> QED
      BY <3>2, <3>3
  <2>2. CASE j > Len(log)
    <3>1. j - Len(log) \in DOMAIN b /\ log'[j] = b[j - Len(log)]
      BY <1>0, <2>0, <2>2
    <3>2. log'[j] = k + (j - Len(log))
      BY <3>1 DEF Follows
    <3>3. CASE e <= k
      <4>1. e \in Known
        BY <1>2, <3>3, Bounds
      <4>2. CASE e \in Range(log)
        <5>1. PICK i \in DOMAIN log : log[i] = e
          BY <4>2 DEF Range
        <5>2. i \in 1 .. j /\ log'[i] = e
          BY <1>0, <2>0, <2>2, <5>1
        <5> QED
          BY <5>2
      <4> QED
        BY <4>1, <4>2 DEF Known
    <3>4. CASE e > k
      <4>1. e - k \in DOMAIN b /\ b[e - k] = e /\ e - k < j - Len(log)
        BY <1>2, <2>0, <3>1, <3>2, <3>4, Bounds DEF Follows
      <4>2. Len(log) + (e - k) \in 1 .. j /\ log'[Len(log) + (e - k)] = e
        BY <1>0, <2>0, <4>1, Bounds
      <4> QED
        BY <4>2
    <3> QED
      BY <1>2, <3>3, <3>4, Bounds
  <2> QED
    BY <2>0, <2>1, <2>2
<1> QED
  BY <1>1, <1>2 DEF InOrder, Known

LEMMA HandleEventsInv == EventInv /\ HandleEvents => EventInv'
<1> SUFFICES ASSUME EventInv, HandleEvents PROVE EventInv'
  OBVIOUS
<1>1. /\ request = "sent" /\ log' = log \o batch /\ request' = "answered"
      /\ answer' = Switches(log') /\ UNCHANGED <<raised, queue, batch, timer, stray, strays, left>>
  BY DEF HandleEvents
<1>2. /\ Base \in 0 .. MaxEvents /\ batch \in Seq(Events)
      /\ Follows(batch, Base) /\ 1 .. Base \subseteq Known
  BY BaseType DEF EventInv, EventType, Window, Below
<1>3. /\ InOrder' /\ log' \in Seq(Events)
      /\ Range(log') = Range(log) \union Range(batch) /\ Known \subseteq Known'
  BY <1>1, <1>2, Stores
<1>4. answer' \in Nat
  <2>1. IsFiniteSet(DOMAIN log')
    <3>1. DOMAIN log' = 1 .. Len(log') /\ Len(log') \in Nat
      BY <1>3
    <3> QED
      BY <3>1, FS_Interval
  <2>2. answer' = Cardinality({i \in DOMAIN log' : raised[log'[i]] = "switch"})
    BY <1>1 DEF Switches
  <2>3. IsFiniteSet({i \in DOMAIN log' : raised[log'[i]] = "switch"})
    BY <2>1, FS_Subset
  <2> QED
    BY <2>2, <2>3, FS_CardinalityType
<1>5. EventType'
  BY <1>1, <1>3, <1>4 DEF EventInv, EventType
<1>6. Base' = Base
  BY <1>1 DEF Base
<1>7. Window' /\ Below' /\ AnsweredStored'
  BY <1>1, <1>3, <1>6 DEF EventInv, Window, Follows, Below, AnsweredStored
<1>8. StrayInv'
  BY <1>1, <1>3, StrayStays DEF EventInv
<1> QED
  BY <1>3, <1>5, <1>7, <1>8 DEF EventInv

LEMMA HandleStrayInv == ASSUME EventInv, NEW b \in stray, HandleStray(b) PROVE EventInv'
<1>1. /\ stray' = stray \ {b} /\ log' = log \o b
      /\ UNCHANGED <<raised, queue, batch, timer, request, answer, strays, left>>
  BY DEF HandleStray, events
<1>2. PICK k \in 0 .. MaxEvents : Follows(b, k) /\ 1 .. k \subseteq Known
  BY DEF EventInv, StrayInv
<1>3. b \in Seq(Events)
  BY DEF EventInv, EventType
<1>4. /\ InOrder' /\ log' \in Seq(Events)
      /\ Range(log') = Range(log) \union Range(b) /\ Known \subseteq Known'
  BY <1>1, <1>2, <1>3, Stores
<1>5. EventType'
  BY <1>1, <1>4 DEF EventInv, EventType
<1>6. Base' = Base
  BY <1>1 DEF Base
<1>7. Window' /\ Below' /\ AnsweredStored'
  BY <1>1, <1>4, <1>6 DEF EventInv, Window, Follows, Below, AnsweredStored
<1>8. StrayInv'
  BY <1>1, <1>4, StrayStays DEF EventInv
<1> QED
  BY <1>4, <1>5, <1>7, <1>8 DEF EventInv

LEMMA FlushAnsweredInv == EventInv /\ FlushAnswered => EventInv'
<1> SUFFICES ASSUME EventInv, FlushAnswered PROVE EventInv'
  OBVIOUS
<1>1. /\ request = "answered" /\ batch' = <<>> /\ request' = "none" /\ answer' = 0
      /\ timer' \in BOOLEAN /\ UNCHANGED <<raised, queue, stray, strays, log, left>>
      /\ Known' = Known
  BY DEF FlushAnswered, server, Known, EventInv, EventType
<1>2. /\ Base \in 0 .. MaxEvents
      /\ Len(raised) \in Nat /\ Len(batch) \in Nat /\ Len(queue) \in Nat
      /\ Base + Len(batch) + Len(queue) = Len(raised)
  BY BaseType DEF EventInv
<1>3. Base' = Base + Len(batch)
  BY <1>1, <1>2, Bounds DEF Base
<1>4. EventType'
  BY <1>1 DEF EventInv, EventType
<1>5. Window'
  BY <1>1, <1>2, <1>3 DEF EventInv, Window, Follows
<1>6. Below'
  <2> SUFFICES ASSUME NEW e \in 1 .. Base + Len(batch) PROVE e \in Known
    BY <1>1, <1>3 DEF Below
  <2>1. CASE e <= Base
    BY <1>2, <2>1 DEF EventInv, Below
  <2>2. CASE e > Base
    <3>1. e \in Range(batch)
      BY <1>2, <2>2, FollowsRange DEF EventInv, EventType, Window
    <3> QED
      BY <1>1, <3>1 DEF EventInv, AnsweredStored, Known
  <2> QED
    BY <1>2, <2>1, <2>2
<1>7. AnsweredStored' /\ StrayInv' /\ InOrder'
  BY <1>1, StrayStays DEF EventInv, AnsweredStored, InOrder
<1> QED
  BY <1>4, <1>5, <1>6, <1>7 DEF EventInv

\* A request that is given up is the batch, or nothing.
LEMMA GiveUpInv ==
    ASSUME EventInv, GiveUp, Known \subseteq Known'
    PROVE  stray' \subseteq Seq(Events) /\ strays' \in 0 .. MaxStray /\ StrayInv'
<1>1. stray' \subseteq stray \union {batch} /\ strays' \in 0 .. MaxStray
  BY Bounds DEF GiveUp, EventInv, EventType
<1>2. /\ Base \in 0 .. MaxEvents /\ Follows(batch, Base) /\ 1 .. Base \subseteq Known
  BY BaseType DEF EventInv, Window, Below
<1>3. ASSUME NEW b \in stray'
      PROVE  \E k \in 0 .. MaxEvents : Follows(b, k) /\ 1 .. k \subseteq Known'
  <2>1. CASE b = batch
    BY <1>2, <2>1
  <2>2. CASE b \in stray
    BY <2>2 DEF EventInv, StrayInv
  <2> QED
    BY <1>1, <2>1, <2>2
<1> QED
  BY <1>1, <1>3 DEF StrayInv, Follows, EventInv, EventType

LEMMA FlushFailedInv == EventInv /\ FlushFailed => EventInv'
<1> SUFFICES ASSUME EventInv, FlushFailed PROVE EventInv'
  OBVIOUS
<1>1. /\ GiveUp /\ queue' = batch \o queue /\ batch' = <<>> /\ request' = "none" /\ answer' = 0
      /\ timer' = TRUE /\ UNCHANGED <<raised, log, left>> /\ Known' = Known
  BY DEF FlushFailed, Known
<1>2. /\ Base \in 0 .. MaxEvents
      /\ Len(raised) \in Nat /\ Len(batch) \in Nat /\ Len(queue) \in Nat
      /\ Base + Len(batch) + Len(queue) = Len(raised)
      /\ batch \in Seq(Events) /\ queue \in Seq(Events)
  BY BaseType DEF EventInv, EventType
<1>3. queue' \in Seq(Events) /\ Len(queue') = Len(batch) + Len(queue) /\ Base' = Base
  BY <1>1, <1>2, Bounds DEF Base
<1>4. Follows(queue', Base)
  BY <1>1, <1>2, FollowsConcat DEF EventInv, Window
<1>5. Window'
  BY <1>1, <1>2, <1>3, <1>4 DEF Window, Follows
<1>6. stray' \subseteq Seq(Events) /\ strays' \in 0 .. MaxStray /\ StrayInv'
  BY <1>1, GiveUpInv
<1>7. EventType'
  BY <1>1, <1>3, <1>6 DEF EventInv, EventType
<1>8. Below' /\ AnsweredStored' /\ InOrder'
  BY <1>1, <1>3 DEF EventInv, Below, AnsweredStored, InOrder
<1> QED
  BY <1>5, <1>6, <1>7, <1>8 DEF EventInv

LEMMA ReloadInv == EventInv /\ Reload => EventInv'
<1> SUFFICES ASSUME EventInv, Reload PROVE EventInv'
  OBVIOUS
<1>1. /\ Len(raised) < MaxEvents /\ raised' = Append(raised, "info") /\ GiveUp
      /\ left' = left \union Range(batch) \union Range(queue) \union {Len(raised')}
      /\ queue' = <<>> /\ batch' = <<>> /\ timer' = FALSE /\ request' = "none" /\ answer' = 0
      /\ log' = log
  BY DEF Reload
<1>2. /\ Base \in 0 .. MaxEvents
      /\ Len(raised) \in Nat /\ Len(batch) \in Nat /\ Len(queue) \in Nat
      /\ Base + Len(batch) + Len(queue) = Len(raised)
      /\ batch \in Seq(Events) /\ queue \in Seq(Events) /\ raised \in Seq(Kinds)
      /\ Follows(batch, Base) /\ Follows(queue, Base + Len(batch))
  BY BaseType DEF EventInv, EventType, Window
<1>3. /\ raised' \in Seq(Kinds) /\ Len(raised') = Len(raised) + 1 /\ Len(raised') \in Events
  BY <1>1, <1>2, Bounds DEF Kinds, Events
<1>4. left \subseteq left' /\ left' \subseteq Events /\ Known \subseteq Known'
  BY <1>1, <1>2, <1>3 DEF EventInv, EventType, Range, Known
<1>5. stray' \subseteq Seq(Events) /\ strays' \in 0 .. MaxStray /\ StrayInv'
  BY <1>1, <1>4, GiveUpInv
<1>6. EventType'
  <2>1. Len(raised') <= MaxEvents
    BY <1>3, Bounds DEF Events
  <2> QED
    BY <1>1, <1>3, <1>4, <1>5, <2>1, EmptySeq DEF EventInv, EventType
<1>7. Base' = Len(raised) + 1
  BY <1>1, <1>2, <1>3 DEF Base
<1>8. Window'
  BY <1>1, <1>2, <1>3, <1>7 DEF Window, Follows
<1>9. Below'
  <2> SUFFICES ASSUME NEW e \in 1 .. Len(raised) + 1 PROVE e \in Known'
    BY <1>7 DEF Below
  <2>1. CASE e <= Base
    BY <1>2, <1>4, <2>1 DEF EventInv, Below
  <2>2. CASE e > Base /\ e <= Base + Len(batch)
    <3>1. e \in Range(batch)
      BY <1>2, <2>2, FollowsRange
    <3> QED
      BY <1>1, <3>1 DEF Known
  <2>3. CASE e > Base + Len(batch) /\ e <= Len(raised)
    <3>1. e \in Range(queue)
      BY <1>2, <2>3, FollowsRange
    <3> QED
      BY <1>1, <3>1 DEF Known
  <2>4. CASE e = Len(raised) + 1
    BY <1>1, <1>3, <2>4 DEF Known
  <2> QED
    BY <1>2, <2>1, <2>2, <2>3, <2>4
<1>10. AnsweredStored' /\ InOrder'
  BY <1>1, <1>4 DEF EventInv, AnsweredStored, InOrder
<1> QED
  BY <1>5, <1>6, <1>8, <1>9, <1>10 DEF EventInv

LEMMA EventsUnchanged == EventInv /\ UNCHANGED <<events, server>> => EventInv'
<1> SUFFICES ASSUME EventInv, UNCHANGED <<events, server>> PROVE EventInv'
  OBVIOUS
<1>1. /\ UNCHANGED <<raised, queue, batch, timer, request, answer, stray, strays, log, left>>
      /\ Base' = Base /\ Known' = Known
  BY DEF events, server, Base, Known
<1>2. EventType' /\ Window' /\ Below' /\ AnsweredStored' /\ InOrder'
  BY <1>1 DEF EventInv, EventType, Window, Follows, Below, AnsweredStored, InOrder
<1>3. StrayInv'
  BY <1>1, StrayStays DEF EventInv
<1> QED
  BY <1>2, <1>3 DEF EventInv

LEMMA EventInit == Init => EventInv
<1> SUFFICES ASSUME Init PROVE EventInv
  OBVIOUS
<1>a. Len(raised) = 0 /\ Len(batch) = 0 /\ Len(queue) = 0
  BY EmptySeq DEF Init
<1>b. request = "none" /\ answer = 0 /\ strays = 0
  BY DEF Init
<1>c. timer = FALSE /\ stray = {} /\ left = {}
  BY DEF Init
<1>0. raised = <<>> /\ queue = <<>> /\ batch = <<>> /\ log = <<>>
  BY DEF Init
<1>1. EventType
  <2>1. raised \in Seq(Kinds) /\ queue \in Seq(Events) /\ batch \in Seq(Events) /\ log \in Seq(Events)
    BY <1>0, EmptySeq
  <2>2. Len(raised) <= MaxEvents
    BY <1>a, Bounds
  <2>3. answer \in Nat /\ strays \in 0 .. MaxStray
    BY <1>b, Bounds
  <2>4. timer \in BOOLEAN /\ stray \subseteq Seq(Events) /\ left \subseteq Events
    BY <1>c
  <2> QED
    BY <1>0, <1>b, <2>1, <2>2, <2>3, <2>4 DEF EventType
<1>2. Base = 0
  BY <1>a DEF Base
<1> QED
  BY <1>0, <1>b, <1>c, <1>1, <1>2 DEF EventInv, Window, Follows, Below, AnsweredStored, StrayInv, InOrder

LEMMA EventStep == EventInv /\ [Next]_vars => EventInv'
<1> SUFFICES ASSUME EventInv, [Next]_vars PROVE EventInv'
  OBVIOUS
<1>0. Kinds = {"switch", "violation", "info"}
  BY DEF Kinds
<1>1. CASE Buffer
  <2>1. ASSUME NEW k \in Kinds, Raise(k) PROVE EventInv'
    BY <2>1, QueueEventInv DEF Raise
  <2> QED
    BY <1>1, <2>1, SendHeartbeatInv, FlushTimerInv, HandleEventsInv, HandleStrayInv,
       FlushAnsweredInv, FlushFailedInv DEF Buffer
<1>2. CASE Overlay
  <2>1. CASE ClickStart \/ EnsureSession \/ MediaGranted \/ BootFails \/ ClickFullscreen
             \/ ClickOverLimit \/ ClickScreen
    BY <2>1, EventsUnchanged DEF ClickStart, EnsureSession, MediaGranted, BootFails,
       ClickFullscreen, ClickOverLimit, ClickScreen
  <2>2. CASE FullscreenSettles
    BY <1>0, <2>2, EventsUnchanged, QueueEventInv DEF FullscreenSettles
  <2>3. CASE FullscreenLeft
    BY <1>0, <2>3, QueueEventInv DEF FullscreenLeft
  <2>4. CASE ScreenEnded
    BY <1>0, <2>4, QueueEventInv DEF ScreenEnded
  <2>5. CASE ReconnectStreams
    BY <1>0, <2>5, QueueEventInv DEF ReconnectStreams
  <2>6. ASSUME NEW t \in {"camera", "mic"}, CameraEnded(t) PROVE EventInv'
    BY <1>0, <2>6, QueueEventInv DEF CameraEnded
  <2> QED
    BY <1>2, <2>1, <2>2, <2>3, <2>4, <2>5, <2>6 DEF Overlay
<1>3. CASE Reload
  BY <1>3, ReloadInv
<1>4. CASE EndSession
  BY <1>4, EventsUnchanged DEF EndSession
<1>5. CASE UNCHANGED vars
  BY <1>5, EventsUnchanged DEF vars
<1> QED
  BY <1>1, <1>2, <1>3, <1>4, <1>5 DEF Next

------------------------------------------------------------------------------
(***************************************************************************)
(* The overlay, the session and the media.                                  *)
(***************************************************************************)

\* The rest of the type invariant.
PageType ==
    /\ session \in {"none", "active", "ended"}
    /\ sid \in BOOLEAN /\ (sid => session # "none")
    /\ token \in Tokens /\ stored \in Tokens
    /\ overlay \in Overlays /\ warned \in BOOLEAN
    /\ boot \in {"idle", "session", "media", "fullscreen"}
    /\ granted \in BOOLEAN /\ tracks \subseteq Tracks
    /\ asked \in BOOLEAN /\ fs \in BOOLEAN
    /\ reconnect \in {"none", "camera", "screen"}
    /\ reloads \in 0 .. MaxReloads

LEMMA TypeParts == TypeOK <=> EventType /\ PageType
  BY DEF TypeOK, EventType, PageType

LEMMA PageInit == Init => PageType
<1> SUFFICES ASSUME Init PROVE PageType
  OBVIOUS
<1>1. /\ session = "none" /\ sid = FALSE /\ token = "none" /\ stored = "none"
      /\ overlay = "gesture" /\ boot = "idle" /\ tracks = {} /\ reconnect = "none"
  BY DEF Init
<1>2. /\ sid \in BOOLEAN /\ warned \in BOOLEAN /\ granted \in BOOLEAN
      /\ asked \in BOOLEAN /\ fs \in BOOLEAN
  BY Zenon DEF Init
<1>3. reloads \in 0 .. MaxReloads
  BY Bounds DEF Init
<1> QED
  BY <1>1, <1>2, <1>3 DEF PageType, Tokens, Overlays

LEMMA PageUnchanged == PageType /\ UNCHANGED <<account, screen, reloads>> => PageType'
  BY DEF PageType, account, screen

LEMMA BufferPage == PageType /\ Buffer => PageType'
<1> SUFFICES ASSUME PageType, Buffer PROVE PageType'
  OBVIOUS
<1>1. CASE FlushAnswered
  BY <1>1 DEF FlushAnswered, UpdateTabSwitchUi, PageType, account, Overlays
<1>2. CASE (\E k \in Kinds : Raise(k)) \/ SendHeartbeat \/ FlushTimer \/ HandleEvents
           \/ (\E b \in stray : HandleStray(b)) \/ FlushFailed
  BY <1>2, PageUnchanged DEF Raise, SendHeartbeat, FlushTimer, HandleEvents, HandleStray, FlushFailed
<1> QED
  BY <1>1, <1>2 DEF Buffer

LEMMA OverlayPage == PageType /\ Overlay => PageType'
<1> SUFFICES ASSUME PageType, Overlay PROVE PageType'
  OBVIOUS
<1> USE DEF PageType, account, Overlays, Tokens, Tracks
<1>1. CASE ClickStart
  BY <1>1 DEF ClickStart
<1>2. CASE EnsureSession
  BY <1>2 DEF EnsureSession
<1>3. CASE MediaGranted
  BY <1>3 DEF MediaGranted
<1>4. CASE BootFails
  BY <1>4 DEF BootFails
<1>5. CASE FullscreenSettles
  <2>1. /\ overlay' = "hidden" /\ boot' \in {boot, "idle"}
        /\ UNCHANGED <<session, sid, token, stored, warned, granted, tracks, reconnect, reloads>>
    BY <1>5 DEF FullscreenSettles
  <2>2. asked' \in BOOLEAN /\ fs' \in BOOLEAN
    BY <1>5, Zenon DEF FullscreenSettles
  <2> QED
    BY <2>1, <2>2
<1>6. CASE ClickFullscreen
  BY <1>6 DEF ClickFullscreen
<1>7. CASE FullscreenLeft
  BY <1>7 DEF FullscreenLeft
<1>8. CASE ClickOverLimit
  BY <1>8 DEF ClickOverLimit
<1>9. CASE ScreenEnded
  BY <1>9 DEF ScreenEnded
<1>10. CASE ClickScreen
  BY <1>10 DEF ClickScreen
<1>11. CASE ReconnectStreams
  BY <1>11 DEF ReconnectStreams, CameraOverlay
<1>12. ASSUME NEW t \in {"camera", "mic"}, CameraEnded(t) PROVE PageType'
  BY <1>12 DEF CameraEnded, CameraOverlay
<1> QED
  BY <1>1, <1>2, <1>3, <1>4, <1>5, <1>6, <1>7, <1>8, <1>9, <1>10, <1>11, <1>12 DEF Overlay

LEMMA ReloadPage == PageType /\ Reload => PageType'
<1> SUFFICES ASSUME PageType, Reload PROVE PageType'
  OBVIOUS
<1>1. session' = session /\ sid' = (session = "active") /\ warned' = (Switches(log) > MaxTabSwitches)
  BY DEF Reload
<1>2. /\ stored' \in Tokens /\ token' \in Tokens
      /\ sid' \in BOOLEAN /\ warned' \in BOOLEAN /\ (sid' => session' # "none")
  BY <1>1 DEF Reload, PageType, Tokens
<1>3. reloads' \in 0 .. MaxReloads
  BY Bounds DEF Reload, PageType
<1> QED
  BY <1>1, <1>2, <1>3 DEF Reload, PageType, Overlays, Tracks

LEMMA PageStep == PageType /\ [Next]_vars => PageType'
<1> SUFFICES ASSUME PageType, [Next]_vars PROVE PageType'
  OBVIOUS
<1>1. CASE EndSession
  BY <1>1 DEF EndSession, PageType, screen
<1>2. CASE UNCHANGED vars
  BY <1>2, PageUnchanged DEF vars
<1> QED
  BY <1>1, <1>2, BufferPage, OverlayPage, ReloadPage DEF Next

------------------------------------------------------------------------------
(***************************************************************************)
(* Theorems.                                                                *)
(***************************************************************************)

\* The events the page holds, those the server has and those that requests
\* given up still carry fit together in every reachable state.
THEOREM EventInvAlways == Safety => []EventInv
  BY EventInit, EventStep, PTL DEF Safety

\* Type correctness of the page: a batch is in hand exactly while a request is
\* under way, and the page knows a session only if the server has one.
THEOREM TypeCorrect == Safety => []TypeOK
<1>1. EventInv => EventType
  BY DEF EventInv
<1> QED
  BY <1>1, EventInvAlways, PageInit, PageStep, TypeParts, PTL DEF Safety

\* flushEvents loses no event: it is in the database, held by the page, or a
\* page was unloaded with it.
THEOREM NothingEverDropped == Safety => []NothingDropped
<1>1. EventInv => NothingDropped
  <2> SUFFICES ASSUME EventInv, NEW e \in 1 .. Len(raised)
               PROVE  e \in Known \union Range(queue) \union Range(batch)
    BY DEF NothingDropped, Raised
  <2>0. /\ Base \in 0 .. MaxEvents
        /\ Len(raised) \in Nat /\ Len(batch) \in Nat /\ Len(queue) \in Nat
        /\ Base + Len(batch) + Len(queue) = Len(raised)
        /\ batch \in Seq(Events) /\ queue \in Seq(Events)
        /\ Follows(batch, Base) /\ Follows(queue, Base + Len(batch))
    BY BaseType DEF EventInv, EventType, Window
  <2>1. CASE e <= Base
    BY <2>0, <2>1 DEF EventInv, Below
  <2>2. CASE e > Base /\ e <= Base + Len(batch)
    BY <2>0, <2>2, FollowsRange
  <2>3. CASE e > Base + Len(batch)
    BY <2>0, <2>3, FollowsRange
  <2> QED
    BY <2>0, <2>1, <2>2, <2>3
<1> QED
  BY <1>1, EventInvAlways, PTL

\* The rows of the session's log are in the order of the events, although
\* failed batches are sent again and requests given up arrive late.
THEOREM LogAlwaysInOrder == Safety => []InOrder
<1>1. EventInv => InOrder
  BY DEF EventInv
<1> QED
  BY <1>1, EventInvAlways, PTL
=============================================================================
