------------------------- MODULE EventWatcherProofs -------------------------
(* The safety properties of EventWatcher for every set of events and        *)
(* handlers, every counter width and every length of a run.                 *)
EXTENDS EventWatcher, FiniteSetTheorems, TLAPS

(* A counter step stays within the width of the counter. *)
LEMMA SteppedInRange ==
    ASSUME NEW h \in Handlers, NEW c \in 0..MaxU32
    PROVE  Counting!Stepped(h, c) \in 0..MaxU32
BY WidthAssumption DEF Counting!Stepped, Counting!Incremented, Counting!Decremented

(* TypeOK is inductive. *)
LEMMA TypeOKStep == TypeOK /\ [Next]_vars => TypeOK'
<1> SUFFICES ASSUME TypeOK, [Next]_vars PROVE TypeOK'
  OBVIOUS
<1> USE DEF envVars, informerVars, dispatchVars, handlerVars
<1>1. CASE Tick
  BY <1>1 DEF TypeOK, Tick
<1>2. ASSUME NEW e \in Events, CreateEvent(e) PROVE TypeOK'
  BY <1>2 DEF TypeOK, CreateEvent
<1>3. CASE Start \/ List \/ Synced \/ Stop
  BY <1>3 DEF TypeOK, Start, List, Synced, Stop, Phases, Created
<1>4. CASE ShutDown
  BY <1>4 DEF TypeOK, ShutDown, Phases
<1>5. ASSUME NEW e \in Events, Deliver(e) PROVE TypeOK'
  BY <1>5 DEF TypeOK, Deliver, Notification, Notifications
<1>6. ASSUME NEW e \in Events, Modify(e) PROVE TypeOK'
  BY <1>6 DEF TypeOK, Modify, Notification, Notifications
<1>7. CASE SkipNotification
  BY <1>7 DEF TypeOK, SkipNotification
<1>8. CASE BeginDispatch
  <2>1. Head(queue) \in Notifications
    BY <1>8 DEF TypeOK, BeginDispatch
  <2>2. Head(queue).event \in Events
    BY <2>1 DEF Notifications
  <2> QED BY <1>8, <2>2 DEF TypeOK, BeginDispatch
<1>9. CASE Dispatch
  <2> DEFINE h == handlers[idx]
  <2>1. h \in Handlers
    BY <1>9 DEF TypeOK, Dispatch
  <2> DEFINE c == Counting!Stepped(h, counter[h])
  <2>2. c \in 0..MaxU32
    BY <2>1, SteppedInRange DEF TypeOK
  <2>3. counter' = counter \/ counter' = [counter EXCEPT ![h] = c]
    BY <1>9 DEF Dispatch
  <2>4. counter' \in [Handlers -> 0..MaxU32]
    <3> HIDE DEF c
    <3> QED BY <2>1, <2>2, <2>3 DEF TypeOK
  <2>5. counted' \in [Handlers -> SUBSET Events]
    BY <1>9, <2>1, NoEventAssumption DEF TypeOK, Dispatch
  <2> QED BY <1>9, <2>4, <2>5 DEF TypeOK, Dispatch
<1>10. CASE EndDispatch
  BY <1>10 DEF TypeOK, EndDispatch
<1>11. ASSUME NEW h \in Handlers, OnEvent(h) PROVE TypeOK'
  BY <1>11 DEF TypeOK, OnEvent
<1>12. ASSUME NEW h \in Handlers, Enable(h) PROVE TypeOK'
  BY <1>12 DEF TypeOK, Enable
<1>13. CASE UNCHANGED vars
  BY <1>13 DEF TypeOK, vars
<1> QED
  BY <1>1, <1>2, <1>3, <1>4, <1>5, <1>6, <1>7, <1>8, <1>9, <1>10, <1>11, <1>12, <1>13
  DEF Next, Cluster, Informer, Listener, Caller

(* Every variable keeps its type, the counters their width. *)
THEOREM TypeCorrect == Spec => []TypeOK
<1>1. Init => TypeOK
  BY InitValAssumption, TimeAssumption DEF Init, TypeOK, Phases, NotYet
<1> QED BY <1>1, TypeOKStep, PTL DEF Spec
-----------------------------------------------------------------------------
(* Appending to and taking from the queue, index by index. *)
LEMMA QueueAppend ==
    ASSUME queue \in Seq(Notifications), NEW n \in Notifications
    PROVE  /\ Len(Append(queue, n)) = Len(queue) + 1
           /\ \A i \in 1..Len(queue) : Append(queue, n)[i] = queue[i]
           /\ Append(queue, n)[Len(queue) + 1] = n
OBVIOUS

(* Its first element, and what taking it leaves. *)
LEMMA QueueTail ==
    ASSUME queue \in Seq(Notifications), queue # << >>
    PROVE  /\ Head(queue) = queue[1]
           /\ Head(queue) \in Notifications
           /\ Len(queue) \in Nat \ {0}
           /\ Len(Tail(queue)) = Len(queue) - 1
           /\ \A i \in 1..Len(Tail(queue)) : i + 1 \in 1..Len(queue) /\ Tail(queue)[i] = queue[i + 1]
OBVIOUS

(* A notification is determined by its type and its event. *)
LEMMA QueueElement ==
    ASSUME queue \in Seq(Notifications), NEW i \in 1..Len(queue)
    PROVE  /\ queue[i] \in Notifications
           /\ queue[i].event \in Events
           /\ queue[i] = [type |-> queue[i].type, event |-> queue[i].event]
<1>1. queue[i] \in Notifications
  OBVIOUS
<1> QED BY <1>1 DEF Notifications

(* OneWay is inductive: an event is announced once and then dispatched. *)
LEMMA OneWayStep == TypeOK /\ OneWay /\ DispatchOnce /\ [Next]_vars => OneWay'
<1> SUFFICES ASSUME TypeOK, OneWay, DispatchOnce, [Next]_vars PROVE OneWay'
  OBVIOUS
<1> USE DEF envVars, informerVars, dispatchVars, handlerVars
<1>1. CASE Tick \/ Start \/ List \/ Synced \/ Stop
  BY <1>1 DEF OneWay, Tick, Start, List, Synced, Stop, Created
<1>2. ASSUME NEW e \in Events, CreateEvent(e) PROVE OneWay'
  <2>1. known \subseteq Created'
    BY <1>2 DEF TypeOK, OneWay, CreateEvent, Created, NotYet
  <2> QED BY <1>2, <2>1 DEF OneWay, CreateEvent
<1>3. CASE ShutDown
  BY <1>3 DEF OneWay, ShutDown, Created
<1>4. ASSUME NEW e \in Events, Deliver(e) PROVE OneWay'
  <2> DEFINE n == [type |-> "add", event |-> e]
  <2>1. /\ queue' = Append(queue, n)
        /\ e \in Created /\ e \notin known
        /\ known' = known \cup {e}
        /\ UNCHANGED <<createdAt, cur, counted>>
    BY <1>4 DEF Deliver, Notification
  <2>2. n \in Notifications
    BY DEF Notifications
  <2>3. /\ Len(queue') = Len(queue) + 1
        /\ \A i \in 1..Len(queue) : queue'[i] = queue[i]
        /\ queue'[Len(queue) + 1] = n
    BY <2>1, <2>2, QueueAppend DEF TypeOK
  <2>4. \A i \in 1..Len(queue) : queue[i].type = "add" => queue[i] # n
    BY <2>1 DEF OneWay
  <2>5. e # cur /\ \A h \in Handlers : e \notin counted[h]
    BY <2>1, NoEventAssumption DEF OneWay, DispatchOnce
  <2>6. Len(queue) \in Nat
    BY DEF TypeOK
  <2>7. ASSUME NEW i \in 1..Len(queue'), NEW j \in 1..Len(queue'),
               queue'[i].type = "add", queue'[i] = queue'[j]
        PROVE  i = j
    <3> HIDE DEF n
    <3> QED BY <2>3, <2>4, <2>6, <2>7 DEF OneWay
  <2>8. ASSUME NEW i \in 1..Len(queue'), queue'[i].type = "add"
        PROVE  /\ queue'[i].event \in known'
               /\ queue'[i].event # cur'
               /\ \A h \in Handlers : queue'[i].event \notin counted'[h]
    BY <2>1, <2>3, <2>5, <2>6, <2>8 DEF OneWay
  <2> QED BY <2>1, <2>7, <2>8 DEF OneWay, Created
<1>5. ASSUME NEW e \in Events, Modify(e) PROVE OneWay'
  <2> DEFINE n == [type |-> "update", event |-> e]
  <2>1. /\ queue' = Append(queue, n)
        /\ UNCHANGED <<createdAt, known, cur, counted>>
    BY <1>5 DEF Modify, Notification
  <2>2. n \in Notifications /\ n.type # "add"
    BY DEF Notifications
  <2>3. /\ Len(queue') = Len(queue) + 1
        /\ \A i \in 1..Len(queue) : queue'[i] = queue[i]
        /\ queue'[Len(queue) + 1] = n
    BY <2>1, <2>2, QueueAppend DEF TypeOK
  <2>4. Len(queue) \in Nat
    BY DEF TypeOK
  <2>5. \A i \in 1..Len(queue') : queue'[i].type = "add" => i \in 1..Len(queue)
    BY <2>2, <2>3, <2>4
  <2> QED BY <2>1, <2>3, <2>5 DEF OneWay, Created
<1>6. CASE SkipNotification
  <2>1. /\ queue # << >> /\ queue' = Tail(queue)
        /\ UNCHANGED <<createdAt, known, cur, counted>>
    BY <1>6 DEF SkipNotification
  <2> QED BY <2>1, QueueTail DEF TypeOK, OneWay, Created
<1>7. CASE BeginDispatch
  <2>1. /\ queue # << >> /\ queue' = Tail(queue)
        /\ Head(queue).type = "add"
        /\ cur' = Head(queue).event
        /\ UNCHANGED <<createdAt, known, counted>>
    BY <1>7 DEF BeginDispatch
  <2>2. \A i \in 1..Len(queue') : i + 1 \in 1..Len(queue) /\ queue'[i] = queue[i + 1]
    BY <2>1, QueueTail DEF TypeOK
  <2>3. 1 \in 1..Len(queue) /\ Head(queue) = queue[1]
    BY <2>1, QueueTail DEF TypeOK
  <2>4. ASSUME NEW i \in 1..Len(queue'), queue'[i].type = "add"
        PROVE  queue'[i].event # cur'
    <3>1. queue[i + 1] # queue[1]
      BY <2>1, <2>2, <2>3 DEF OneWay
    <3>2. /\ queue[1] = [type |-> queue[1].type, event |-> queue[1].event]
          /\ queue[i + 1] = [type |-> queue[i + 1].type, event |-> queue[i + 1].event]
      BY <2>2, <2>3, QueueElement DEF TypeOK
    <3> QED BY <2>1, <2>2, <2>3, <2>4, <3>1, <3>2
  <2> QED BY <2>1, <2>2, <2>4 DEF OneWay, Created
<1>8. CASE Dispatch
  <2>1. /\ cur # NoEvent
        /\ \A h \in Handlers : counted'[h] \subseteq counted[h] \cup {cur}
        /\ UNCHANGED <<createdAt, known, queue, cur>>
    BY <1>8 DEF Dispatch, TypeOK
  <2>2. cur \in known
    BY <2>1 DEF DispatchOnce
  <2> QED BY <2>1, <2>2 DEF OneWay, Created
<1>9. CASE EndDispatch
  BY <1>9, QueueElement, NoEventAssumption DEF TypeOK, OneWay, EndDispatch, Created
<1>10. ASSUME NEW h \in Handlers, OnEvent(h) \/ Enable(h) PROVE OneWay'
  BY <1>10 DEF OneWay, OnEvent, Enable, Created
<1>11. CASE UNCHANGED vars
  BY <1>11 DEF OneWay, vars, Created
<1> QED
  BY <1>1, <1>2, <1>3, <1>4, <1>5, <1>6, <1>7, <1>8, <1>9, <1>10, <1>11
  DEF Next, Cluster, Informer, Listener, Caller

(* A dispatch visits every handler once. *)
LEMMA DispatchOnceStep == TypeOK /\ OneWay /\ DispatchOnce /\ [Next]_vars => DispatchOnce'
<1> SUFFICES ASSUME TypeOK, OneWay, DispatchOnce, [Next]_vars PROVE DispatchOnce'
  OBVIOUS
<1> USE DEF envVars, informerVars, dispatchVars, handlerVars
<1>1. CASE Tick \/ Start \/ List \/ Synced \/ Stop \/ ShutDown \/ SkipNotification
  BY <1>1 DEF DispatchOnce, Tick, Start, List, Synced, Stop, ShutDown, SkipNotification
<1>2. ASSUME NEW e \in Events, CreateEvent(e) PROVE DispatchOnce'
  <2>1. cur # NoEvent => cur \in Events /\ createdAt'[cur] = createdAt[cur]
    BY <1>2 DEF TypeOK, OneWay, DispatchOnce, CreateEvent, Created, NotYet
  <2> QED BY <1>2, <2>1 DEF DispatchOnce, CreateEvent
<1>3. ASSUME NEW e \in Events, Deliver(e) \/ Modify(e) PROVE DispatchOnce'
  BY <1>3 DEF DispatchOnce, Deliver, Modify
<1>4. CASE BeginDispatch
  <2> DEFINE e == Head(queue).event
  <2>1. /\ queue # << >> /\ cur = NoEvent
        /\ Head(queue).type = "add"
        /\ ~BeforeStart(e)
        /\ cur' = e
        /\ UNCHANGED <<startTime, createdAt, known, counted, handlers, idx>>
    BY <1>4 DEF BeginDispatch
  <2>2. 1 \in 1..Len(queue) /\ Head(queue) = queue[1]
    BY <2>1, QueueTail DEF TypeOK
  <2>3. e \in Created /\ e \in known /\ \A h \in Handlers : e \notin counted[h]
    BY <2>1, <2>2 DEF OneWay
  <2>4. createdAt[e] >= startTime
    <3>1. createdAt[e] \in Nat /\ startTime \in Nat /\ TicksPerSecond \in Nat \ {0}
      BY <2>3, TimeAssumption DEF TypeOK, Created
    <3>2. createdAt[e] % TicksPerSecond >= 0
      BY <3>1
    <3>3. createdAt[e] % TicksPerSecond \in Int
      BY <3>1
    <3> QED BY <2>1, <3>1, <3>2, <3>3 DEF BeforeStart, CreationTimestamp
  <2>5. \A i \in 1..Len(handlers) : handlers[i] \in Handlers
    BY DEF TypeOK
  <2>6. idx = 1
    BY <2>1 DEF DispatchOnce
  <2>7. e # NoEvent
    BY <2>3, NoEventAssumption DEF Created
  <2> HIDE DEF e
  <2> QED BY <2>1, <2>3, <2>4, <2>5, <2>6, <2>7 DEF DispatchOnce
<1>5. CASE Dispatch
  <2> DEFINE h == handlers[idx]
  <2>1. /\ cur # NoEvent /\ idx \in 1..Len(handlers) /\ h \in Handlers
        /\ \A g \in Handlers \ {h} : counted'[g] = counted[g]
        /\ idx' = idx + 1
        /\ UNCHANGED <<startTime, createdAt, known, cur, handlers>>
    BY <1>5 DEF Dispatch, TypeOK
  <2>2. ASSUME NEW i \in idx'..Len(handlers')
        PROVE  cur' \notin counted'[handlers'[i]]
    <3>1. i \in 1..Len(handlers) /\ i # idx /\ i \in idx..Len(handlers)
      BY <2>1 DEF TypeOK
    <3>2. handlers[i] \in Handlers \ {h}
      BY <2>1, <3>1 DEF TypeOK, DispatchOnce
    <3> QED BY <2>1, <3>1, <3>2 DEF DispatchOnce
  <2> QED BY <2>1, <2>2 DEF DispatchOnce
<1>6. CASE EndDispatch
  BY <1>6 DEF DispatchOnce, EndDispatch
<1>7. ASSUME NEW h \in Handlers, OnEvent(h) PROVE DispatchOnce'
  <2>1. /\ cur = NoEvent /\ h \notin Registered
        /\ handlers' = Append(handlers, h)
        /\ UNCHANGED <<cur, idx>>
    BY <1>7 DEF OnEvent
  <2>2. /\ Len(handlers') = Len(handlers) + 1
        /\ \A i \in 1..Len(handlers) : handlers'[i] = handlers[i] /\ handlers'[i] # h
        /\ handlers'[Len(handlers) + 1] = h
        /\ Len(handlers) \in Nat
    BY <2>1 DEF TypeOK, Registered
  <2>3. \A i, j \in 1..Len(handlers') : handlers'[i] = handlers'[j] => i = j
    BY <2>2 DEF DispatchOnce
  <2> QED BY <2>1, <2>3 DEF DispatchOnce
<1>8. ASSUME NEW h \in Handlers, Enable(h) PROVE DispatchOnce'
  BY <1>8 DEF DispatchOnce, Enable
<1>9. CASE UNCHANGED vars
  BY <1>9 DEF DispatchOnce, vars
<1> QED
  BY <1>1, <1>2, <1>3, <1>4, <1>5, <1>6, <1>7, <1>8, <1>9
  DEF Next, Cluster, Informer, Listener, Caller

(* What a dispatch step counts: the event, for the handler at idx, once. *)
LEMMA DispatchEffect ==
    ASSUME TypeOK, DispatchOnce, Dispatch
    PROVE  \/ UNCHANGED <<counter, counted>>
           \/ \E h \in Handlers :
                 /\ h = handlers[idx]
                 /\ Accepts(h, cur)
                 /\ cur \in Events \ counted[h]
                 /\ createdAt[cur] >= startTime
                 /\ counter' = [counter EXCEPT ![h] = Counting!Stepped(h, @)]
                 /\ counted' = [counted EXCEPT ![h] = @ \cup {cur}]
<1>1. handlers[idx] \in Handlers /\ idx \in idx..Len(handlers)
  BY DEF TypeOK, Dispatch
<1>2. cur \in Events /\ cur \notin counted[handlers[idx]] /\ createdAt[cur] >= startTime
  BY <1>1 DEF TypeOK, DispatchOnce, Dispatch
<1> QED BY <1>1, <1>2 DEF Dispatch

(* Every other step leaves the counts alone. *)
LEMMA OthersCountNothing ==
    ASSUME TypeOK, [Next]_vars, ~Dispatch
    PROVE  UNCHANGED <<counter, counted>>
BY DEF Next, Cluster, Informer, Listener, Caller, Tick, CreateEvent, Start, List, Synced,
       Stop, ShutDown, Deliver, Modify, SkipNotification, BeginDispatch, EndDispatch,
       OnEvent, Enable, dispatchVars, vars

(* One more step of the counter is one more event. *)
LEMMA AfterOneMore ==
    ASSUME NEW h \in Handlers, NEW n \in Nat, n < MaxU32
    PROVE  Counting!Stepped(h, Counting!After(Direction[h], InitVal[h], n))
             = Counting!After(Direction[h], InitVal[h], n + 1)
<1>1. InitVal[h] \in 0..MaxU32 /\ MaxU32 \in Nat
  BY InitValAssumption, WidthAssumption
<1>2. CASE Direction[h] = "increment"
  BY <1>1, <1>2 DEF Counting!Stepped, Counting!After, Counting!Incremented
<1>3. CASE Direction[h] = "decrement"
  BY <1>1, <1>3 DEF Counting!Stepped, Counting!After, Counting!Decremented
<1> QED BY <1>2, <1>3, DirectionAssumption

(* CounterExact is inductive: a count and its counter move together. *)
LEMMA CounterExactStep ==
    TypeOK /\ DispatchOnce /\ CounterExact /\ [Next]_vars => CounterExact'
<1> SUFFICES ASSUME TypeOK, DispatchOnce, CounterExact, [Next]_vars PROVE CounterExact'
  OBVIOUS
<1>1. CASE UNCHANGED <<counter, counted>>
  BY <1>1 DEF CounterExact
<1>2. ASSUME NEW h \in Handlers,
             cur \in Events \ counted[h],
             counter' = [counter EXCEPT ![h] = Counting!Stepped(h, @)],
             counted' = [counted EXCEPT ![h] = @ \cup {cur}]
      PROVE  CounterExact'
  <2> DEFINE n == Cardinality(counted[h])
  <2>1. counted[h] \subseteq Events
    BY DEF TypeOK
  <2>2. IsFiniteSet(counted[h]) /\ n <= Cardinality(Events) /\ n \in Nat
    BY <2>1, EventsAssumption, FS_Subset, FS_CardinalityType
  <2>3. Cardinality(counted[h] \cup {cur}) = n + 1
    BY <1>2, <2>2, FS_AddElement
  <2>4. n < MaxU32
    <3>1. counted[h] \cup {cur} \subseteq Events
      BY <1>2, <2>1
    <3>2. n + 1 <= Cardinality(Events)
      BY <2>3, <3>1, EventsAssumption, FS_Subset
    <3> QED BY <2>2, <3>2, EventsAssumption, WidthAssumption, FS_CardinalityType
  <2>5. counter'[h] = Counting!Stepped(h, counter[h]) /\ counted'[h] = counted[h] \cup {cur}
    BY <1>2 DEF TypeOK
  <2>6. counter'[h] = Counting!After(Direction[h], InitVal[h], n + 1)
    BY <2>2, <2>4, <2>5, AfterOneMore DEF CounterExact
  <2>7. \A g \in Handlers \ {h} : counter'[g] = counter[g] /\ counted'[g] = counted[g]
    BY <1>2 DEF TypeOK
  <2> QED BY <2>3, <2>5, <2>6, <2>7 DEF CounterExact
<1> QED BY <1>1, <1>2, DispatchEffect, OthersCountNothing

(* NoStaleEvent is inductive: only the event being dispatched is counted. *)
LEMMA NoStaleEventStep ==
    TypeOK /\ DispatchOnce /\ OneWay /\ NoStaleEvent /\ [Next]_vars => NoStaleEvent'
<1> SUFFICES ASSUME TypeOK, DispatchOnce, OneWay, NoStaleEvent, [Next]_vars
             PROVE  NoStaleEvent'
  OBVIOUS
<1>1. startTime' = startTime
  BY DEF Next, Cluster, Informer, Listener, Caller, Tick, CreateEvent, Start, List, Synced,
         Stop, ShutDown, Deliver, Modify, SkipNotification, BeginDispatch, Dispatch,
         EndDispatch, OnEvent, Enable, envVars, vars
<1>2. \A e \in Created : createdAt'[e] = createdAt[e]
  BY DEF Next, Cluster, Informer, Listener, Caller, Tick, CreateEvent, Start, List, Synced,
         Stop, ShutDown, Deliver, Modify, SkipNotification, BeginDispatch, Dispatch,
         EndDispatch, OnEvent, Enable, envVars, vars, Created, TypeOK
<1>3. \A h \in Handlers : counted[h] \subseteq Created
  BY DEF OneWay
<1>4. CASE UNCHANGED <<counter, counted>>
  BY <1>1, <1>2, <1>3, <1>4 DEF NoStaleEvent
<1>5. ASSUME NEW h \in Handlers, Accepts(h, cur), createdAt[cur] >= startTime, cur # NoEvent,
             counted' = [counted EXCEPT ![h] = @ \cup {cur}]
      PROVE  NoStaleEvent'
  <2>1. cur \in Created
    BY <1>5 DEF DispatchOnce, OneWay
  <2>2. \A g \in Handlers : counted'[g] \subseteq counted[g] \cup (IF g = h THEN {cur} ELSE {})
    BY <1>5 DEF TypeOK
  <2> QED BY <1>1, <1>2, <1>3, <1>5, <2>1, <2>2 DEF NoStaleEvent, Accepts
<1> QED BY <1>4, <1>5, DispatchEffect, OthersCountNothing, NoEventAssumption

(* DueAccepted is inductive: nothing disables or removes a handler. *)
LEMMA DueAcceptedStep == TypeOK /\ DueAccepted /\ [Next]_vars => DueAccepted'
<1> SUFFICES ASSUME TypeOK, DueAccepted, [Next]_vars PROVE DueAccepted'
  OBVIOUS
<1> USE DEF envVars, informerVars, dispatchVars, handlerVars
<1>1. CASE UNCHANGED <<startTime, createdAt, handlers, enabled, due>>
  BY <1>1 DEF DueAccepted, Accepts, Registered
<1>2. ASSUME NEW e \in Events, CreateEvent(e) PROVE DueAccepted'
  <2>1. /\ createdAt[e] = NotYet /\ createdAt' = [createdAt EXCEPT ![e] = clock]
        /\ UNCHANGED <<startTime, handlers, enabled>>
    BY <1>2 DEF CreateEvent
  <2>2. ASSUME NEW h \in Handlers, NEW d \in due'[h]
        PROVE  Accepts(h, d)' /\ createdAt'[d] >= startTime' + TicksPerSecond
    <3>1. CASE d \in due[h]
      <4>1. createdAt[d] >= startTime + TicksPerSecond
        BY <3>1 DEF DueAccepted
      <4>2. d # e /\ d \in Events
        BY <2>1, <3>1, <4>1, TimeAssumption DEF NotYet, TypeOK
      <4> QED BY <2>1, <3>1, <4>1, <4>2 DEF DueAccepted, Accepts, TypeOK
    <3>2. CASE d \notin due[h]
      BY <1>2, <2>1, <2>2, <3>2 DEF CreateEvent, Accepts, TypeOK
    <3> QED BY <3>1, <3>2
  <2> QED BY <2>1, <2>2 DEF DueAccepted, Registered
<1>3. ASSUME NEW g \in Handlers, OnEvent(g) PROVE DueAccepted'
  <2>1. Registered \subseteq Registered'
    BY <1>3 DEF OnEvent, Registered, TypeOK
  <2> QED BY <1>3, <2>1 DEF DueAccepted, Accepts, OnEvent
<1>4. ASSUME NEW g \in Handlers, Enable(g) PROVE DueAccepted'
  BY <1>4 DEF DueAccepted, Accepts, Enable, Registered, TypeOK
<1> QED
  BY <1>1, <1>2, <1>3, <1>4
  DEF Next, Cluster, Informer, Listener, Caller, Tick, Start, List, Synced, Stop, ShutDown,
      Deliver, Modify, SkipNotification, BeginDispatch, Dispatch, EndDispatch, vars

(* The start filter lets a due event through: cutting its stamp to the second *)
(* takes less than a second away.                                             *)
LEMMA DueNotBeforeStart ==
    ASSUME TypeOK, DueAccepted, NEW h \in Handlers, NEW e \in due[h]
    PROVE  ~BeforeStart(e)
<1>1. e \in Events /\ createdAt[e] >= startTime + TicksPerSecond /\ startTime \in Nat
  BY DEF TypeOK, DueAccepted
<1>2. createdAt[e] \in Nat /\ TicksPerSecond \in Nat \ {0}
  BY <1>1, TimeAssumption DEF TypeOK, NotYet
<1>3. createdAt[e] % TicksPerSecond \in 0..(TicksPerSecond - 1)
  BY <1>2
<1> QED BY <1>1, <1>2, <1>3 DEF BeforeStart, CreationTimestamp

(* The ways of a due event, for one handler and one event. *)
OnItsWay(h, e) ==
    \/ e \in counted[h]
    \/ e \notin known
    \/ InQueue(e)
    \/ cur = e /\ Ahead(h)
    \/ phase = "closed"

(* NoLostEvent is inductive: each step hands a due event on to the next place *)
(* of its way.                                                                *)
LEMMA NoLostEventStep ==
    TypeOK /\ OneWay /\ DispatchOnce /\ DueAccepted /\ NoLostEvent /\ [Next]_vars => NoLostEvent'
<1> SUFFICES ASSUME TypeOK, OneWay, DispatchOnce, DueAccepted, NoLostEvent, [Next]_vars,
                    NEW h \in Handlers, NEW e \in due'[h]
             PROVE  OnItsWay(h, e)'
  BY DEF NoLostEvent, OnItsWay
<1> USE DEF envVars, informerVars, dispatchVars, handlerVars
<1>1. e \in due[h] => OnItsWay(h, e) /\ e \in Events
  BY DEF NoLostEvent, OnItsWay, TypeOK
<1>2. CASE Tick \/ Start \/ List \/ Synced \/ Stop
  BY <1>1, <1>2 DEF OnItsWay, InQueue, Ahead, Tick, Start, List, Synced, Stop
<1>3. ASSUME NEW d \in Events, CreateEvent(d) PROVE OnItsWay(h, e)'
  <2>1. CASE e \in due[h]
    BY <1>1, <1>3, <2>1 DEF OnItsWay, InQueue, Ahead, CreateEvent
  <2>2. CASE e \notin due[h]
    <3>1. e = d /\ createdAt[d] = NotYet /\ known' = known
      BY <1>3, <2>2 DEF CreateEvent, TypeOK
    <3> QED BY <3>1 DEF OneWay, Created, OnItsWay
  <2> QED BY <2>1, <2>2
<1>4. CASE ShutDown
  BY <1>4 DEF OnItsWay, ShutDown
<1>5. ASSUME NEW n \in Notifications, NEW d \in Events, n.event = d,
             queue' = Append(queue, n),
             known' = known \/ (known' = known \cup {d} /\ n.type = "add"),
             UNCHANGED <<cur, idx, handlers, counted, phase, due>>
      PROVE  OnItsWay(h, e)'
  <2>1. /\ Len(queue') = Len(queue) + 1 /\ Len(queue) \in Nat
        /\ \A i \in 1..Len(queue) : queue'[i] = queue[i]
        /\ queue'[Len(queue) + 1] = n
    BY <1>5, QueueAppend DEF TypeOK
  <2>2. InQueue(e) => InQueue(e)'
    BY <2>1 DEF InQueue
  <2>3. e = d /\ n.type = "add" => InQueue(e)'
    <3>1. n = [type |-> n.type, event |-> n.event]
      BY DEF Notifications
    <3>2. Len(queue) + 1 \in 1..Len(queue')
      BY <2>1
    <3> QED BY <1>5, <2>1, <3>1, <3>2 DEF InQueue
  <2>4. Ahead(h)' = Ahead(h)
    BY <1>5 DEF Ahead
  <2> QED BY <1>1, <1>5, <2>2, <2>3, <2>4 DEF OnItsWay
<1>6. ASSUME NEW d \in Events, Deliver(d) PROVE OnItsWay(h, e)'
  <2> DEFINE n == [type |-> "add", event |-> d]
  <2>1. n \in Notifications /\ n.event = d /\ n.type = "add"
    BY DEF Notifications
  <2>2. /\ queue' = Append(queue, n) /\ known' = known \cup {d}
        /\ UNCHANGED <<cur, idx, handlers, counted, phase, due>>
    BY <1>6 DEF Deliver, Notification
  <2> HIDE DEF n
  <2> QED BY <1>5, <2>1, <2>2
<1>7. ASSUME NEW d \in Events, Modify(d) PROVE OnItsWay(h, e)'
  <2> DEFINE n == [type |-> "update", event |-> d]
  <2>1. n \in Notifications /\ n.event = d
    BY DEF Notifications
  <2>2. /\ queue' = Append(queue, n) /\ known' = known
        /\ UNCHANGED <<cur, idx, handlers, counted, phase, due>>
    BY <1>7 DEF Modify, Notification
  <2> HIDE DEF n
  <2> QED BY <1>5, <2>1, <2>2
<1>8. ASSUME queue # << >>, queue' = Tail(queue), UNCHANGED <<known, counted, phase, due>>,
             Head(queue) # [type |-> "add", event |-> e],
             cur = NoEvent
      PROVE  OnItsWay(h, e)'
  <2>1. ASSUME InQueue(e) PROVE InQueue(e)'
    <3>1. PICK i \in 1..Len(queue) : queue[i] = [type |-> "add", event |-> e]
      BY <2>1 DEF InQueue
    <3>2. i # 1
      BY <1>8, <3>1, QueueTail DEF TypeOK
    <3>3. i - 1 \in 1..Len(Tail(queue)) /\ Tail(queue)[i - 1] = queue[i]
      BY <1>8, <3>1, <3>2, QueueTail DEF TypeOK
    <3> QED BY <1>8, <3>1, <3>3 DEF InQueue
  <2> QED BY <1>1, <1>8, <2>1, NoEventAssumption DEF OnItsWay
<1>9. CASE SkipNotification
  <2>1. /\ queue # << >> /\ queue' = Tail(queue) /\ cur = NoEvent
        /\ Head(queue).type = "update" \/ BeforeStart(Head(queue).event)
        /\ UNCHANGED <<known, counted, phase, due>>
    BY <1>9 DEF SkipNotification
  <2>2. e \in due[h]
    BY <2>1
  <2>3. Head(queue) # [type |-> "add", event |-> e]
    BY <2>1, <2>2, DueNotBeforeStart
  <2> QED BY <1>8, <2>1, <2>3
<1>10. CASE BeginDispatch
  <2>1. /\ queue # << >> /\ queue' = Tail(queue) /\ cur = NoEvent
        /\ cur' = Head(queue).event
        /\ UNCHANGED <<known, counted, phase, due, idx, handlers>>
    BY <1>10 DEF BeginDispatch
  <2>2. CASE Head(queue) = [type |-> "add", event |-> e]
    <3>1. cur' = e
      BY <2>1, <2>2
    <3>2. h \in Registered /\ idx = 1
      BY <2>1 DEF DueAccepted, DispatchOnce, Accepts
    <3>3. Ahead(h)'
      BY <2>1, <3>2 DEF Ahead, Registered
    <3> QED BY <3>1, <3>3 DEF OnItsWay
  <2> QED BY <1>8, <2>1, <2>2
<1>11. CASE Dispatch
  <2>1. /\ cur # NoEvent /\ idx \in 1..Len(handlers) /\ handlers[idx] \in Handlers
        /\ idx' = idx + 1
        /\ UNCHANGED <<known, queue, cur, handlers, phase, due>>
    BY <1>11 DEF Dispatch, TypeOK
  <2>2. \A g \in Handlers : counted[g] \subseteq counted'[g]
    BY <1>11, <2>1 DEF Dispatch, TypeOK
  <2>3. ASSUME cur = e, Ahead(h) PROVE OnItsWay(h, e)'
    <3>1. CASE handlers[idx] = h
      <4>1. Accepts(h, cur)
        BY <2>1, <2>3 DEF DueAccepted
      <4>2. cur \in counted'[h]
        BY <1>11, <3>1, <4>1 DEF Dispatch, TypeOK
      <4> QED BY <2>3, <4>2 DEF OnItsWay
    <3>2. CASE handlers[idx] # h
      <4>1. Ahead(h)'
        BY <2>1, <2>3, <3>2 DEF Ahead, TypeOK
      <4> QED BY <2>1, <2>3, <4>1 DEF OnItsWay
    <3> QED BY <3>1, <3>2
  <2> QED BY <1>1, <2>1, <2>2, <2>3 DEF OnItsWay, InQueue
<1>12. CASE EndDispatch
  <2>1. ~Ahead(h)
    BY <1>12 DEF EndDispatch, Ahead, TypeOK
  <2> QED BY <1>1, <1>12, <2>1 DEF EndDispatch, OnItsWay, InQueue
<1>13. ASSUME NEW g \in Handlers, OnEvent(g) PROVE OnItsWay(h, e)'
  BY <1>1, <1>13, NoEventAssumption DEF OnEvent, OnItsWay, InQueue
<1>14. ASSUME NEW g \in Handlers, Enable(g) PROVE OnItsWay(h, e)'
  BY <1>1, <1>14 DEF Enable, OnItsWay, InQueue, Ahead
<1>15. CASE UNCHANGED vars
  BY <1>1, <1>15 DEF vars, OnItsWay, InQueue, Ahead
<1> QED
  BY <1>2, <1>3, <1>4, <1>6, <1>7, <1>9, <1>10, <1>11, <1>12, <1>13, <1>14, <1>15
  DEF Next, Cluster, Informer, Listener, Caller

-----------------------------------------------------------------------------
(* The inductive invariant holds initially. *)
LEMMA InitInvariant == Init => TypeOK /\ IInv
<1> SUFFICES ASSUME Init PROVE TypeOK /\ IInv
  OBVIOUS
<1>1. TypeOK
  BY InitValAssumption, TimeAssumption DEF Init, TypeOK, Phases, NotYet
<1>2. OneWay /\ DispatchOnce /\ DueAccepted /\ NoStaleEvent /\ NoLostEvent
  BY DEF Init, OneWay, DispatchOnce, DueAccepted, NoStaleEvent, NoLostEvent
<1>3. CounterExact
  <2>1. \A h \in Handlers : Counting!After(Direction[h], InitVal[h], 0) = InitVal[h]
    BY InitValAssumption, DirectionAssumption, WidthAssumption DEF Counting!After
  <2> QED BY <2>1, FS_EmptySet DEF Init, CounterExact
<1> QED BY <1>1, <1>2, <1>3 DEF IInv

(* The inductive invariant holds throughout. *)
THEOREM Invariant == Spec => [](TypeOK /\ IInv)
<1>1. TypeOK /\ IInv /\ [Next]_vars => (TypeOK /\ IInv)'
  BY TypeOKStep, OneWayStep, DispatchOnceStep, DueAcceptedStep, CounterExactStep,
     NoStaleEventStep, NoLostEventStep DEF IInv
<1> QED BY <1>1, InitInvariant, PTL DEF Spec

(* However the informer replays, modifies and interleaves them, a counter     *)
(* moves by exactly one step for every event it counted.                      *)
THEOREM CountsExactly == Spec => []CounterExact
<1>1. TypeOK /\ IInv => CounterExact
  BY DEF IInv
<1> QED BY <1>1, Invariant, PTL

(* Nothing of the backlog the first list replays is counted. *)
THEOREM CountsNothingStale == Spec => []NoStaleEvent
<1>1. TypeOK /\ IInv => NoStaleEvent
  BY DEF IInv
<1> QED BY <1>1, Invariant, PTL

(* An event a handler must count cannot disappear between the API server and  *)
(* its counter, unless the watcher was stopped.                               *)
THEOREM LosesNothing == Spec => []NoLostEvent
<1>1. TypeOK /\ IInv => NoLostEvent
  BY DEF IInv
<1> QED BY <1>1, Invariant, PTL

-----------------------------------------------------------------------------
(* Every step of the watcher is a step of the abstract counters or stutters. *)
LEMMA CountingStep ==
    TypeOK /\ IInv /\ [Next]_vars => [Counting!Next]_(Counting!countVars)
<1> SUFFICES ASSUME TypeOK, IInv, [Next]_vars
             PROVE  Counting!Next \/ UNCHANGED Counting!countVars
  OBVIOUS
<1> USE DEF envVars, informerVars, dispatchVars, handlerVars
<1>1. CASE UNCHANGED <<startTime, createdAt, enabled, counter, counted>>
  BY <1>1 DEF Counting!countVars
<1>2. ASSUME NEW e \in Events, CreateEvent(e) PROVE Counting!Next \/ UNCHANGED Counting!countVars
  <2>1. /\ createdAt[e] = NotYet /\ createdAt' = [createdAt EXCEPT ![e] = clock]
        /\ UNCHANGED <<startTime, enabled, counter, counted>>
    BY <1>2 DEF CreateEvent
  <2>2. startTime \in Nat /\ createdAt \in [Events -> Int] /\ clock \in Int
    BY DEF TypeOK, NotYet
  <2> DEFINE new == {d \in Events : createdAt'[d] >= startTime'}
             old == {d \in Events : createdAt[d] >= startTime}
  <2>3. e \notin old /\ new = IF clock >= startTime THEN old \cup {e} ELSE old
    BY <2>1, <2>2 DEF NotYet
  <2>4. CASE clock >= startTime
    BY <2>1, <2>3, <2>4 DEF Counting!Next, Counting!Occur
  <2>5. CASE ~(clock >= startTime)
    BY <2>1, <2>3, <2>5 DEF Counting!countVars
  <2> QED BY <2>4, <2>5
<1>3. CASE Dispatch
  <2>1. UNCHANGED <<startTime, createdAt, enabled>> /\ cur # NoEvent
    BY <1>3 DEF Dispatch
  <2>2. CASE UNCHANGED <<counter, counted>>
    BY <2>1, <2>2 DEF Counting!countVars
  <2>3. ASSUME NEW h \in Handlers,
               Accepts(h, cur),
               cur \in Events \ counted[h],
               createdAt[cur] >= startTime,
               counter' = [counter EXCEPT ![h] = Counting!Stepped(h, @)],
               counted' = [counted EXCEPT ![h] = @ \cup {cur}]
        PROVE  Counting!Next
    <3>1. Counting!Count(h, cur)
      BY <2>1, <2>3 DEF Counting!Count, Accepts
    <3> QED BY <2>3, <3>1 DEF Counting!Next
  <2> QED BY <1>3, <2>2, <2>3, DispatchEffect DEF IInv
<1>4. ASSUME NEW h \in Handlers, Enable(h) PROVE Counting!Next
  <2>1. Counting!Track(h)
    BY <1>4 DEF Enable, TypeOK, Counting!Track
  <2> QED BY <2>1 DEF Counting!Next
<1> QED
  BY <1>1, <1>2, <1>3, <1>4
  DEF Next, Cluster, Informer, Listener, Caller, Tick, Start, List, Synced, Stop, ShutDown,
      Deliver, Modify, SkipNotification, BeginDispatch, EndDispatch, OnEvent, vars

(* The watcher, with its informer, queue, locks and clock, implements the     *)
(* counters of EventCounting.                                                 *)
THEOREM Refinement == Spec => ImplementsCounting
<1>1. Init => Counting!Init
  BY DEF Init, Counting!Init
<1> QED BY <1>1, CountingStep, Invariant, PTL DEF Spec, ImplementsCounting, Counting!Spec
=============================================================================
