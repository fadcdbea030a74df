---------------------------- MODULE EventWatcher ----------------------------
(***************************************************************************)
(* pkg/autoscaler/event.go and counter.go: the watcher that counts cluster *)
(* events while the autoscaler specs run.                                  *)
(*                                                                         *)
(* Three goroutines meet here.  The informer (client-go, vendored) lists   *)
(* and watches the events of the cluster and puts a notification for each  *)
(* into the listener's unbounded queue; the listener takes them one at a   *)
(* time and calls AddFunc, which walks the registered handlers under       *)
(* eventHandlerLock; the goroutine of the spec starts and stops the        *)
(* watcher, registers and enables handlers and reads the counters.         *)
(*                                                                         *)
(* Time is a tick counter.  The API server stamps an event with the second *)
(* of its creation, while startTime keeps its full resolution.             *)
(***************************************************************************)
EXTENDS Integers, Sequences, FiniteSets

CONSTANTS
    Events,         \* the cluster events that may be created
    NoEvent,        \* no event is being dispatched
    Handlers,       \* the event handlers (one per counter)
    Matches,        \* Matches[h]: the events the matcher of h accepts
    Direction,      \* Direction[h]: "increment" or "decrement"
    InitVal,        \* InitVal[h]: the value newEventCounter is given
    MaxU32,         \* the largest value of a u32counter
    TicksPerSecond, \* clock ticks in a second, the unit of a CreationTimestamp
    MaxClock,       \* bound: the last tick
    MaxUpdates      \* bound: how often known events are modified

VARIABLES
    clock,      \* the current tick
    startTime,  \* w.startTime
    createdAt,  \* createdAt[e]: the tick at which e was created, or NotYet
    updates,    \* how many modifications were delivered
    listed,     \* the events of the first list the store does not hold yet
    known,      \* the informer's store
    queue,      \* the notifications the listener has not taken
    cur,        \* the event AddFunc is dispatching; it holds eventHandlerLock
    idx,        \* the next handler of its loop
    handlers,   \* w.eventHandlers
    enabled,    \* enabled[h]: h.enabled
    counter,    \* counter[h]: the u32counter of h
    phase,      \* where the informer is: see Phases
    counted,    \* history: the events counted[h] was stepped for
    due         \* history: the events h must count, see CreateEvent

vars == <<clock, startTime, createdAt, updates, listed, known, queue, cur, idx,
          handlers, enabled, counter, phase, counted, due>>

envVars      == <<clock, startTime, createdAt, updates>>
informerVars == <<listed, known, queue, phase>>
dispatchVars == <<cur, idx, counter, counted>>
handlerVars  == <<handlers, enabled>>

NotYet == -1
\* new: built; started: run() called, nothing listed; listing: run() waits for
\* the listed events; synced: run() returned; stopped: stopCh closed; closed:
\* the listener has seen it.
Phases == {"new", "started", "listing", "synced", "stopped", "closed"}

Counting == INSTANCE EventCounting
    WITH occurred <- {e \in Events : createdAt[e] >= startTime},
         tracking <- {h \in Handlers : enabled[h]}

ASSUME MatchesAssumption   == Matches \in [Handlers -> SUBSET Events]
ASSUME DirectionAssumption == Direction \in [Handlers -> {"increment", "decrement"}]
ASSUME WidthAssumption     == MaxU32 \in Nat
ASSUME InitValAssumption   == InitVal \in [Handlers -> 0..MaxU32]
ASSUME EventsAssumption    == IsFiniteSet(Events) /\ Cardinality(Events) <= MaxU32
ASSUME NoEventAssumption   == NoEvent \notin Events
ASSUME TimeAssumption      == TicksPerSecond \in Nat \ {0} /\ MaxClock \in Nat
ASSUME UpdatesAssumption   == MaxUpdates \in Nat

Created == {e \in Events : createdAt[e] # NotYet}

\* The second e was created in, as the API server writes it.
CreationTimestamp(e) == createdAt[e] - (createdAt[e] % TicksPerSecond)

Registered == {handlers[i] : i \in 1..Len(handlers)}
-----------------------------------------------------------------------------
\* newEventWatcher: startTime is now; the cluster already holds older events.
Init ==
    /\ startTime \in 0..(TicksPerSecond - 1)
    /\ clock = startTime
    /\ createdAt \in [Events -> {NotYet} \cup 0..startTime]
    /\ updates = 0
    /\ listed = {}
    /\ known = {}
    /\ queue = << >>
    /\ cur = NoEvent
    /\ idx = 1
    /\ handlers = << >>
    /\ enabled = [h \in Handlers |-> FALSE]
    /\ counter = InitVal
    /\ phase = "new"
    /\ counted = [h \in Handlers |-> {}]
    /\ due = [h \in Handlers |-> {}]

-----------------------------------------------------------------------------
(* The cluster. *)

Tick ==
    /\ clock < MaxClock
    /\ clock' = clock + 1
    /\ UNCHANGED <<startTime, createdAt, updates, informerVars, dispatchVars,
                   handlerVars, due>>

\* A component creates an event.  It is due for every enabled handler that
\* matches it, once a whole second has passed since the watcher was built.
CreateEvent(e) ==
    /\ createdAt[e] = NotYet
    /\ createdAt' = [createdAt EXCEPT ![e] = clock]
    /\ due' = [h \in Handlers |->
                 IF enabled[h] /\ e \in Matches[h] /\ clock >= startTime + TicksPerSecond
                 THEN due[h] \cup {e} ELSE due[h]]
    /\ UNCHANGED <<clock, startTime, updates, informerVars, dispatchVars, handlerVars>>

-----------------------------------------------------------------------------
(* The informer (client-go). *)

\* run() calls informerFactory.Start.
Start ==
    /\ phase = "new"
    /\ phase' = "started"
    /\ UNCHANGED <<envVars, listed, known, queue, dispatchVars, handlerVars, due>>

\* A bug the checks must find: an informer that only syncs on a non-empty list.
ListSomething ==
    /\ phase = "started" /\ Created # {}
    /\ listed' = Created
    /\ phase' = "listing"
    /\ UNCHANGED <<envVars, known, queue, dispatchVars, handlerVars, due>>
\* The reflector lists the events there are.
List ==
    /\ phase = "started"
    /\ listed' = Created
    /\ phase' = "listing"
    /\ UNCHANGED <<envVars, known, queue, dispatchVars, handlerVars, due>>

\* WaitForCacheSync returns: the listed events are in the store and their
\* notifications queued, though no handler need have seen them.
Synced ==
    /\ phase = "listing"
    /\ listed = {}
    /\ phase' = "synced"
    /\ UNCHANGED <<envVars, listed, known, queue, dispatchVars, handlerVars, due>>

\* A bug the checks must find: every delta handed on as a new event.
NotificationAlwaysAdd(e) == [type |-> "add", event |-> e]
\* HandleDeltas: an add for an event that is not in the store, else an update.
Notification(e) == [type |-> IF e \in known THEN "update" ELSE "add", event |-> e]

\* A bug the checks must find: the list is read and never watched.
DeliverListed(e) ==
    /\ phase \in {"listing", "synced", "stopped"}
    /\ e \in listed
    /\ queue' = Append(queue, Notification(e))
    /\ known' = known \cup {e}
    /\ listed' = listed \ {e}
    /\ UNCHANGED <<envVars, phase, dispatchVars, handlerVars, due>>
\* The informer hands on an event it did not know: those it listed first, in
\* any order, then those of its watch or of a later list.
Deliver(e) ==
    /\ phase \in {"listing", "synced", "stopped"}
    /\ e \in Created \ known
    /\ listed = {} \/ e \in listed
    /\ queue' = Append(queue, Notification(e))
    /\ known' = known \cup {e}
    /\ listed' = listed \ {e}
    /\ UNCHANGED <<envVars, phase, dispatchVars, handlerVars, due>>

\* A known event is modified: its recorder counts another occurrence.
Modify(e) ==
    /\ phase \in {"listing", "synced", "stopped"}
    /\ e \in known
    /\ updates < MaxUpdates
    /\ updates' = updates + 1
    /\ queue' = Append(queue, Notification(e))
    /\ UNCHANGED <<clock, startTime, createdAt, listed, known, phase, dispatchVars,
                   handlerVars, due>>

\* stop() closes stopCh.
Stop ==
    /\ phase = "synced"
    /\ phase' = "stopped"
    /\ UNCHANGED <<envVars, listed, known, queue, dispatchVars, handlerVars, due>>

\* The listener sees the closed channel; what it had not taken is lost.
ShutDown ==
    /\ phase = "stopped"
    /\ phase' = "closed"
    /\ queue' = << >>
    /\ UNCHANGED <<envVars, listed, known, dispatchVars, handlerVars, due>>

-----------------------------------------------------------------------------
(* The listener's goroutine: AddFunc.  UpdateFunc is nil. *)

\* A bug the checks must find: no filter, the backlog counts.
BeforeStartNever(e) == FALSE
\* event.CreationTimestamp.Before(&w.startTime)
BeforeStart(e) == CreationTimestamp(e) < startTime

\* A notification that runs no handler: an update, or an event that is too old.
SkipNotification ==
    /\ cur = NoEvent
    /\ queue # << >>
    /\ Head(queue).type = "update" \/ BeforeStart(Head(queue).event)
    /\ queue' = Tail(queue)
    /\ UNCHANGED <<envVars, listed, known, phase, dispatchVars, handlerVars, due>>

\* AddFunc takes eventHandlerLock for an event.
BeginDispatch ==
    /\ cur = NoEvent
    /\ queue # << >>
    /\ Head(queue).type = "add"
    /\ ~BeforeStart(Head(queue).event)
    /\ cur' = Head(queue).event
    /\ queue' = Tail(queue)
    /\ UNCHANGED <<envVars, listed, known, phase, idx, counter, counted, handlerVars, due>>

\* A bug the checks must find: the loop forgets h.enabled.
AcceptsDisabled(h, e) == e \in Matches[h]
\* h.enabled && h.matcher(event)
Accepts(h, e) == enabled[h] /\ e \in Matches[h]

\* A bug the checks must find: the loop stops at the first handler that takes
\* the event.
DispatchFirst ==
    /\ cur # NoEvent
    /\ idx <= Len(handlers)
    /\ LET h == handlers[idx] IN
         IF Accepts(h, cur)
         THEN /\ counter' = [counter EXCEPT ![h] = Counting!Stepped(h, @)]
              /\ counted' = [counted EXCEPT ![h] = @ \cup {cur}]
              /\ idx' = Len(handlers) + 1
         ELSE UNCHANGED <<counter, counted>> /\ idx' = idx + 1
    /\ UNCHANGED <<envVars, informerVars, cur, handlerVars, due>>
\* One turn of the loop, under the handler's own lock.
Dispatch ==
    /\ cur # NoEvent
    /\ idx <= Len(handlers)
    /\ LET h == handlers[idx] IN
         IF Accepts(h, cur)
         THEN /\ counter' = [counter EXCEPT ![h] = Counting!Stepped(h, @)]
              /\ counted' = [counted EXCEPT ![h] = @ \cup {cur}]
         ELSE UNCHANGED <<counter, counted>>
    /\ idx' = idx + 1
    /\ UNCHANGED <<envVars, informerVars, cur, handlerVars, due>>

\* The loop is over: AddFunc gives eventHandlerLock back.
EndDispatch ==
    /\ cur # NoEvent
    /\ idx > Len(handlers)
    /\ cur' = NoEvent
    /\ idx' = 1
    /\ UNCHANGED <<envVars, informerVars, counter, counted, handlerVars, due>>

-----------------------------------------------------------------------------
(* The spec's goroutine. *)

\* newEventCounter / onEvent: appends a disabled handler under eventHandlerLock.
OnEvent(h) ==
    /\ cur = NoEvent
    /\ h \notin Registered
    /\ handlers' = Append(handlers, h)
    /\ UNCHANGED <<envVars, informerVars, dispatchVars, enabled, due>>

\* enable(): under the lock of the handler only.
Enable(h) ==
    /\ h \in Registered
    /\ ~enabled[h]
    /\ enabled' = [enabled EXCEPT ![h] = TRUE]
    /\ UNCHANGED <<envVars, informerVars, dispatchVars, handlers, due>>

-----------------------------------------------------------------------------
Cluster  == Tick \/ \E e \in Events : CreateEvent(e)
Informer == \/ Start \/ List \/ Synced \/ Stop \/ ShutDown
            \/ \E e \in Events : Deliver(e) \/ Modify(e)
Listener == SkipNotification \/ BeginDispatch \/ Dispatch \/ EndDispatch
Caller   == \E h \in Handlers : OnEvent(h) \/ Enable(h)

Next == Cluster \/ Informer \/ Listener \/ Caller

Spec == Init /\ [][Next]_vars

\* run() follows newEventWatcher, the API server answers the informer, and the
\* goroutines are scheduled.  Nobody has to create events, to register or to
\* enable a handler, or to stop.
Fairness ==
    /\ WF_vars(Start)
    /\ WF_vars(List)
    /\ WF_vars(Synced)
    /\ \A e \in Events : WF_vars(Deliver(e))
    /\ WF_vars(Listener)

FairSpec == Spec /\ Fairness
-----------------------------------------------------------------------------
Notifications == [type : {"add", "update"}, event : Events]

TypeOK ==
    /\ clock \in Nat
    /\ startTime \in Nat
    /\ createdAt \in [Events -> {NotYet} \cup Nat]
    /\ updates \in Nat
    /\ listed \in SUBSET Events
    /\ known \in SUBSET Events
    /\ queue \in Seq(Notifications)
    /\ cur \in Events \cup {NoEvent}
    /\ idx \in Nat \ {0}
    /\ handlers \in Seq(Handlers)
    /\ enabled \in [Handlers -> BOOLEAN]
    /\ counter \in [Handlers -> 0..MaxU32]
    /\ phase \in Phases
    /\ counted \in [Handlers -> SUBSET Events]
    /\ due \in [Handlers -> SUBSET Events]

\* A counter shows its initial value moved by exactly one step for every
\* distinct event it counted, through the wrap-around of its 32 bits: no event
\* is counted twice, however often it is modified or listed again, and
\* registering handlers during a dispatch disturbs no count.
CounterExact ==
    \A h \in Handlers :
        counter[h] = Counting!After(Direction[h], InitVal[h], Cardinality(counted[h]))

\* Only events created at or after startTime are counted, although the first
\* list replays the whole backlog and creation stamps are cut to the second.
NoStaleEvent ==
    \A h \in Handlers : \A e \in counted[h] :
        e \in Matches[h] /\ createdAt[e] >= startTime

InQueue(e) == \E i \in 1..Len(queue) : queue[i] = [type |-> "add", event |-> e]
Ahead(h)   == \E i \in idx..Len(handlers) : handlers[i] = h

\* An event a handler must count is never lost on its way: it is counted, or
\* the informer has yet to deliver it, or it waits in the queue, or its dispatch
\* has yet to reach the handler; only stop() may drop it.
NoLostEvent ==
    \A h \in Handlers : \A e \in due[h] :
        \/ e \in counted[h]
        \/ e \notin known
        \/ InQueue(e)
        \/ cur = e /\ Ahead(h)
        \/ phase = "closed"

\* The watcher implements the abstract counters.
ImplementsCounting == Counting!Spec

\* Every event a handler must count is counted in the end unless the watcher is
\* stopped: neither the backlog, nor modified events, nor the two locks starve it.
DueIsCounted ==
    \A h \in Handlers : \A e \in Events :
        (e \in due[h]) ~> (e \in counted[h] \/ phase \in {"stopped", "closed"})

\* run() returns, whatever the backlog and however many events arrive meanwhile.
RunReturns == (phase = "started") ~> (phase = "synced")
-----------------------------------------------------------------------------
(* The inductive invariant behind the four invariants above. *)

\* An event takes one way through the watcher and never comes back: it is
\* announced at most once, and an announced event is neither being dispatched
\* nor counted.
OneWay ==
    /\ known \subseteq Created
    /\ \A i, j \in 1..Len(queue) :
          queue[i].type = "add" /\ queue[i] = queue[j] => i = j
    /\ \A i \in 1..Len(queue) :
          queue[i].type = "add" =>
             /\ queue[i].event \in known
             /\ queue[i].event # cur
             /\ \A h \in Handlers : queue[i].event \notin counted[h]
    /\ \A h \in Handlers : counted[h] \subseteq known

\* The event being dispatched is fresh, and no handler ahead has counted it.
DispatchOnce ==
    /\ \A i, j \in 1..Len(handlers) : handlers[i] = handlers[j] => i = j
    /\ cur # NoEvent =>
          /\ cur \in known
          /\ createdAt[cur] >= startTime
          /\ \A i \in idx..Len(handlers) : cur \notin counted[handlers[i]]
    /\ cur = NoEvent => idx = 1

\* A due event is one its handler accepts and the start filter lets through.
DueAccepted ==
    \A h \in Handlers :
        /\ enabled[h] => h \in Registered
        /\ \A e \in due[h] :
              /\ Accepts(h, e)
              /\ createdAt[e] >= startTime + TicksPerSecond

IInv == OneWay /\ DispatchOnce /\ DueAccepted /\ CounterExact /\ NoStaleEvent /\ NoLostEvent
=============================================================================
