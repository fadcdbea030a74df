--------------------------- MODULE EventCounting ---------------------------
(***************************************************************************)
(* What the event counters of the autoscaler suite promise, without the    *)
(* informer, the queue, the locks and the clock that deliver it: a counter *)
(* that is tracking counts an event that happened during the watch at most *)
(* once, by one step of its 32-bit counter, and counts nothing else.       *)
(*                                                                         *)
(* EventWatcher implements this specification; AutoscalerScaleTest is      *)
(* built on its operators instead of on the whole watcher.                 *)
(***************************************************************************)
EXTENDS Naturals, FiniteSets

CONSTANTS
    Events,     \* the cluster events that may be created
    Handlers,   \* the counters that may be created
    Matches,    \* Matches[h]: the events the matcher of h accepts
    Direction,  \* Direction[h]: "increment" or "decrement"
    InitVal,    \* InitVal[h]: the value newEventCounter is given
    MaxU32      \* the largest value of a u32counter

\* Matches \in [Handlers -> SUBSET Events], Direction gives one of its two values
\* and InitVal one of 0..MaxU32 to each handler, and Cardinality(Events) <= MaxU32,
\* so that a counter wraps at most once: the modules that instantiate this one
\* assume so.

VARIABLES
    occurred,   \* the events created since the watch began
    tracking,   \* the counters that are enabled
    counted,    \* counted[h]: the events h has counted
    counter     \* counter[h]: its value

countVars == <<occurred, tracking, counted, counter>>

\* A bug the checks must find: a counter that is not 32 bits wide.
IncrementedWide(c) == c + 1
\* atomic.AddUint32(c, 1) and atomic.AddUint32(c, ^uint32(0)).
Incremented(c) == IF c = MaxU32 THEN 0 ELSE c + 1
Decremented(c) == IF c = 0 THEN MaxU32 ELSE c - 1

\* The callback of newEventCounter.
Stepped(h, c) ==
    IF Direction[h] = "increment" THEN Incremented(c) ELSE Decremented(c)

\* The value a counter that began at v shows after n steps in direction d.
After(d, v, n) ==
    CASE d = "increment" /\ v + n <= MaxU32 -> v + n
      [] d = "increment" /\ v + n > MaxU32  -> v + n - (MaxU32 + 1)
      [] d = "decrement" /\ n <= v          -> v - n
      [] d = "decrement" /\ n > v           -> v + (MaxU32 + 1) - n

Init ==
    /\ occurred \in SUBSET Events
    /\ tracking = {}
    /\ counted = [h \in Handlers |-> {}]
    /\ counter = InitVal

Occur(e) ==
    /\ e \notin occurred
    /\ occurred' = occurred \cup {e}
    /\ UNCHANGED <<tracking, counted, counter>>

Track(h) ==
    /\ h \notin tracking
    /\ tracking' = tracking \cup {h}
    /\ UNCHANGED <<occurred, counted, counter>>

Count(h, e) ==
    /\ h \in tracking
    /\ e \in (occurred \cap Matches[h]) \ counted[h]
    /\ counted' = [counted EXCEPT ![h] = @ \cup {e}]
    /\ counter' = [counter EXCEPT ![h] = Stepped(h, @)]
    /\ UNCHANGED <<occurred, tracking>>

Next ==
    \/ \E e \in Events : Occur(e)
    \/ \E h \in Handlers : Track(h)
    \/ \E h \in Handlers, e \in Events : Count(h, e)

Spec == Init /\ [][Next]_countVars
=============================================================================
