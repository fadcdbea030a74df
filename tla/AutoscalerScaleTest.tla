------------------------ MODULE AutoscalerScaleTest ------------------------
(***************************************************************************)
(* The spec "scale up and down" of pkg/autoscaler/autoscaler.go, from the  *)
(* moment its transient machinesets are ready, with the cluster-autoscaler *)
(* it observes (external) and the event counters of EventCounting, which   *)
(* EventWatcher implements.  Every API call succeeds here: AutoscalerCleanup *)
(* has the calls that fail and the objects they leave behind.              *)
(*                                                                         *)
(* The autoscaler may be faulty: a faulty one ignores maxNodesTotal and    *)
(* need not do anything.  The spec exists to tell the two apart.           *)
(***************************************************************************)
EXTENDS Integers, FiniteSets

CONSTANTS
    Groups,      \* the transient machinesets, one autoscaled group each
    Others,      \* the number of nodes outside of them
    UpEvents,    \* bound: the ScaledUpGroup events there may be
    LimitEvents, \* bound: the MaxNodesTotalReached events there may be
    DownEvents,  \* bound: the ScaleDownEmpty events there may be
    MaxU32       \* the largest value of a u32counter

Events == UpEvents \cup LimitEvents \cup DownEvents

\* Events are numbers: the autoscaler uses those of a kind in their order.
ASSUME EventsAssumption ==
    /\ Events \subseteq Nat /\ IsFiniteSet(Events) /\ Cardinality(Events) <= MaxU32
    /\ UpEvents \cap (LimitEvents \cup DownEvents) = {} /\ LimitEvents \cap DownEvents = {}
ASSUME GroupsAssumption ==
    IsFiniteSet(Groups) /\ Cardinality(Groups) \in 2..MaxU32 /\ Others \in Nat /\ MaxU32 \in Nat

VARIABLES
    pc,         \* the step the spec is at, "passed" or "failed"
    reason,     \* why it failed: "none", "timeout" or "assert"
    polled,     \* Consistently has polled
    mas,        \* the groups that have a MachineAutoscaler
    machineSets,\* the groups that exist
    limit,      \* maxNodesTotal of the ClusterAutoscaler, or NoCA
    workload,   \* the Job exists
    pods,       \* some pod of the Job exists
    grown,      \* the groups at their maximum of two nodes; the others have one
    faulty,     \* the autoscaler is faulty
    early,      \* history: the scale-ups counted before Consistently began
    podsSeen,   \* history: the last poll of the pods found one
    occurred, tracking, counted, counter,   \* the state of EventCounting
    due         \* history: due[h]: the events of h created after it was enabled

specVars    == <<pc, reason, polled, early, podsSeen>>
objectVars  == <<mas, machineSets, limit, workload>>
clusterVars == <<pods, grown, faulty>>
countVars   == <<occurred, tracking, counted, counter, due>>
vars        == <<specVars, objectVars, clusterVars, countVars>>

NoCA == -1

\* What len(machineSets) machineautoscalers, of min 1 and max 2, can add.
clusterExpansionSize == Cardinality(Groups)

Counters == {"scaleUp", "maxNodesTotalReached", "scaleDown"}

\* A bug the checks must find: the matchers do not tell the reasons apart.
MatchesAny == [h \in Counters |-> Events]
\* The matchers of the three counters.
Matches == [h \in Counters |-> CASE h = "scaleUp"              -> UpEvents
                                 [] h = "maxNodesTotalReached" -> LimitEvents
                                 [] h = "scaleDown"            -> DownEvents]

\* The value each starts with; all three count upwards, scaleDown too.
InitVal == [h \in Counters |-> IF h = "scaleDown" THEN clusterExpansionSize - 1 ELSE 0]

EC == INSTANCE EventCounting
    WITH Handlers <- Counters, Direction <- [h \in Counters |-> "increment"]

TotalNodes == Others + Cardinality(machineSets) + Cardinality(grown)

\* A bug the checks must find: room for every group to grow.
maxNodesTotalOneMore == TotalNodes + clusterExpansionSize
maxNodesTotal        == TotalNodes + clusterExpansionSize - 1

Init ==
    /\ pc = "createMachineAutoscalers"
    /\ reason = "none"
    /\ polled = FALSE
    /\ early = {}
    /\ podsSeen = FALSE
    /\ mas = {}
    /\ machineSets = Groups
    /\ limit = NoCA
    /\ workload = FALSE
    /\ pods = FALSE
    /\ grown = {}
    /\ faulty \in BOOLEAN
    /\ EC!Init /\ occurred = {}
    /\ due = [h \in Counters |-> {}]

-----------------------------------------------------------------------------
(* The cluster-autoscaler, the Job controller and the watcher (external). *)

\* The autoscaler logs the next event of a kind.
Emit(S) == \E e \in S \ occurred :
              /\ \A d \in S \ occurred : e <= d
              /\ EC!Occur(e)
              /\ due' = [h \in Counters |-> due[h] \cup
                            (IF h \in tracking THEN {e} \cap Matches[h] ELSE {})]

\* Some pod finds no node.  There is one job more than maxNodesTotal.
Pending == pods /\ workload

\* It grows a group; a compliant one stays within maxNodesTotal.
ScaleUp(g) ==
    /\ Pending
    /\ limit # NoCA
    /\ g \in mas \ grown
    /\ faulty \/ TotalNodes < limit
    /\ grown' = grown \cup {g}
    /\ Emit(UpEvents)
    /\ UNCHANGED <<specVars, objectVars, pods, faulty>>

\* It reports that the limit keeps it from growing.  It repeats that, but the
\* recorder turns a repetition into an update of the event.
LimitReached ==
    /\ Pending
    /\ limit # NoCA /\ TotalNodes >= limit
    /\ LimitEvents \cap occurred = {}
    /\ Emit(LimitEvents)
    /\ UNCHANGED <<specVars, objectVars, clusterVars>>

\* It removes the empty node of a group.
ScaleDown(g) ==
    /\ ~pods
    /\ limit # NoCA
    /\ g \in mas \cap grown
    /\ grown' = grown \ {g}
    /\ Emit(DownEvents)
    /\ UNCHANGED <<specVars, objectVars, pods, faulty>>

\* The Job controller creates its pods; the garbage collector removes them.
PodsCreated ==
    /\ workload /\ ~pods
    /\ pods' = TRUE
    /\ UNCHANGED <<specVars, objectVars, grown, faulty, countVars>>
PodsDeleted ==
    /\ ~workload /\ pods
    /\ pods' = FALSE
    /\ UNCHANGED <<specVars, objectVars, grown, faulty, countVars>>

\* A counter counts an event; the watcher runs until the spec returns.  One that was
\* created before the counter was enabled may still be on its way, or be missed.
Delivered(h, e) ==
    /\ pc \notin {"passed", "failed"}
    /\ EC!Count(h, e)
    /\ UNCHANGED <<specVars, objectVars, clusterVars, due>>

-----------------------------------------------------------------------------
(* The spec. *)

Go(from, to) ==
    /\ pc = from /\ pc' = to
    /\ UNCHANGED reason

Fail(why) ==
    /\ pc' = "failed"
    /\ reason' = why
    /\ UNCHANGED <<polled, early, podsSeen, objectVars, clusterVars, countVars>>

CreateMachineAutoscaler(g) ==
    /\ g \notin mas
    /\ mas' = mas \cup {g}
    /\ Go("createMachineAutoscalers",
          IF mas' = Groups THEN "createClusterAutoscaler" ELSE "createMachineAutoscalers")
    /\ UNCHANGED <<polled, early, podsSeen, machineSets, limit, workload, clusterVars, countVars>>

\* A bug the checks must find: the workload is there before the counters are enabled.
CreateWorkloadFirst ==
    /\ Go("createClusterAutoscaler", "countScaleUps")
    /\ limit' = maxNodesTotal
    /\ workload' = TRUE
    /\ UNCHANGED <<polled, early, podsSeen, mas, machineSets, clusterVars, countVars>>
CreateClusterAutoscaler ==
    /\ Go("createClusterAutoscaler", "countScaleUps")
    /\ limit' = maxNodesTotal
    /\ UNCHANGED <<polled, early, podsSeen, mas, machineSets, workload, clusterVars, countVars>>

\* newScaleUpCounter, newMaxNodesTotalReachedCounter, newScaleDownCounter.
NewCounter(h, from, to) ==
    /\ Go(from, to)
    /\ EC!Track(h)
    /\ UNCHANGED <<polled, early, podsSeen, objectVars, clusterVars, due>>
CountScaleUps   == NewCounter("scaleUp", "countScaleUps", "countLimit")
CountLimit      == NewCounter("maxNodesTotalReached", "countLimit", "createWorkload")
CountScaleDowns == NewCounter("scaleDown", "countScaleDowns", "deleteWorkload")

CreateWorkload ==
    /\ Go("createWorkload", "awaitScaleUps")
    /\ workload' = TRUE
    /\ UNCHANGED <<polled, early, podsSeen, mas, machineSets, limit, clusterVars, countVars>>

\* Eventually(...): a poll that finds the condition goes on; one that does not
\* changes nothing, and the wait may time out.
Await(from, to, condition) ==
    /\ condition
    /\ Go(from, to)
    /\ UNCHANGED <<polled, objectVars, clusterVars, countVars>>

AwaitScaleUps ==
    /\ Await("awaitScaleUps", "awaitLimit", counter["scaleUp"] = clusterExpansionSize - 1)
    /\ UNCHANGED <<early, podsSeen>>

AwaitLimit ==
    /\ Await("awaitLimit", "hold", counter["maxNodesTotalReached"] >= 1)
    /\ early' = counted["scaleUp"]
    /\ UNCHANGED podsSeen

\* A bug the checks must find: more scale-ups than there may be are fine.
HoldsAtLeast == counter["scaleUp"] >= clusterExpansionSize - 1
Holds        == counter["scaleUp"] = clusterExpansionSize - 1

\* Consistently polls at once and then again until its time is over, when it
\* does not look another time.
HoldPoll ==
    /\ pc = "hold" /\ Holds
    /\ polled' = TRUE
    /\ UNCHANGED <<pc, reason, early, podsSeen, objectVars, clusterVars, countVars>>
HoldBroken ==
    /\ pc = "hold" /\ ~Holds
    /\ Fail("assert")
HoldOver ==
    /\ polled
    /\ Go("hold", "countScaleDowns")
    /\ UNCHANGED <<polled, early, podsSeen, objectVars, clusterVars, countVars>>

DeleteWorkload ==
    /\ Go("deleteWorkload", "awaitScaleDowns")
    /\ workload' = FALSE
    /\ UNCHANGED <<polled, early, podsSeen, mas, machineSets, limit, clusterVars, countVars>>

AwaitScaleDowns ==
    /\ Await("awaitScaleDowns", "awaitPods", counter["scaleDown"] = clusterExpansionSize - 1)
    /\ UNCHANGED <<early, podsSeen>>

\* The poll returns FALSE when it finds a pod, and BeZero() accepts FALSE.
AwaitPods ==
    /\ Await("awaitPods", "deleteMachineAutoscalers", (~pods) = FALSE)
    /\ podsSeen' = pods
    /\ UNCHANGED early

DeleteMachineAutoscaler(g) ==
    /\ g \in mas
    /\ mas' = mas \ {g}
    /\ Go("deleteMachineAutoscalers",
          IF mas' = {} THEN "deleteMachineSets" ELSE "deleteMachineAutoscalers")
    /\ UNCHANGED <<polled, early, podsSeen, machineSets, limit, workload, clusterVars, countVars>>

\* Its nodes go with it: WaitForMachineSetDelete is MachineSetWaits'.
DeleteMachineSet(g) ==
    /\ g \in machineSets
    /\ machineSets' = machineSets \ {g}
    /\ grown' = grown \ {g}
    /\ Go("deleteMachineSets",
          IF machineSets' = {} THEN "deleteClusterAutoscaler" ELSE "deleteMachineSets")
    /\ UNCHANGED <<polled, early, podsSeen, mas, limit, workload, pods, faulty, countVars>>

DeleteClusterAutoscaler ==
    /\ Go("deleteClusterAutoscaler", "passed")
    /\ limit' = NoCA
    /\ UNCHANGED <<polled, early, podsSeen, mas, machineSets, workload, clusterVars, countVars>>

Timeout ==
    /\ pc \in {"awaitScaleUps", "awaitLimit", "awaitScaleDowns", "awaitPods"}
    /\ Fail("timeout")

-----------------------------------------------------------------------------
External == \/ \E g \in Groups : ScaleUp(g) \/ ScaleDown(g)
            \/ LimitReached \/ PodsCreated \/ PodsDeleted
            \/ \E h \in Counters, e \in Events : Delivered(h, e)

\* A step of the spec that is not a timeout.
Step ==
    \/ \E g \in Groups : CreateMachineAutoscaler(g) \/ DeleteMachineAutoscaler(g)
                            \/ DeleteMachineSet(g)
    \/ CreateClusterAutoscaler \/ CreateWorkload \/ CountScaleUps \/ CountLimit
    \/ AwaitScaleUps \/ AwaitLimit \/ HoldPoll \/ HoldBroken \/ HoldOver
    \/ CountScaleDowns \/ DeleteWorkload \/ AwaitScaleDowns \/ AwaitPods
    \/ DeleteClusterAutoscaler

Next == External \/ Step \/ Timeout

Spec == Init /\ [][Next]_vars

\* The goroutine of the spec runs, Consistently's time ends, a counter counts the
\* events created after it was enabled (DueIsCounted of EventWatcher, which promises
\* nothing of older ones), the cluster's controllers work, and an autoscaler that is
\* not faulty does what its configuration asks for.
Fairness ==
    /\ WF_vars(Step) /\ WF_vars(HoldOver)
    /\ \A h \in Counters, e \in Events : WF_vars(e \in due[h] /\ Delivered(h, e))
    /\ WF_vars(PodsCreated) /\ WF_vars(PodsDeleted)
    /\ WF_vars(~faulty /\ \E g \in Groups : ScaleUp(g))
    /\ WF_vars(~faulty /\ LimitReached)
    /\ WF_vars(~faulty /\ \E g \in Groups : ScaleDown(g))

FairSpec == Spec /\ Fairness
-----------------------------------------------------------------------------
\* The steps after Consistently, and those after each later wait.
AfterPods       == {"deleteMachineAutoscalers", "deleteMachineSets", "deleteClusterAutoscaler",
                    "passed"}
AfterHold       == {"countScaleDowns", "deleteWorkload", "awaitScaleDowns", "awaitPods"}
                     \cup AfterPods
BeforeHold      == {"createMachineAutoscalers", "createClusterAutoscaler", "countScaleUps",
                    "countLimit", "createWorkload", "awaitScaleUps", "awaitLimit"}

TypeOK ==
    /\ pc \in BeforeHold \cup {"hold"} \cup AfterHold \cup {"failed"}
    /\ reason \in {"none", "timeout", "assert"}
    /\ polled \in BOOLEAN /\ podsSeen \in BOOLEAN
    /\ early \subseteq UpEvents
    /\ mas \subseteq Groups /\ machineSets \subseteq Groups /\ grown \subseteq machineSets
    /\ limit \in {NoCA} \cup Nat
    /\ workload \in BOOLEAN /\ pods \in BOOLEAN /\ faulty \in BOOLEAN
    /\ occurred \subseteq Events
    /\ tracking \subseteq Counters
    /\ counted \in [Counters -> SUBSET Events]
    /\ counter \in [Counters -> 0..MaxU32]
    /\ due \in [Counters -> SUBSET occurred]

\* An autoscaler that grew past maxNodesTotal is caught: if more scale-ups than
\* the limit leaves room for were counted before Consistently began, then the
\* spec does not get past it, although the wait for them may have seen the right
\* number on its way.
OvershootCaught ==
    pc \in AfterHold => Cardinality(early) = clusterExpansionSize - 1

\* The spec accuses only faulty autoscalers of exceeding the limit.
AssertMeansFaulty == reason = "assert" => faulty

\* If no wait times out too early, a compliant autoscaler brings the spec to the
\* end of the scale-up: every event it waits for is emitted after its counter was
\* enabled, and none of them is one that occurs only once and was missed.
CompliantScalesUp ==
    ~faulty /\ [](reason # "timeout") => <>(pc = "countScaleDowns")

\* "Expecting %v %q events" and "still have workload POD" are what the two waits after
\* the deletion of the workload log as missing.  Past them one of the two at least is
\* so: that many ScaleDownEmpty events were observed, or the last poll found no pod.
ScaleDownSeen ==
    pc \in AfterPods => \/ Cardinality(counted["scaleDown"]) >= clusterExpansionSize - 1
                        \/ ~podsSeen
=============================================================================
