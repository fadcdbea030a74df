# TLA+ models of cluster-api-actuator-pkg

This directory holds TLA+ specifications of the end-to-end suite in `pkg/`:
what its specs do to a cluster, what its waits and event counters conclude from
what they read, and what that is worth when the cluster moves at the same time.
TLC checks small instances; TLAPS proves the main safety results for every size.

The code under `pkg/` is a test suite. Its own correctness is that it *judges*
correctly: a spec that passes has seen what it says it has seen, a spec that
fails blames something that went wrong, and whatever happens the cluster is left
clean for the next spec. That is what the properties below say.

## The system

| Part | Code | State | Operations | Meets |
|---|---|---|---|---|
| Event watcher | `pkg/autoscaler/event.go`, `counter.go` | start time, handlers and their `enabled`, counters, client-go's store and queue | `newEventWatcher`, `run`, `stop`, `onEvent`, `enable`, `AddFunc`, counters | client-go's informer, two mutexes, the spec's goroutine |
| Autoscaler specs | `pkg/autoscaler/autoscaler.go` | `cleanupObjects`, the counters, the objects in the cluster | "scale up and down", "It scales from/to zero", `BeforeEach`, `AfterEach` | cluster-autoscaler, Job controller, garbage collector, event watcher |
| Machineset specs | `pkg/infra/infra.go` with `pkg/framework/machinesets.go`, `machines.go` | `machineSet`, `machineSetParams` | create, scale, delete, three kinds of waits | machineset and machine controllers |
| Drain spec | `pkg/infra/infra.go`, `pkg/framework/nodes.go` | `delObjects`, what a poll has read | `WaitUntilAllRCPodsAreReady`, `VerifyNodeDraining`, `WaitUntilNodeDoesNotExists`, `deleteObjects` | RC controller, scheduler, kubelets, disruption budget, machine controller |
| Health check spec | `pkg/machinehealthcheck`, `framework/machinehealthcheck.go`, `nodes.go` | machineset, a node condition | `AddNodeCondition`, `CreateMHC`, two waits | MHC controller, kubelet |
| Taints, invalid machineset, spot specs | `pkg/infra/infra.go`, `spot.go` | none of their own | one update or create, one wait each | nodelink and machineset controllers |
| Operator specs | `pkg/operators`, `framework/deployment.go`, `framework.go` | none | polls of a status, one deletion | the operators |
| Suite entry | `pkg/e2e_test.go`, `Makefile`, `hack/` | none | runs Ginkgo | |

The parts interact through the cluster (objects of the API server), through the
framework's waits, and, in the autoscaler specs, through the event watcher's
counters, which another goroutine writes. `hack/ci-integration.sh` runs Ginkgo
with `--failFast`: the autoscaler specs one after the other, the others in
parallel processes (`-p`) that keep apart by random names, but for RC, PDB and the
invalid machineset, each of one spec only.

What is hard here: the informer's goroutine against the spec's; verdicts put
together from several reads of a cluster that moves; statuses that lag behind
what they describe; waits that end on the wrong condition, or never; calls that
fail before or after their effect and what they leave behind; objects whose
names are fixed and whose deletion takes time; equality with a count that is
still growing. `PROJECT.json` lists these hazards line by line with the
properties that cover them.

What makes each part correct:

- watcher: each event is counted once by every counter that was enabled for it,
  none from before the watch, none lost, and `run` returns;
- autoscaler specs: an autoscaler that exceeds `maxNodesTotal` fails the spec,
  and one that does not is not accused; everything created is deleted;
- machineset specs: when a wait returns, what it waited for is so;
- drain spec: only a controller that ignores the budget is accused of it, and a
  verified drain was one;
- specs that write a node others write too: no taint is lost to an old copy, the
  spec does not make its own update conflict, the marked node is remediated;
- operator specs: polls of polls end in bounded time, and a spec passes on what it
  has caused, not on what was there before;
- infra specs together: what may be left behind, and when a cleanup may fail.

## The modules

| Module | Role |
|---|---|
| `EventCounting` | abstract specification: what event counters promise |
| `EventWatcher` | the watcher in detail; `Counting == INSTANCE EventCounting WITH ...` |
| `AutoscalerScaleTest` | "scale up and down", composed with `EventCounting` (as `EC`) |
| `AutoscalerCleanup` | the objects of both autoscaler specs under failing calls |
| `MachineSetWaits` | the machineset and health check specs and their waits |
| `NodeDrain` | the drain spec |
| `NodeWrites` | the taints spec and the marking of a node as unhealthy |
| `OperatorSpecs` | the operator specs and the polls they are made of |
| `InfraCleanup` | the objects of all infra specs under failing calls, over several runs |
| `MachineSetLabels` | labels and selector of the transient machinesets |
| `EventWatcherProofs`, `AutoscalerScaleTestProofs`, `AutoscalerCleanupProofs`, `MachineSetWaitsProofs`, `NodeDrainProofs`, `NodeWritesProofs`, `OperatorSpecsProofs`, `InfraCleanupProofs` | proofs; that of the scale test also has the theorems about `MachineSetLabels` |
| `MCEventWatcher`, `MCAutoscalerScaleTest`, `MCMachineSetWaits` | instances for TLC |

### EventWatcher and EventCounting

Three goroutines. The *informer* is client-go's: `List` reads what there is,
`Deliver` puts an event it did not know into the store and an `add` into the
listener's queue, `Modify` an `update`; `HandleDeltas` decides which by looking
at the store (`Notification`). The *listener* runs `AddFunc`: the start filter
(`BeforeStart`, on stamps cut to the second), then `BeginDispatch` takes
`eventHandlerLock`, `Dispatch` is one turn of the loop under the handler's own
lock, `EndDispatch` gives the lock back. Holding `eventHandlerLock` is
`cur # NoEvent`, so `OnEvent` (registering) waits for it; `Enable` needs only the
handler's lock and can fall between two turns. The *spec* starts, registers,
enables and stops. `counted` and `due` are history variables: which events a
counter was stepped for, and which it must count (created while it was enabled
and a whole second after the start).

`EventCounting` has none of that: an event occurs, a counter tracks, a counter
counts an event it tracks once. The refinement maps `occurred` to the events
created since the start time and `tracking` to the enabled handlers; `counter`
and `counted` are the same. `AutoscalerScaleTest` is built on `EventCounting`
alone, which is what the refinement is for.

### AutoscalerScaleTest

One action per statement that acts on the cluster or on a counter, from the
creation of the MachineAutoscalers on. `Eventually` is an action that is enabled
when its poll would succeed, with a `Timeout` beside it; `Consistently` polls at
once (`HoldPoll`), fails on a bad poll (`HoldBroken`) and may end without looking
again (`HoldOver`). The autoscaler may be `faulty`: it then ignores the limit and
may do nothing, and the question is whether the spec tells. `due` is the history of
what a counter is owed: the events created after it was enabled. An event from
before may still be delivered to it, as in `EventWatcher`, but nothing promises it,
so a spec that counted too late would wait for ever. The limit event is
created once and only updated afterwards, as the event recorder does; the
counters see creations only. `AwaitPods` asks for `FALSE`, since `BeZero()`
accepts a `false`, and the scale-down counter begins at the value it is compared
with: both are what the code does (see the findings).

### AutoscalerCleanup

The bodies of the two specs as sequences of operations on objects, run by one
interpreter with an action per kind of operation; `BeforeEach` and `AfterEach`
around them. Calls fail before or after their effect, `AfterEach` deletes in any
order (a map iteration) and stops at its first failure, deletions are foreground
deletions that end later. The names of ClusterAutoscaler and Job are shared
between the specs, other names are fresh. `excused`, `stranded` and `refused` are the
history of what was lost and by whose fault. `Each` is a loop over the transient
machinesets, the same calls for each of them.

A call can be refused with nothing broken. The first spec does not await the end
of its Job; if it is still being deleted when the second spec gets there, which
tracks its own Job before it creates it, that one is refused the name, and
`AfterEach` may find that there is no Job any more: the deletion answers NotFound
and ends the cleanup there. What is left then is `stranded`, kept apart from what a
failing call leaves (`excused`). `LeftBehindOnlyByFailure` says that these are all the
ways to lose an object; `NothingLeftBehind`, that none is lost if no call fails, is
what the comment promises and is violated.

### MachineSetWaits

The specs "recover", "grow and decrease", the machine deletion of "drain" and the
second half of "remediate unhealthy nodes" (`it = "health"`), as segments
`BeforeEach`, body, deferred calls, `AfterEach`. A `WaitForMachineSet` is
`WaitBegin` (it reads the machineset once), `WaitList`, then `WaitNode` per
machine, then `WaitEnd`, with the controllers moving in between, and a node turning
NotReady at any moment (`NodeNotReady`, up to `MaxDrops` times). A node that does so
after the poll has read it is beyond what the code can see: `lapsed` is the history
of those, and the only exception of `WaitMeansReady`;
`WaitForMachineSetDelete` is a list and a get. `LabelForDrain` is the assignment
to the label map the machineset object shares. In "health" the spec marks a node
and creates the MachineHealthCheck, and the health check controller deletes the
machine (`Remediated`) at some moment after both.

### NodeDrain

Replicas are counted by where they are: without a node, starting or ready on one
of two nodes. `SyncStatus` writes RC status from the pods some time later, so
what the spec reads may be old. `VerifyNodeDraining` is four actions, one per read
(machine, node, pods, RC); a poll that reads something unwanted ends (`Retry`),
one that finds the budget exceeded fails the spec. A `faulty` machine controller
evicts without asking for the budget. With `MayBeRefused = FALSE` the RC is taken at
its best, all pods created in one step; with it, in batches. A call that fails
(`CallFails`) ends the spec without effect here; what it leaves after its effect is
`InfraCleanup`'s. `polls` and `rushed` are history variables
for `DrainSeen`.

### NodeWrites

The API server's node and machine with their versions, the copies the spec and
the nodelink controller made of them, and four other writers: kubelet, node
lifecycle controller, health check controller, anybody (`Touch`). An `Update`
compares versions; `AddNodeCondition`'s merge patch does not, and replaces the
list of conditions by the copy's. The kubelet's own patch is keyed by the type of
a condition and leaves the new one in place, which is why `Remediated` holds:
what the patch can revert is the kubelet's part, and only until it writes again.

### OperatorSpecs

`wait.PollImmediate` as vendored: a try before the timer is started, one per tick,
one more after the timer has fired (`TryAgain`). `IsDeploymentAvailable` polls
`GetDeployment`, which polls: `outer` and `inner` are the two timers, `now` the
ticks since the helper was called. Every call may fail at any try;
`DeleteDeployment` and the webhook specs' `Create` may also take effect and lose
their answer (`lost`, a history variable). The operators may do nothing at all.
A retried deletion hits the deployment of that name, whatever its uid. Of the
webhook specs only the wait and the end are checked: their verdict is one
`Expect(err).To(HaveOccurred())`, which any error meets, that of a name still taken
included, so a property about it would repeat that line or be refuted by it.

### InfraCleanup

Six specs as sequences of operations on objects (`Plain`: the two that create
nothing themselves; `Spot` the two spot specs), each in a mode: body with
`BeforeEach`, what it deferred, `AfterEach`, the wait that ends it. Calls fail by
kind, before or after their effect (`FaultyCalls`, `MaxFaults`); waits time out
at will. `held` is the variable `machineSet` of the `Describe`, which keeps the
machineset of the spec before if `BeforeEach` fails: `old`. `NextSpec` goes to
any later spec of the run or to the first of the next run, so `--failFast`, other
orders and other processes are all included. Fresh names are forgotten at
`NextSpec`, the fixed ones (RC, PDB, invalid machineset) are not. The events of the
invalid machineset outlive it; `misled` is the history of a wait that took an
old one. `excused` is the history of what a failing call left behind.

### MachineSetLabels

`NewMachineSet` as a function on label maps. It has no state: there is no run,
and the three theorems about it in `AutoscalerScaleTestProofs` say what the maps
guarantee.

## The runs

| Run | Instance | Shows |
|---|---|---|
| `event_watcher` | 2 events, 2 counters, width 3, second of 2 ticks, 4 ticks, 1 update | the four invariants, refinement, two liveness properties |
| `scale_test` | 3 groups, 1 other node | `OvershootCaught`, `AssertMeansFaulty`, `CompliantScalesUp` |
| `scale_down_seen` | the same | violated: two findings |
| `cleanup` | 2 transient machinesets, up to 2 failing calls | `OwnedIsTracked`, `LeftBehindOnlyByFailure`, `PassedMeansCAGone`, `SingletonCA` |
| `everything_is_cleaned_up` | the same, no failing call | violated: finding |
| `machineset_waits` | 4 machines, 2 replicas, 2 machinesets, one node that turns NotReady | `WaitMeansReady`, `SetDeleteMeansGoneUnlabelled`, `SpecsEnd` |
| `set_delete_means_gone` | the same | violated: finding |
| `node_drain` | 4 replicas, none refused | `BlameIsDeserved`, `VerifiedMeansDrained`, `DrainSeen` |
| `blame_is_deserved` | 4 replicas, some may be refused | violated: finding |
| `node_writes` | 3 foreign writes | `TaintsVerified`, `ConflictMeansOthers`, `TaintsAdditive`, `StatusLostOnlyByPatch`, `Remediated` |
| `operator_specs` | timeouts of 3 and 5 ticks, 4 deployments | `TimeoutInBounds`, `AvailableAgainMeansRecreated`, `DeletedOnce`, `SpecEnds` |
| `infra_cleanup` | 2 failing calls of all kinds, 2 runs | `LeftBehindOnlyByFailure`, `FaultyControllerCaught`, `CleanupFailsOnlyByFault` |

**Bounds.** Two events and two handlers are what overtaking, double delivery and
registration during a dispatch need; a width of 3 makes both counters wrap; two
ticks a second with a start in either of them gives stamps that are cut below the
start time; one update per run shows an update of a queued, a dispatched and a
counted event. The proofs remove these bounds. Three groups are the spec's own
number. The event sets of `AutoscalerScaleTest` allow every group to grow, one
limit event and as many scale-downs as the correct test would wait for. Two
failing calls let one fail in the body and one in `AfterEach`, or one in each
spec. The proofs of the two cleanup modules cover any number of failures, of
machinesets and of runs. One node that turns NotReady does so before or after it is
read, or between two waits; the proofs cover any number. Four machines give each of two replicas a replacement, or two machinesets
of two. Four replicas make "at most one not ready" and "at most two on the
drained node" different from "all" and from each other; the proofs cover any
number (the code has 20). Three foreign writes are one before each write of a
spec and one more; the proofs cover any number, as they do for machines and
replicas. Timeouts of 3 and 5 ticks make the
outer deadline fall into the middle of an inner poll; four deployments are the
initial one, its successor, and one for each deletion repeated in the time there
is; the proofs cover all timeouts. Two runs are what a leftover of a fixed name
needs to meet its next creation.

**Deadlock** is not checked: every spec ends, and the cluster may then have
nothing left to do.

**Fairness.** `EventWatcher`: the informer and the listener's goroutine are
scheduled and the API server answers; nobody has to create events, register,
enable or stop. `AutoscalerScaleTest`: the spec's goroutine runs, an
event is delivered to the counters that were enabled when it was created (`due`:
this is `DueIsCounted` of the watcher, and no more), the Job controller works, and an
autoscaler that is not faulty does what it is configured to do; a faulty one owes
nothing. `MachineSetWaits` and `NodeDrain`: the spec's goroutine runs and the
controllers retry until they are done, as reconcilers do, and a node that turned
NotReady comes back. `NodeWrites`: the spec's
goroutine, the kubelet's status loop and the health check controller (the one
under test) run; the other writers owe nothing. `OperatorSpecs`: only the spec's
goroutine runs, since its polls must end whoever stops; a step of the clock is
part of a poll, as calls take no time. `InfraCleanup` has no fairness and no
liveness property. Timeouts are never fair; the liveness properties of the other
modules are about runs in which no wait times out, since a timeout can come at
any moment and says nothing about the code.

## What the findings are

1. `scale_down_seen`: the scale-down counter starts where it should end
   (`autoscaler.go:408`), so the wait passes before any event.
2. `scale_down_seen`: `BeZero()` on a bool (`autoscaler.go:430`) waits for a pod to be
   there, not to be gone. The property asks that one of the two waits has seen
   what it is for; its trace passes both without. Either one put right, it holds.
3. `everything_is_cleaned_up`: "Anything we create we must cleanup"
   (`autoscaler.go:247`), but the second spec tracks its Job (`autoscaler.go:504`)
   before it creates it under a name that the first spec's Job may still hold, and
   the NotFound of the Job it never had ends `AfterEach`.
4. `set_delete_means_gone`: the drain spec changes the label map that the
   machineset object's selector shares (`infra.go:275`), so `AfterEach` looks for
   machines with labels none has.
5. `blame_is_deserved`: `WaitUntilAllRCPodsAreReady` compares the status with
   itself and not with the replicas asked for (`nodes.go:242`); if the RC is late
   with some, the drain is blamed for them.

What failing calls do to the cleanup is not counted as a finding. The comments do
ask for more ("Anything we create we must cleanup", `autoscaler.go:247`; "get deleted
anyway", `infra.go:248`, `infra.go:287`), and read to the letter they are broken by any
call that fails in a cleanup; but no cleanup can delete what the API server will
not let it, so the properties take the failing call as their exception and check
that there is no other. A
lost answer to a Create leaves an object; `AfterEach` stops at the first deletion
that fails (`autoscaler.go:253`, `infra.go:135`); a MachineHealthCheck or the invalid
machineset is left by any failure of its spec; a Get that fails for another
reason counts as "deleted" (`autoscaler.go:458`, `542`); a ReconcileError event of an
earlier run lets a faulty machineset controller pass (`infra.go:350`). The hazards of
`PROJECT.json` that are of this kind name no property and say so.

## What is proved

The proofs hold for all values of the constants under the named assumptions of
the modules: for the watcher, that the matchers, directions and initial values
are functions of the right type, that events are finite and no more than a
counter can tell apart, and that a second has at least one tick; for the scale
test, that groups and events are finite, that there are two groups or more, and
that the counters are wide enough for both; for the machineset specs, that
machines are finite and two replicas or more are asked for; for the drain, that
there is at least one replica; for the operator specs, that neither timeout is
zero; for the two cleanup modules, that there is a transient machineset and at
least one run, and that the calls that may fail are among those named.

`EventWatcherProofs`
- `TypeCorrect`: `Spec => []TypeOK`; the counters stay within their width.
- `Invariant`: `Spec => [](TypeOK /\ IInv)`. None of the three invariants below is
  inductive alone. That an event is counted once needs that it is announced once
  (`OneWay`: an `add` in the queue is unique, in the store, not being dispatched,
  and counted by nobody) and that the loop visits a handler once
  (`DispatchOnce`: registrations are distinct, handlers ahead have not counted the
  current event). That none is lost needs that a due event gets through the
  filter and is accepted when its turn comes (`DueAccepted`), with the arithmetic
  that cutting a stamp takes less than a second away.
- `CountsExactly`, `CountsNothingStale`, `LosesNothing`: the invariants
  `CounterExact`, `NoStaleEvent` and `NoLostEvent`.
- `Refinement`: `Spec => Counting!Spec`; a `Dispatch` that is accepted is a
  `Count`, `CreateEvent` an `Occur`, `Enable` a `Track`, all else stutters. It
  needs `IInv` for the guard of `Count`: that the event has not been counted and
  occurred after the start.

`NodeDrainProofs`
- `DrainTypeCorrect`: the counts keep their types, and the replicas never exceed
  what the RC asks for.
- `VerifiedIsDrained`: `VerifiedMeansDrained`, from `PollHolds`: nothing but the
  machine controller changes the cordon, and a cordoned node only loses pods, so
  what a poll read stays an upper bound.
- `OnlyTheFaultyAreBlamed`: if `~MayBeRefused`, `BlameIsDeserved`, from
  `BudgetKept`: until the machine is deleted the pods are none or all and the
  status never shows more ready than there are, so the wait for all replicas
  means all; from then on every eviction leaves all but one ready, in the cluster
  and in every status written since. The assumption is needed: the run
  `blame_is_deserved` shows it false without.

`AutoscalerScaleTestProofs`
- `ScaleTestCounts`: `Spec => EC!Spec`, whatever the spec and the cluster do they use
  the counters as `EventCounting` allows. With `Refinement` this is what the
  composition rests on: the watcher may stand in for `EC`.
- `NewSetSelectsItsMachines`, `NewSetsAreApart`, `TargetKeepsItsMachines`: for all
  label maps of `MachineSetLabels`, since what `NewMachineSet` pins is not
  overwritten. The counts of one machineset are not disturbed by another.
- `ScaleTestInvariant`, and from it `ScaleTestTypeCorrect`, `NoOvershootPasses`
  (`OvershootCaught`) and `NoCompliantBlamed` (`AssertMeansFaulty`). The invariant is
  a chain: the counter is the number of events it counted (`UpIsCounted`), which
  happened; each of them has grown one group, and no group shrinks before the
  workload is deleted; a compliant autoscaler leaves one group small
  (`UpIsGrown`). `UpIsKnown` says what the spec's own place tells of the counter:
  it never falls, so what it showed before `Consistently` bounds it during. With
  both ends `Holds` is an equality between the first and the last number.

`MachineSetWaitsProofs`
- `WaitsInvariant`, and from it `WaitsTypeCorrect`, `WaitReturnsReady`
  (`WaitMeansReady`) and `DeleteWaitReturnsGone` (`SetDeleteMeansGoneUnlabelled`). A
  wait reads machine after machine, so the invariant must say that what it has
  found stays so (`Polled`): nobody marks a machine of a machineset that is neither
  gone nor too large, but the spec itself (`Steady`), and its victim is gone before
  it waits for that machineset (`Victims`); the list had as many machines as are
  asked for, so none is added; and a node it read was ready and still is, or has
  lapsed. `SetsExist` and `Waiting` say where in its script a
  spec is when it waits for which machineset; the facts about the scripts are the
  lemma `TheSteps`, proved script by script.

`NodeWritesProofs`
- `WritesTypeCorrect`, `VerifiedTaintsStay`, `ConflictsAreOthers`, `TaintsOnlyAdded`,
  `PatchOfFreshCopyAdds`. The invariant says that equal versions mean equal
  content, for the spec's and the nodelink controller's copies alike
  (`VersionsIdentify`): then an update that is accepted is made from what is
  stored. `Position` gives what has been written at each step, and `Quiet` what
  node, machine and copies are as long as nobody else has written: the nodelink
  controller has nothing to add to the node before the machine has its taint.

`OperatorSpecsProofs`
- `OperatorsTypeCorrect`, `TimesOutInBounds`, `PassesOnARecreatedDeployment`,
  `DeletesOnce`. `InnerInTime` and `OuterInTime` bound when
  the innermost poll began against the outer deadline, `FailedAtLast` says that
  only a last try fails; `Lineage` orders the uids: `initial` is read before the first
  deletion, a deployment in the cluster is the last one created, and after
  `DeleteDeployment` it is a later one than `initial` or none.

`AutoscalerCleanupProofs`, for every number of machinesets, every choice of calls
that may fail and every number of failures
- First what the two bodies guarantee as sequences of calls (`Tidy`, `OneCA`), lemma
  by lemma for the loops, the calls on one object and their concatenation
  (`Loop`, `Joined`, `Bodies`): an object is tracked right after or right before
  it is created, and forgotten only right after its deletion; the
  ClusterAutoscaler is created once; the last call awaits its absence.
- `CleanupInvariant`, and from it `CleanupTypeCorrect`, `OwnedIsAlwaysTracked`
  (`OwnedIsTracked`), `OnlyFailureLeavesBehind` (`LeftBehindOnlyByFailure`),
  `PassesWithoutCA` (`PassedMeansCAGone`) and `CAIsCreatedOnce` (the action property
  `SingletonCA`). `OwnedIsTracked` looks at the beginning of `AfterEach` only; the
  invariant must follow an object through the body, where it is tracked or the
  very next call tracks it (`BodyTracks`, with `JustDone` for what the last call
  has done), through `AfterEach` (`AfterEachDeletes`), and from spec to spec
  (`Accounted`). That no other NotFound can end `AfterEach` needs the converse: a body
  tracks nothing it does not own but what the very next call creates or forgets
  (`TracksNoMore`), so `AfterEach` finds all it deletes unless a call has failed or
  the creation of a tracked object was refused. `NameIsFree` says up to where a spec may rely on the name of the
  ClusterAutoscaler.

`InfraCleanupProofs`, for every choice of calls that may fail and every number of
failures and of runs
- `InfraInvariant`, and from it `InfraTypeCorrect`, `OnlyFailedSpecsLeaveBehind`
  (`LeftBehindOnlyByFailure`), `FaultyDoesNotPass` (`FaultyControllerCaught`) and
  `CleanupFailsByFaultOnly` (the action property `CleanupFailsOnlyByFault`). The
  properties speak of the end of a spec; the invariant says of every object in
  the cluster who will delete it at each moment before (`Accounted`), that what
  a spec has made is still there (`Made`) and can be deleted after it has passed
  (`CanBeDeleted`), and that an event of the invalid machineset tells the truth
  about the machines of its controller (`EventIsTrue`), which the spec cannot
  miss when it lists them (`NotMissed`). What the six bodies have in common is
  the lemma `Scripts`.

Model-checked only: the liveness properties `DueIsCounted`, `RunReturns`,
`CompliantScalesUp`, `SpecsEnd`, `DrainSeen`, `SpecEnds` and `Remediated`. Fairness and
ENABLED are out of the prover's reach. Every other property of the passing runs,
invariant or action property, has its theorem.

## What is not modelled

Logging and messages; JUnit output; resource quantities (70% of a node's memory);
the rewriting of provider specs; `scaledGroups`, which is filled and never read;
time beyond ticks, seconds and "may time out". Reads that fail inside a poll that
retries them change nothing and have no action. The bodies of the spot specs only
read; they are one await. Queries (`GetNodes`, `GetMachines`, ...) are a read and a
filter and appear in the waits that use them. `DeleteObjectsByLabels` has no
caller. Of the vendored libraries the poll loop (`OperatorSpecs`), the informer
(`EventWatcher`), the machine controller and the drain (`NodeDrain`, `MachineSetWaits`)
are modelled from their source under `src/vendor`, as far as the specs meet them.
External are the cluster-autoscaler, the machineset, nodelink and health check
controllers, the Kubernetes controllers, scheduler, kubelets, garbage collector and
Ginkgo.

## What is left

1. The specs of two parallel processes in one cluster: they meet in the numbers of
   nodes and machines only, which the specs that count them read once.
