------------------------------ MODULE NodeDrain ------------------------------
(***************************************************************************)
(* The spec "drain node before removing machine resource" of               *)
(* pkg/infra/infra.go with the waits of pkg/framework/nodes.go it uses,    *)
(* from the creation of its workload on.  It runs against the replication  *)
(* controller, the scheduler and the kubelets (external) and the machine   *)
(* controller, whose Reconcile and drainNode are vendored.                 *)
(*                                                                         *)
(* A replica is a member of a count: waiting for a node, starting or ready *)
(* on one of the two nodes that carry nodeDrainLabels.  A pod that is being *)
(* terminated has left all counts, as in RC.Status and VerifyNodeDraining. *)
(* A call that the code retries after an error has no action of its own;   *)
(* what a call that fails after its effect leaves is InfraCleanup's.  With *)
(* MayBeRefused = FALSE the replication controller is taken at its best:   *)
(* it creates all pods at once, not in batches.                            *)
(***************************************************************************)
EXTENDS Integers

CONSTANTS
    Replicas,       \* rc.Spec.Replicas (20 in the code)
    MayBeRefused    \* the API server may refuse some of the pods for a while

ASSUME ReplicasAssumption == Replicas \in Nat \ {0} /\ MayBeRefused \in BOOLEAN

Nodes == {"drained", "other"}   \* the nodes of machines[0] and machines[1]

VARIABLES
    pc, reason,     \* the step of the spec, and why it failed, or "none"
    poll,           \* what the poll of VerifyNodeDraining reads next
    podCounter,     \* its podCounter
    tracked,        \* delObjects
    objects,        \* those of "rc" and "pdb" that exist
    waiting,        \* the replicas without a node
    starting, ready,\* starting[n], ready[n]: the replicas on n
    status,         \* rc.Status: replicas and readyReplicas
    machine, node,  \* machines[0]: "present", "deleting", "gone"; its node exists
    unschedulable,  \* node.Spec.Unschedulable
    faulty,         \* the machine controller ignores disruption budgets
    polls,          \* history: polls that ended since the last eviction or cordon, up to 2
    rushed          \* history: the machine went before a whole poll saw what was left

specVars    == <<pc, reason, poll, podCounter, tracked, objects>>
podVars     == <<waiting, starting, ready>>
machineVars == <<machine, node, unschedulable, faulty>>
history     == <<polls, rushed>>
vars        == <<specVars, podVars, status, machineVars, history>>

PodsOn(n)  == starting[n] + ready[n]
\* A bug the checks must find: the replicas without a node are not counted.
ActivePlaced == PodsOn("drained") + PodsOn("other")
Active     == waiting + PodsOn("drained") + PodsOn("other")
ReadyTotal == ready["drained"] + ready["other"]

Init ==
    /\ pc = "createRC" /\ reason = "none"
    /\ poll = "machine" /\ podCounter = 0
    /\ tracked = {} /\ objects = {}
    /\ waiting = 0
    /\ starting = [n \in Nodes |-> 0] /\ ready = [n \in Nodes |-> 0]
    /\ status = [replicas |-> 0, readyReplicas |-> 0]
    /\ machine = "present" /\ node = TRUE /\ unschedulable = FALSE
    /\ faulty \in BOOLEAN
    /\ polls = 0 /\ rushed = FALSE

-----------------------------------------------------------------------------
(* The replication controller, the scheduler and the kubelets (external). *)

\* The controller creates what is missing, a part of it if the rest is refused.
CreatePods ==
    /\ "rc" \in objects /\ Active < Replicas
    /\ \E n \in 1..(Replicas - Active) :
          /\ MayBeRefused \/ n = Replicas - Active
          /\ waiting' = waiting + n
    /\ UNCHANGED <<specVars, starting, ready, status, machineVars, history>>

\* And writes the status it computes from the pods it lists.
SyncStatus ==
    /\ "rc" \in objects
    /\ status' = [replicas |-> Active, readyReplicas |-> ReadyTotal]
    /\ UNCHANGED <<specVars, podVars, machineVars, history>>

Schedule(n) ==
    /\ waiting > 0
    /\ n = "drained" => node /\ ~unschedulable
    /\ waiting' = waiting - 1
    /\ starting' = [starting EXCEPT ![n] = @ + 1]
    /\ UNCHANGED <<specVars, ready, status, machineVars, history>>

PodReady(n) ==
    /\ starting[n] > 0
    /\ starting' = [starting EXCEPT ![n] = @ - 1]
    /\ ready' = [ready EXCEPT ![n] = @ + 1]
    /\ UNCHANGED <<specVars, waiting, status, machineVars, history>>

-----------------------------------------------------------------------------
(* The machine controller: Reconcile of a machine with a deletion timestamp. *)

Cordon ==
    /\ machine = "deleting" /\ ~unschedulable
    /\ unschedulable' = TRUE
    /\ polls' = 0
    /\ UNCHANGED <<specVars, podVars, status, machine, node, faulty, rushed>>

\* The API server grants the eviction of a ready pod while the budget
\* (maxUnavailable 1) lasts.
Evict ==
    /\ machine = "deleting" /\ unschedulable
    /\ \/ /\ starting["drained"] > 0
          /\ starting' = [starting EXCEPT !["drained"] = @ - 1]
          /\ UNCHANGED ready
       \/ /\ ready["drained"] > 0
          /\ faulty \/ "pdb" \notin objects \/ ReadyTotal > Replicas - 1
          /\ ready' = [ready EXCEPT !["drained"] = @ - 1]
          /\ UNCHANGED starting
    /\ polls' = 0
    /\ UNCHANGED <<specVars, waiting, status, machineVars, rushed>>

\* The node is drained and the instance gone: the node is deleted, then the
\* finalizer of the machine.
DeleteNode ==
    /\ machine = "deleting" /\ unschedulable /\ node
    /\ PodsOn("drained") = 0
    /\ node' = FALSE
    /\ rushed' = (rushed \/ (pc = "verify" /\ polls < 2))
    /\ UNCHANGED <<specVars, podVars, status, machine, unschedulable, faulty, polls>>
RemoveFinalizer ==
    /\ machine = "deleting" /\ ~node
    /\ machine' = "gone"
    /\ UNCHANGED <<specVars, podVars, status, node, unschedulable, faulty, history>>

-----------------------------------------------------------------------------
(* The spec. *)

Go(from, to) ==
    /\ pc = from /\ pc' = to
    /\ UNCHANGED reason

\* A failed assertion runs the deferred deleteObjects.
Fail(why) ==
    /\ pc' = "cleanup" /\ reason' = why
    /\ UNCHANGED <<podCounter, tracked, objects, podVars, status, machineVars>>

\* client.Create and delObjects, for the RC and for the PDB.
Create(o, from, to) ==
    /\ Go(from, to)
    /\ objects' = objects \cup {o}
    /\ tracked' = tracked \cup {o}
    /\ UNCHANGED <<poll, podCounter, podVars, status, machineVars, history>>
CreateRC  == Create("rc", "createRC", "createPDB")
CreatePDB == Create("pdb", "createPDB", "awaitReady")
\* One of the two creates, or the deletion of the machine, fails without effect.
CallFails ==
    /\ pc \in {"createRC", "createPDB", "deleteMachine"}
    /\ Fail("call")
    /\ UNCHANGED <<poll, history>>

\* A bug the checks must find: one ready replica is enough.
SomeReady == status.readyReplicas # 0
\* WaitUntilAllRCPodsAreReady
AllReady == status.readyReplicas # 0 /\ status.replicas = status.readyReplicas

AwaitReady ==
    /\ AllReady
    /\ Go("awaitReady", "deleteMachine")
    /\ UNCHANGED <<poll, podCounter, tracked, objects, podVars, status, machineVars, history>>

DeleteMachine ==
    /\ Go("deleteMachine", "verify")
    /\ machine' = "deleting"
    /\ UNCHANGED <<poll, podCounter, tracked, objects, podVars, status, node, unschedulable,
                   faulty, history>>

\* VerifyNodeDraining polls until a poll reads what it wants to the end.
PollGoesOn(next) ==
    /\ poll' = next
    /\ UNCHANGED <<pc, reason, polls>>
PollEnds ==
    /\ poll' = "machine"
    /\ polls' = IF polls < 2 THEN polls + 1 ELSE polls
Retry == PollEnds /\ UNCHANGED <<pc, reason>>

PollMachine ==
    /\ pc = "verify" /\ poll = "machine"
    /\ IF machine # "gone" THEN PollGoesOn("node") ELSE Retry
    /\ UNCHANGED <<podCounter, tracked, objects, podVars, status, machineVars, rushed>>

\* A bug the checks must find: any node will do.
NodePassesAny == node
NodePasses    == node /\ unschedulable

PollNode ==
    /\ pc = "verify" /\ poll = "node"
    /\ IF NodePasses THEN PollGoesOn("pods") ELSE Retry
    /\ UNCHANGED <<podCounter, tracked, objects, podVars, status, machineVars, rushed>>

PollPods ==
    /\ pc = "verify" /\ poll = "pods"
    /\ podCounter' = PodsOn("drained")
    /\ PollGoesOn("rc")
    /\ UNCHANGED <<tracked, objects, podVars, status, machineVars, rushed>>

\* A bug the checks must find: no replica may be missing.
BudgetExceededByOne == status.replicas - status.readyReplicas > 0
BudgetExceeded      == status.replicas - status.readyReplicas > 1

PollRC ==
    /\ pc = "verify" /\ poll = "rc"
    /\ PollEnds
    /\ IF BudgetExceeded
       THEN Fail("budget")
       ELSE /\ IF podCounter > 2
               THEN UNCHANGED <<pc, reason>>
               ELSE Go("verify", "awaitMachineGone")
            /\ UNCHANGED <<podCounter, tracked, objects, podVars, status, machineVars>>
    /\ UNCHANGED rushed

AwaitMachineGone ==
    /\ machine = "gone"
    /\ Go("awaitMachineGone", "awaitNodeGone")
    /\ UNCHANGED <<poll, podCounter, tracked, objects, podVars, status, machineVars, history>>

AwaitNodeGone ==
    /\ ~node
    /\ Go("awaitNodeGone", "cleanup")
    /\ UNCHANGED <<poll, podCounter, tracked, objects, podVars, status, machineVars, history>>

Timeout ==
    /\ pc \in {"awaitReady", "verify", "awaitMachineGone", "awaitNodeGone"}
    /\ Fail("timeout")
    /\ UNCHANGED <<poll, history>>

\* deleteObjects: the first call that fails ends it.
Cleanup ==
    /\ pc = "cleanup"
    /\ \/ \E o \in tracked :
            /\ tracked' = tracked \ {o}
            /\ objects' = objects \ {o}
            /\ UNCHANGED pc
       \/ /\ pc' = "ended"
          /\ UNCHANGED <<tracked, objects>>
    /\ UNCHANGED <<reason, poll, podCounter, podVars, status, machineVars, history>>

-----------------------------------------------------------------------------
Cluster == CreatePods \/ SyncStatus \/ \E n \in Nodes : Schedule(n) \/ PodReady(n)
Drain   == Cordon \/ Evict \/ DeleteNode \/ RemoveFinalizer
Polling == PollMachine \/ PollNode \/ PollPods \/ PollRC
Step    == \/ CreateRC \/ CreatePDB \/ AwaitReady \/ DeleteMachine \/ Polling
           \/ AwaitMachineGone \/ AwaitNodeGone \/ Cleanup

Next == Cluster \/ Drain \/ Step \/ CallFails \/ Timeout

Spec == Init /\ [][Next]_vars

\* The goroutine of the spec runs, and so do the controllers.
Fairness ==
    /\ WF_vars(Step) /\ WF_vars(Drain)
    /\ WF_vars(CreatePods) /\ WF_vars(SyncStatus)
    /\ \A n \in Nodes : WF_vars(Schedule(n)) /\ WF_vars(PodReady(n))

FairSpec == Spec /\ Fairness
-----------------------------------------------------------------------------
TypeOK ==
    /\ pc \in {"createRC", "createPDB", "awaitReady", "deleteMachine", "verify",
               "awaitMachineGone", "awaitNodeGone", "cleanup", "ended"}
    /\ reason \in {"none", "call", "timeout", "budget"}
    /\ poll \in {"machine", "node", "pods", "rc"}
    /\ podCounter \in 0..Replicas
    /\ tracked \subseteq {"rc", "pdb"} /\ objects \subseteq {"rc", "pdb"}
    /\ waiting \in 0..Replicas
    /\ starting \in [Nodes -> 0..Replicas] /\ ready \in [Nodes -> 0..Replicas]
    /\ Active <= Replicas
    /\ status \in [replicas : 0..Replicas, readyReplicas : 0..Replicas]
    /\ machine \in {"present", "deleting", "gone"}
    /\ node \in BOOLEAN /\ unschedulable \in BOOLEAN /\ faulty \in BOOLEAN
    /\ polls \in 0..2 /\ rushed \in BOOLEAN

\* "pod disruption budget not respected, node was not properly drained": the spec
\* says so only of a machine controller that ignores the budget, although the
\* status it reads may be older than the evictions.
BlameIsDeserved == reason = "budget" => faulty

\* Once VerifyNodeDraining has returned, its node stays cordoned and at most two
\* replicas are left on it: what its poll read of the node and of the pods, one
\* after the other, still holds together.
VerifiedMeansDrained ==
    pc \in {"awaitMachineGone", "awaitNodeGone"} =>
        unschedulable /\ PodsOn("drained") <= 2

\* The spec sees the drain it waits for: unless a wait times out early, a call
\* fails or the machine goes before a whole poll saw what was left on its node,
\* it verifies the drain of a correct controller and sees machine and node go.
DrainSeen ==
    ~faulty /\ [](reason \notin {"timeout", "call"} /\ ~rushed)
        => <>(pc = "ended" /\ reason = "none" /\ machine = "gone" /\ ~node)
-----------------------------------------------------------------------------
(* The inductive invariants behind BlameIsDeserved and VerifiedMeansDrained. *)

\* The steps before the machine is deleted, and those that rely on the budget.
BeforeDelete == {"createRC", "createPDB", "awaitReady", "deleteMachine"}
Budgeted     == {"deleteMachine", "verify"}

\* The node stays cordoned once a poll found it so, and loses pods only.
PollHolds ==
    /\ pc \in BeforeDelete => poll = "machine"
    /\ pc = "verify" /\ poll \in {"pods", "rc"} => unschedulable
    /\ pc = "verify" /\ poll = "rc" => PodsOn("drained") <= podCounter

\* Nothing is evicted before all replicas are ready, and then at most one of them
\* is missing at a time, in the cluster and in every status written since.
BudgetKept ==
    /\ pc \in BeforeDelete =>
          /\ machine = "present"
          /\ Active \in {0, Replicas} /\ status.replicas \in {0, Replicas}
          /\ status.readyReplicas <= ReadyTotal
    /\ pc \in {"awaitReady"} \cup Budgeted => "pdb" \in objects
    /\ pc \in Budgeted =>
          /\ ReadyTotal >= Replicas - 1
          /\ status.readyReplicas >= Replicas - 1
    /\ reason # "budget"

DrainInv == PollHolds /\ VerifiedMeansDrained /\ (~MayBeRefused /\ ~faulty => BudgetKept)
=============================================================================
