--------------------------- MODULE NodeDrainProofs ---------------------------
(* The safety properties of NodeDrain for every number of replicas. *)
EXTENDS NodeDrain, TLAPS

(* TypeOK is inductive: the replicas never outnumber what the RC asks for. *)
LEMMA TypeOKStep == TypeOK /\ [Next]_vars => TypeOK'
<1> SUFFICES ASSUME TypeOK, [Next]_vars PROVE TypeOK'
  OBVIOUS
<1> USE ReplicasAssumption
    DEF specVars, podVars, machineVars, history, Nodes, PodsOn, Active, ReadyTotal
<1>1. CASE CreatePods
  BY <1>1 DEF TypeOK, CreatePods
<1>2. CASE SyncStatus
  BY <1>2 DEF TypeOK, SyncStatus
<1>3. ASSUME NEW n \in Nodes, Schedule(n) PROVE TypeOK'
  BY <1>3 DEF TypeOK, Schedule
<1>4. ASSUME NEW n \in Nodes, PodReady(n) PROVE TypeOK'
  BY <1>4 DEF TypeOK, PodReady
<1>5. CASE Evict
  BY <1>5 DEF TypeOK, Evict
<1>6. CASE Cordon \/ DeleteNode \/ RemoveFinalizer
  <2>1. CASE Cordon
    BY <2>1 DEF TypeOK, Cordon
  <2>2. CASE DeleteNode
    BY <2>2 DEF TypeOK, DeleteNode
  <2>3. CASE RemoveFinalizer
    BY <2>3 DEF TypeOK, RemoveFinalizer
  <2> QED BY <1>6, <2>1, <2>2, <2>3
<1>7. CASE CreateRC \/ CreatePDB \/ AwaitReady \/ DeleteMachine \/ AwaitMachineGone \/ AwaitNodeGone
  <2>1. CASE CreateRC \/ CreatePDB
    BY <2>1 DEF TypeOK, CreateRC, CreatePDB, Create, Go
  <2>2. CASE AwaitReady \/ AwaitMachineGone \/ AwaitNodeGone
    BY <2>2 DEF TypeOK, AwaitReady, AwaitMachineGone, AwaitNodeGone, Go
  <2>3. CASE DeleteMachine
    BY <2>3 DEF TypeOK, DeleteMachine, Go
  <2> QED BY <1>7, <2>1, <2>2, <2>3
<1>8. CASE Polling
  <2>1. CASE PollMachine \/ PollNode
    <3>1. poll' \in {"machine", "node", "pods"} /\ polls' \in 0..2
      BY <2>1 DEF TypeOK, PollMachine, PollNode, NodePasses, PollGoesOn, PollEnds, Retry
    <3>2. UNCHANGED <<pc, reason, podCounter, tracked, objects, podVars, status, machineVars, rushed>>
      BY <2>1 DEF PollMachine, PollNode, NodePasses, PollGoesOn, Retry
    <3> QED BY <3>1, <3>2 DEF TypeOK
  <2>2. CASE PollPods
    BY <2>2 DEF TypeOK, PollPods, PollGoesOn
  <2>3. CASE PollRC
    <3>1. poll' = "machine" /\ polls' \in 0..2
      BY <2>3 DEF TypeOK, PollRC, PollEnds
    <3>2. /\ pc' \in {"cleanup", "awaitMachineGone", pc}
          /\ reason' \in {"budget", reason}
          /\ UNCHANGED <<podCounter, tracked, objects, podVars, status, machineVars, rushed>>
      BY <2>3 DEF PollRC, BudgetExceeded, Go, Fail
    <3> QED BY <3>1, <3>2 DEF TypeOK
  <2> QED BY <1>8, <2>1, <2>2, <2>3 DEF Polling
<1>9. CASE CallFails \/ Timeout
  BY <1>9 DEF TypeOK, CallFails, Timeout, Fail
<1>10. CASE Cleanup
  BY <1>10 DEF TypeOK, Cleanup
<1>11. CASE UNCHANGED vars
  BY <1>11 DEF TypeOK, vars
<1> QED
  BY <1>1, <1>2, <1>3, <1>4, <1>5, <1>6, <1>7, <1>8, <1>9, <1>10, <1>11
  DEF Next, Cluster, Drain, Step

(* PollHolds and VerifiedMeansDrained are inductive: no step but the poll's own *)
(* adds pods to a cordoned node or takes the cordon away.                       *)
LEMMA PollStep ==
    TypeOK /\ PollHolds /\ VerifiedMeansDrained /\ [Next]_vars
        => (PollHolds /\ VerifiedMeansDrained)'
<1> SUFFICES ASSUME TypeOK, PollHolds, VerifiedMeansDrained, [Next]_vars
             PROVE  (PollHolds /\ VerifiedMeansDrained)'
  OBVIOUS
<1> USE ReplicasAssumption
    DEF specVars, podVars, machineVars, history, Nodes, PodsOn, BeforeDelete, TypeOK, PollHolds,
        VerifiedMeansDrained
<1>1. CASE CreatePods \/ SyncStatus
  BY <1>1 DEF CreatePods, SyncStatus
<1>2. ASSUME NEW n \in Nodes, Schedule(n) \/ PodReady(n) PROVE (PollHolds /\ VerifiedMeansDrained)'
  BY <1>2 DEF Schedule, PodReady
<1>3. CASE Drain
  BY <1>3 DEF Drain, Cordon, Evict, DeleteNode, RemoveFinalizer
<1>4. CASE CreateRC \/ CreatePDB \/ AwaitReady \/ DeleteMachine \/ AwaitMachineGone \/ AwaitNodeGone
  BY <1>4 DEF CreateRC, CreatePDB, Create, AwaitReady, DeleteMachine, AwaitMachineGone,
              AwaitNodeGone, Go
<1>5. CASE PollMachine \/ PollNode \/ PollPods
  BY <1>5 DEF PollMachine, PollNode, PollPods, NodePasses, PollGoesOn, PollEnds, Retry
<1>6. CASE PollRC
  <2>1. UNCHANGED <<starting, ready, unschedulable>> /\ poll' = "machine"
    BY <1>6 DEF PollRC, PollEnds, Fail
  <2>2. \/ pc' \in {"cleanup", pc}
        \/ pc' = "awaitMachineGone" /\ podCounter <= 2
    <3> HIDE DEF TypeOK, PollHolds, VerifiedMeansDrained
    <3>1. podCounter \in Nat
      BY DEF TypeOK
    <3>2. CASE BudgetExceeded
      BY <1>6, <3>2 DEF PollRC, Fail
    <3>3. CASE ~BudgetExceeded /\ podCounter > 2
      BY <1>6, <3>3 DEF PollRC
    <3>4. CASE ~BudgetExceeded /\ podCounter <= 2
      BY <1>6, <3>1, <3>4 DEF PollRC, Go
    <3> QED BY <3>1, <3>2, <3>3, <3>4
  <2>3. pc = "verify" /\ poll = "rc"
    BY <1>6 DEF PollRC
  <2> QED BY <2>1, <2>2, <2>3
<1>7. CASE CallFails \/ Timeout \/ Cleanup
  BY <1>7 DEF CallFails, Timeout, Cleanup, Fail
<1>8. CASE UNCHANGED vars
  BY <1>8 DEF vars
<1> QED
  BY <1>1, <1>2, <1>3, <1>4, <1>5, <1>6, <1>7, <1>8 DEF Next, Cluster, Step, Polling

(* BudgetKept is inductive when no pod is refused and the controller is correct. *)
LEMMA BudgetStep ==
    ASSUME ~MayBeRefused
    PROVE  TypeOK /\ ~faulty /\ BudgetKept /\ [Next]_vars => BudgetKept'
<1> SUFFICES ASSUME TypeOK, ~faulty, BudgetKept, [Next]_vars PROVE BudgetKept'
  OBVIOUS
<1> USE ReplicasAssumption
    DEF specVars, podVars, machineVars, history, Nodes, PodsOn, Active, ReadyTotal, BeforeDelete,
        Budgeted, TypeOK, BudgetKept
<1>1. CASE CreatePods
  BY <1>1 DEF CreatePods
<1>2. CASE SyncStatus
  BY <1>2 DEF SyncStatus
<1>3. ASSUME NEW n \in Nodes, Schedule(n) PROVE BudgetKept'
  BY <1>3 DEF Schedule
<1>4. ASSUME NEW n \in Nodes, PodReady(n) PROVE BudgetKept'
  BY <1>4 DEF PodReady
<1>5. CASE Evict
  BY <1>5 DEF Evict
<1>6. CASE Cordon \/ DeleteNode \/ RemoveFinalizer
  BY <1>6 DEF Cordon, DeleteNode, RemoveFinalizer
<1>7. CASE CreateRC \/ CreatePDB \/ AwaitMachineGone \/ AwaitNodeGone
  BY <1>7 DEF CreateRC, CreatePDB, Create, AwaitMachineGone, AwaitNodeGone, Go
<1>8. CASE AwaitReady
  BY <1>8 DEF AwaitReady, AllReady, Go
<1>9. CASE DeleteMachine
  BY <1>9 DEF DeleteMachine, Go
<1>10. CASE PollMachine \/ PollNode \/ PollPods
  BY <1>10 DEF PollMachine, PollNode, PollPods, PollGoesOn, PollEnds, Retry
<1>11. CASE PollRC
  <2>1. ~BudgetExceeded
    BY <1>11 DEF PollRC, PollEnds, BudgetExceeded
  <2> QED BY <1>11, <2>1 DEF PollRC, PollEnds, Go
<1>12. CASE CallFails \/ Timeout \/ Cleanup
  BY <1>12 DEF CallFails, Timeout, Cleanup, Fail
<1>13. CASE UNCHANGED vars
  BY <1>13 DEF vars
<1> QED
  BY <1>1, <1>2, <1>3, <1>4, <1>5, <1>6, <1>7, <1>8, <1>9, <1>10, <1>11, <1>12, <1>13
  DEF Next, Cluster, Drain, Step, Polling

(* No step changes the controller. *)
LEMMA FaultyStays == [Next]_vars => faulty' = faulty
BY DEF Next, Cluster, Drain, Step, Polling, CreatePods, SyncStatus, Schedule, PodReady, Cordon,
       Evict, DeleteNode, RemoveFinalizer, CreateRC, CreatePDB, Create, CallFails, AwaitReady,
       DeleteMachine, PollMachine, PollNode, PollPods, PollRC, AwaitMachineGone, AwaitNodeGone,
       Timeout, Cleanup, Fail, machineVars, vars

(* The initial states satisfy all of it. *)
LEMMA InitDrain == Init => TypeOK /\ DrainInv
<1> SUFFICES ASSUME Init PROVE TypeOK /\ DrainInv
  OBVIOUS
<1>1. TypeOK
  <2>1. Active <= Replicas /\ starting \in [Nodes -> 0..Replicas] /\ ready \in [Nodes -> 0..Replicas]
    BY ReplicasAssumption DEF Init, Nodes, PodsOn, Active
  <2>2. status \in [replicas : 0..Replicas, readyReplicas : 0..Replicas]
    BY ReplicasAssumption DEF Init
  <2>3. podCounter \in 0..Replicas /\ waiting \in 0..Replicas /\ polls \in 0..2
    BY ReplicasAssumption DEF Init
  <2> QED BY <2>1, <2>2, <2>3 DEF Init, TypeOK
<1>2. PollHolds /\ VerifiedMeansDrained
  BY DEF Init, PollHolds, VerifiedMeansDrained, BeforeDelete
<1>3. BudgetKept
  BY DEF Init, BudgetKept, BeforeDelete, Budgeted, Nodes, PodsOn, Active, ReadyTotal
<1> QED BY <1>1, <1>2, <1>3 DEF DrainInv

(* The counts keep their types and the replicas their number. *)
THEOREM DrainTypeCorrect == Spec => []TypeOK
<1> QED BY InitDrain, TypeOKStep, PTL DEF Spec

(* Once VerifyNodeDraining has returned, the node it saw cordoned and almost    *)
(* empty, in two reads, still is both, whatever the number of replicas.         *)
THEOREM VerifiedIsDrained == Spec => []VerifiedMeansDrained
<1>1. Init => TypeOK /\ PollHolds /\ VerifiedMeansDrained
  BY InitDrain DEF DrainInv
<1>2. TypeOK /\ PollHolds /\ VerifiedMeansDrained /\ [Next]_vars
        => (TypeOK /\ PollHolds /\ VerifiedMeansDrained)'
  BY TypeOKStep, PollStep
<1> QED BY <1>1, <1>2, PTL DEF Spec

(* If the API server refuses no pod, only a machine controller that ignores the *)
(* disruption budget is said to, however old the status is that the poll reads. *)
THEOREM OnlyTheFaultyAreBlamed ==
    ASSUME ~MayBeRefused
    PROVE  Spec => []BlameIsDeserved
<1> DEFINE Inv == TypeOK /\ (~faulty => BudgetKept)
<1>1. Init => Inv
  BY InitDrain DEF DrainInv
<1>2. Inv /\ [Next]_vars => Inv'
  BY TypeOKStep, BudgetStep, FaultyStays
<1>3. Inv => BlameIsDeserved
  BY DEF BudgetKept, BlameIsDeserved
<1> QED BY <1>1, <1>2, <1>3, PTL DEF Spec
=============================================================================
