-------------------------- MODULE NodeWritesProofs --------------------------
(***************************************************************************)
(* The safety properties of NodeWrites for every number of foreign writes. *)
(* They rest on what a resourceVersion is good for: a copy of the stored   *)
(* version has the stored contents.                                        *)
(***************************************************************************)
EXTENDS NodeWrites, TLAPS

\* A copy is not newer than the object, and equal to it if it is as new.
FreshCopy(copy) ==
    /\ copy.version <= node.version
    /\ copy.version = node.version => copy.taints = node.taints /\ copy.Ready = node.Ready

VersionsIdentify ==
    /\ FreshCopy(nodeCopy) /\ FreshCopy(link.node)
    /\ machine.version # 0 =>
         /\ machineCopy.version <= machine.version
         /\ machineCopy.version = machine.version => machineCopy.taints = machine.taints

\* Where the specs are; only the one that remediates has its machine deleted.
Position ==
    /\ it = "taints" => ~mhc /\ machine.version # 0
    /\ it = "taints" /\ step <= 4 => machine.taints = {} /\ link.taints = {}
    /\ it = "remediate" => machine.taints = {} /\ link.taints = {}

\* As long as nobody else has written, the node is ready and the copies are fresh.
Quiet ==
    writes = 0 =>
        /\ healthy /\ node.Ready /\ nodeCopy.Ready
        /\ NotReady \notin node.taints /\ NotReady \notin link.node.taints
        /\ NotReady \notin nodeCopy.taints
        /\ it = "taints" /\ verdict = "running" =>
             /\ step = 3 => nodeCopy.version = node.version
             /\ step \in {2, 3, 4} => machineCopy.version = machine.version

IInv ==
    TypeOK /\ VersionsIdentify /\ Position /\ Quiet /\ TaintsVerified /\ ConflictMeansOthers
-----------------------------------------------------------------------------
(* The steps of the two specs, by number. *)
LEMMA StepNumbers ==
    ASSUME TypeOK
    PROVE  /\ Len(Steps) = 5 /\ step \in 1..5
           /\ At("getMachine") => step = 1
           /\ At("getNode") => step = 2
           /\ At("updateNode") => it = "taints" /\ step = 3
           /\ At("updateMachine") => it = "taints" /\ step = 4
           /\ At("verify") => it = "taints" /\ step = 5
           /\ At("addCondition") => it = "remediate" /\ step = 3
           /\ At("createMHC") => it = "remediate" /\ step = 4
           /\ At("awaitMachineGone") => it = "remediate" /\ step = 5
<1>1. CASE it = "taints"
  <2>1. Steps = Taints /\ Len(Steps) = 5 /\ step \in 1..5
    BY <1>1 DEF TypeOK, Steps, Taints
  <2> QED BY <1>1, <2>1 DEF At, Taints
<1>2. CASE it = "remediate"
  <2>1. Steps = Remediate /\ Len(Steps) = 5 /\ step \in 1..5
    BY <1>2 DEF TypeOK, Steps, Remediate
  <2> QED BY <1>2, <2>1 DEF At, Remediate
<1> QED BY <1>1, <1>2 DEF TypeOK

LEMMA GoesOn ==
    ASSUME TypeOK, verdict = "running", Go
    PROVE  /\ it' = it /\ step' \in 1..5 /\ Len(Steps') = 5
           /\ \/ step' = step + 1 /\ step # 5 /\ verdict' = "running"
              \/ step' = step /\ step = 5 /\ verdict' = "passed"
<1>1. Len(Steps) = 5 /\ step \in 1..5
  BY StepNumbers
<1>2. Steps' = Steps
  BY DEF Go, Steps
<1> QED BY <1>1, <1>2 DEF Go

LEMMA Fails ==
    ASSUME TypeOK, NEW reason \in {"conflict", "timeout"}, Fail(reason)
    PROVE  /\ it' = it /\ step' = step /\ Len(Steps') = 5 /\ step' \in 1..5
           /\ verdict' = reason
<1>1. Steps' = Steps
  BY DEF Fail, Steps
<1> QED BY <1>1, StepNumbers DEF Fail

LEMMA InitIInv == Init => IInv
<1> SUFFICES ASSUME Init PROVE IInv
  OBVIOUS
<1> USE WritesAssumption DEF Init
<1>0. /\ node.version = 1 /\ node.taints = {} /\ node.Ready = TRUE /\ link.taints = {}
      /\ node \in Node /\ machine \in Machine /\ machine.version = 1 /\ machine.taints = {}
      /\ nodeCopy = node /\ machineCopy = machine /\ link.node = node
      /\ link \in [node : Node, taints : SUBSET {FromMachine}]
  BY DEF Node, Machine
<1>1. TypeOK
  <2>1. Len(Steps) = 5
    BY DEF Steps, Taints, Remediate
  <2>2. step \in 1..Len(Steps) /\ writes \in 0..MaxWrites
    BY <2>1
  <2> QED BY <1>0, <2>2 DEF TypeOK
<1>2. VersionsIdentify
  <2>1. FreshCopy(node)
    BY <1>0 DEF FreshCopy
  <2>2. FreshCopy(nodeCopy) /\ FreshCopy(link.node)
    BY <1>0, <2>1
  <2> QED BY <1>0, <2>2 DEF VersionsIdentify
<1>3. Position
  BY <1>0 DEF Position
<1>4. Quiet
  BY <1>0 DEF Quiet
<1>5. TaintsVerified /\ ConflictMeansOthers
  BY DEF TaintsVerified, ConflictMeansOthers
<1> QED BY <1>1, <1>2, <1>3, <1>4, <1>5 DEF IInv
-----------------------------------------------------------------------------
(* Whoever writes the node makes every copy of it old. *)
LEMMA WriteOutdates ==
    ASSUME TypeOK, VersionsIdentify, node'.version = node.version + 1,
           UNCHANGED <<nodeCopy, link>>
    PROVE  FreshCopy(nodeCopy)' /\ FreshCopy(link.node)'
<1>1. /\ node.version \in Nat /\ nodeCopy.version \in Nat /\ link.node.version \in Nat
  BY DEF TypeOK, Node
<1>2. nodeCopy.version < node'.version /\ link.node.version < node'.version
  BY <1>1 DEF VersionsIdentify, FreshCopy
<1> QED BY <1>1, <1>2 DEF FreshCopy

(* The records the writes make. *)
LEMMA WithTaints ==
    ASSUME node \in Node, NEW T \in SUBSET AllTaints,
           node' = [node EXCEPT !.version = @ + 1, !.taints = T]
    PROVE  node' \in Node /\ node'.version = node.version + 1 /\ node'.taints = T
           /\ node'.Ready = node.Ready
<1>1. node.version + 1 \in Nat
  BY DEF Node
<1>2. node' \in Node
  BY <1>1, Zenon DEF Node
<1> QED BY <1>2, Zenon DEF Node

LEMMA WithReady ==
    ASSUME node \in Node, healthy \in BOOLEAN,
           node' = [node EXCEPT !.version = @ + 1, !.Ready = healthy]
    PROVE  node' \in Node /\ node'.version = node.version + 1 /\ node'.taints = node.taints
<1>1. node.version + 1 \in Nat
  BY DEF Node
<1>2. node' \in Node
  BY <1>1, Zenon DEF Node
<1> QED BY <1>2, Zenon DEF Node

LEMMA WithCondition ==
    ASSUME node \in Node, nodeCopy \in Node,
           node' = [node EXCEPT !.version = @ + 1, !.Ready = nodeCopy.Ready, !.E2E = TRUE]
    PROVE  node' \in Node /\ node'.version = node.version + 1 /\ node'.taints = node.taints
           /\ node'.Ready = nodeCopy.Ready
<1>1. node.version + 1 \in Nat
  BY DEF Node
<1>2. node' \in Node
  BY <1>1, Zenon DEF Node
<1> QED BY <1>2, Zenon DEF Node

LEMMA WithVersion ==
    ASSUME node \in Node,
           node' = [node EXCEPT !.version = @ + 1]
    PROVE  node' \in Node /\ node'.version = node.version + 1 /\ node'.taints = node.taints
           /\ node'.Ready = node.Ready
<1>1. node.version + 1 \in Nat
  BY DEF Node
<1>2. node' \in Node
  BY <1>1, Zenon DEF Node
<1> QED BY <1>2, Zenon DEF Node

(* The taints after each write of the node, without going through its version. *)
LEMMA NodeTaints ==
    ASSUME TypeOK, VersionsIdentify, Next
    PROVE  \/ node' = node
           \/ /\ node' \in Node /\ node'.version = node.version + 1
              /\ UNCHANGED <<nodeCopy, link>>
              /\ \/ UpdateNode /\ node'.taints = node.taints \cup {NotFromMachine}
                                /\ node'.Ready = node.Ready
                 \/ LinkWrite /\ node'.taints = node.taints \cup link.taints
                                /\ node'.Ready = node.Ready
                 \/ Lifecycle /\ node'.taints \ {NotReady} = node.taints \ {NotReady}
                                /\ node'.Ready = node.Ready
                 \/ AddNodeCondition /\ node'.taints = node.taints
                                       /\ node'.Ready = nodeCopy.Ready
                 \/ Heartbeat /\ node'.taints = node.taints
                 \/ Touch /\ node'.taints = node.taints /\ node'.Ready = node.Ready
<1> USE DEF specVars
<1>0. /\ node \in Node /\ nodeCopy \in Node /\ link.node \in Node
      /\ link.taints \subseteq AllTaints /\ NotFromMachine \in AllTaints
      /\ NotReady \in AllTaints /\ healthy \in BOOLEAN
      /\ node.taints \subseteq AllTaints /\ node.Ready \in BOOLEAN
      /\ nodeCopy.Ready \in BOOLEAN
  BY DEF TypeOK, AllTaints, Node
<1>1. CASE UpdateNode
  <2>1. nodeCopy.version = node.version => nodeCopy.taints = node.taints
    BY DEF VersionsIdentify, FreshCopy
  <2> DEFINE T == node.taints \cup {NotFromMachine}
  <2>2. \/ node' = node
        \/ /\ node' = [node EXCEPT !.version = @ + 1, !.taints = T]
           /\ UNCHANGED <<nodeCopy, link>>
    BY <1>1, <2>1 DEF UpdateNode
  <2>3. T \in SUBSET AllTaints
    BY <1>0
  <2> HIDE DEF T
  <2>4. node' = node \/ (/\ node' \in Node /\ node'.version = node.version + 1
                         /\ node'.taints = T /\ node'.Ready = node.Ready
                         /\ UNCHANGED <<nodeCopy, link>>)
    BY <1>0, <2>2, <2>3, WithTaints
  <2> QED BY <1>1, <2>4 DEF T
<1>2. CASE LinkWrite
  <2>1. link.node.version = node.version => link.node.taints = node.taints
    BY DEF VersionsIdentify, FreshCopy
  <2> DEFINE T == node.taints \cup link.taints
  <2>2. node' = [node EXCEPT !.version = @ + 1, !.taints = T] /\ UNCHANGED <<nodeCopy, link>>
    BY <1>2, <2>1 DEF LinkWrite
  <2>3. T \in SUBSET AllTaints
    BY <1>0
  <2> HIDE DEF T
  <2>4. /\ node' \in Node /\ node'.version = node.version + 1
        /\ node'.taints = T /\ node'.Ready = node.Ready
    BY <1>0, <2>2, <2>3, WithTaints
  <2> QED BY <1>2, <2>2, <2>4 DEF T
<1>3. CASE Lifecycle
  <2> DEFINE T == IF node.Ready THEN node.taints \ {NotReady} ELSE node.taints \cup {NotReady}
  <2>2. node' = [node EXCEPT !.version = @ + 1, !.taints = T] /\ UNCHANGED <<nodeCopy, link>>
    BY <1>3 DEF Lifecycle
  <2>3. T \in SUBSET AllTaints /\ T \ {NotReady} = node.taints \ {NotReady}
    BY <1>0
  <2> HIDE DEF T
  <2>4. /\ node' \in Node /\ node'.version = node.version + 1
        /\ node'.taints = T /\ node'.Ready = node.Ready
    BY <1>0, <2>2, <2>3, WithTaints
  <2> QED BY <1>3, <2>2, <2>3, <2>4
<1>4. CASE AddNodeCondition
  BY <1>0, <1>4, WithCondition DEF AddNodeCondition
<1>5. CASE Heartbeat
  BY <1>0, <1>5, WithReady DEF Heartbeat
<1>6. CASE Touch
  BY <1>0, <1>6, WithVersion DEF Touch
<1>7. CASE GetMachine \/ GetNodeForMachine \/ UpdateMachine \/ Verify
           \/ CreateMHC \/ AwaitMachineGone
  BY <1>7 DEF GetMachine, GetNodeForMachine, UpdateMachine, Verify, CreateMHC, AwaitMachineGone
<1>8. CASE LinkRead \/ HealthChanges \/ MHCDeletes
  BY <1>8 DEF LinkRead, HealthChanges, MHCDeletes
<1> QED BY <1>1, <1>2, <1>3, <1>4, <1>5, <1>6, <1>7, <1>8 DEF Next, SpecStep

(* The only copies are those of GetNodeForMachine and LinkRead. *)
LEMMA VersionsIdentifyStep ==
    ASSUME TypeOK, VersionsIdentify, Position, [Next]_vars
    PROVE  VersionsIdentify'
<1>1. CASE UNCHANGED vars
  BY <1>1 DEF vars, specVars, VersionsIdentify, FreshCopy
<1>2. CASE Next
  <2>1. FreshCopy(nodeCopy)' /\ FreshCopy(link.node)'
    <3>1. CASE node'.version = node.version + 1 /\ UNCHANGED <<nodeCopy, link>>
      BY <3>1, WriteOutdates
    <3>2. CASE node' = node
      <4>1. /\ nodeCopy' \in {nodeCopy, node}
            /\ link'.node \in {link.node, node}
        <5>1. CASE GetNodeForMachine \/ LinkRead
          BY <5>1 DEF GetNodeForMachine, LinkRead, specVars
        <5>2. CASE ~(GetNodeForMachine \/ LinkRead)
          BY <1>2, <5>2 DEF Next, SpecStep, GetMachine, UpdateNode, UpdateMachine, Verify,
             AddNodeCondition, CreateMHC, AwaitMachineGone, LinkWrite, HealthChanges,
             Heartbeat, Lifecycle, Touch, MHCDeletes, specVars
        <5> QED BY <5>1, <5>2
      <4>2. FreshCopy(node)
        BY DEF FreshCopy, TypeOK, Node
      <4> QED BY <3>2, <4>1, <4>2 DEF VersionsIdentify, FreshCopy
    <3> QED BY <1>2, <3>1, <3>2, NodeTaints
  <2>2. machine'.version # 0 =>
          /\ machineCopy'.version <= machine'.version
          /\ machineCopy'.version = machine'.version => machineCopy'.taints = machine'.taints
    <3>0. machine.version \in Nat /\ machineCopy.version \in Nat
      BY DEF TypeOK, Machine
    <3>1. CASE GetMachine
      BY <3>1, <3>0 DEF GetMachine
    <3>2. CASE /\ machine.version # 0 /\ machine'.version = machine.version + 1
               /\ machineCopy' = machineCopy
      BY <3>2, <3>0 DEF VersionsIdentify
    <3>3. CASE UNCHANGED <<machine, machineCopy>>
      BY <3>3 DEF VersionsIdentify
    <3>4. CASE MHCDeletes
      <4>1. machine'.version = 0
        BY <3>4 DEF MHCDeletes, TypeOK, Machine
      <4> QED BY <4>1
    <3>5. CASE ~(GetMachine \/ MHCDeletes)
      <4>1. CASE UpdateMachine \/ Touch
        <5>1. machineCopy' = machineCopy
          BY <4>1 DEF UpdateMachine, Touch, specVars
        <5>2. \/ machine' = machine
              \/ machine' = [machine EXCEPT !.version = @ + 1]
              \/ machine' = [machine EXCEPT !.version = @ + 1,
                                            !.taints = machineCopy.taints \cup {FromMachine}]
          BY <4>1 DEF UpdateMachine, Touch
        <5>3. machine' = machine \/ machine'.version = machine.version + 1
          BY <5>2 DEF TypeOK, Machine
        <5>4. machine' # machine => machine.version # 0
          BY <4>1, StepNumbers DEF UpdateMachine, Touch, Position
        <5> QED BY <3>2, <3>3, <5>1, <5>3, <5>4
      <4>2. CASE ~(UpdateMachine \/ Touch)
        BY <1>2, <3>3, <3>5, <4>2 DEF Next, SpecStep, GetNodeForMachine, UpdateNode, Verify,
           AddNodeCondition, CreateMHC, AwaitMachineGone, LinkRead, LinkWrite,
           HealthChanges, Heartbeat, Lifecycle, specVars
      <4> QED BY <4>1, <4>2
    <3> QED BY <3>1, <3>4, <3>5
  <2> QED BY <2>1, <2>2 DEF VersionsIdentify
<1> QED BY <1>1, <1>2
-----------------------------------------------------------------------------
(* Where a step leaves the spec. *)
LEMMA Moves ==
    ASSUME TypeOK, Next
    PROVE  /\ it' = it /\ step' \in 1..5 /\ Len(Steps') = 5
           /\ \/ UNCHANGED specVars
              \/ SpecStep /\ verdict = "running" /\
                   \/ step' = step + 1 /\ step # 5 /\ verdict' = "running"
                   \/ step' = step /\ step = 5 /\ verdict' = "passed"
                   \/ step' = step /\ step = 5 /\ verdict' = "timeout"
                   \/ step' = step /\ step \in {3, 4} /\ verdict' = "conflict"
<1>1. CASE UNCHANGED specVars
  <2>1. Steps' = Steps /\ it' = it /\ step' = step
    BY <1>1 DEF specVars, Steps
  <2> QED BY <1>1, <2>1, StepNumbers
<1>2. CASE SpecStep
  <2>0. verdict = "running"
    BY <1>2 DEF SpecStep, At, GetMachine, GetNodeForMachine, UpdateNode, UpdateMachine,
       Verify, AddNodeCondition, CreateMHC, AwaitMachineGone
  <2>1. CASE Go
    BY <1>2, <2>0, <2>1, GoesOn
  <2>2. CASE Fail("conflict") /\ (UpdateNode \/ UpdateMachine)
    <3>1. step \in {3, 4}
      BY <2>2, StepNumbers DEF UpdateNode, UpdateMachine
    <3> QED BY <1>2, <2>0, <2>2, <3>1, Fails
  <2>3. CASE Fail("timeout") /\ Verify
    <3>1. step = 5
      BY <2>3, StepNumbers DEF Verify
    <3> QED BY <1>2, <2>0, <2>3, <3>1, Fails
  <2> QED BY <1>2, <2>1, <2>2, <2>3 DEF SpecStep, GetMachine, GetNodeForMachine, UpdateNode,
         UpdateMachine, Verify, AddNodeCondition, CreateMHC, AwaitMachineGone
<1> QED BY <1>1, <1>2 DEF Next, LinkRead, LinkWrite, HealthChanges, Heartbeat, Lifecycle,
       Touch, MHCDeletes

(* Who writes the machine, and to what. *)
LEMMA MachineWrites ==
    ASSUME TypeOK, VersionsIdentify, Position, Next
    PROVE  \/ machine' = machine
           \/ UpdateMachine /\ Go /\ machine' \in Machine /\ machine'.version # 0
           \/ Touch /\ machine' \in Machine /\ machine'.version # 0
                /\ machine'.taints = machine.taints
           \/ MHCDeletes /\ machine' \in Machine /\ machine'.taints = machine.taints
<1> USE DEF TypeOK, Machine
<1>1. CASE UpdateMachine
  <2> DEFINE T == machineCopy.taints \cup {FromMachine}
  <2>1. T \in SUBSET {FromMachine} /\ machine.version + 1 \in Nat /\ machine.version + 1 # 0
    OBVIOUS
  <2>2. machine' = machine \/ (Go /\ machine' = [machine EXCEPT !.version = @ + 1, !.taints = T])
    BY <1>1 DEF UpdateMachine
  <2> HIDE DEF T
  <2> QED BY <1>1, <2>1, <2>2
<1>2. CASE Touch
  BY <1>2 DEF Touch
<1>3. CASE MHCDeletes
  BY <1>3 DEF MHCDeletes
<1> QED BY <1>1, <1>2, <1>3 DEF Next, SpecStep, GetMachine, GetNodeForMachine, UpdateNode,
       Verify, AddNodeCondition, CreateMHC, AwaitMachineGone, LinkRead, LinkWrite,
       HealthChanges, Heartbeat, Lifecycle

(* Who makes copies. *)
LEMMA Copies ==
    ASSUME Next
    PROVE  /\ nodeCopy' = nodeCopy \/ (GetNodeForMachine /\ nodeCopy' = node /\ node' = node)
           /\ \/ machineCopy' = machineCopy
              \/ GetMachine /\ machineCopy' = machine /\ machine' = machine
           /\ \/ link' = link
              \/ link' = [node |-> node, taints |-> machine.taints]
           /\ healthy' = healthy \/ HealthChanges
           /\ mhc' = mhc \/ CreateMHC
           /\ writes' = writes \/ Other
<1> USE DEF Next, SpecStep, GetMachine, GetNodeForMachine, UpdateNode, UpdateMachine, Verify,
     AddNodeCondition, CreateMHC, AwaitMachineGone, LinkRead, LinkWrite, HealthChanges,
     Heartbeat, Lifecycle, Touch, MHCDeletes, specVars
<1>1. nodeCopy' = nodeCopy \/ (GetNodeForMachine /\ nodeCopy' = node /\ node' = node)
  OBVIOUS
<1>2. machineCopy' = machineCopy \/ (GetMachine /\ machineCopy' = machine /\ machine' = machine)
  OBVIOUS
<1>3. link' = link \/ link' = [node |-> node, taints |-> machine.taints]
  OBVIOUS
<1>4. healthy' = healthy \/ HealthChanges
  OBVIOUS
<1>5. mhc' = mhc \/ CreateMHC
  OBVIOUS
<1>6. writes' = writes \/ Other
  OBVIOUS
<1> QED BY <1>1, <1>2, <1>3, <1>4, <1>5, <1>6

LEMMA TypeStep ==
    ASSUME TypeOK, VersionsIdentify, Position, Next
    PROVE  TypeOK'
<1>1. /\ it' \in {"taints", "remediate"} /\ step' \in 1..Len(Steps')
      /\ verdict' \in {"running", "passed", "conflict", "timeout"}
  BY Moves DEF TypeOK, specVars
<1>2. node' \in Node /\ nodeCopy' \in Node
  BY NodeTaints, Copies DEF TypeOK
<1>3. machine' \in Machine /\ machineCopy' \in Machine
  BY MachineWrites, Copies DEF TypeOK
<1>4. link' \in [node : Node, taints : SUBSET {FromMachine}]
  <2>1. machine.taints \in SUBSET {FromMachine}
    BY DEF TypeOK, Machine
  <2> QED BY <2>1, Copies DEF TypeOK
<1>5. mhc' \in BOOLEAN
  BY Copies DEF CreateMHC, TypeOK
<1>6. healthy' \in BOOLEAN
  BY Copies DEF HealthChanges, TypeOK
<1>7. writes' \in 0..MaxWrites
  BY Copies, WritesAssumption DEF Other, TypeOK
<1> QED BY <1>1, <1>2, <1>3, <1>4, <1>5, <1>6, <1>7 DEF TypeOK

LEMMA PositionStep ==
    ASSUME TypeOK, VersionsIdentify, Position, Next
    PROVE  Position'
<1>1. it' = it /\ (step' <= 4 => step <= 4)
  BY Moves, StepNumbers DEF specVars
<1>2. it = "taints" => ~mhc' /\ machine'.version # 0
  <2>1. it = "taints" => ~CreateMHC /\ ~MHCDeletes
    BY StepNumbers DEF CreateMHC, MHCDeletes, Position
  <2> QED BY <2>1, MachineWrites, Copies DEF Position
<1>3. UpdateMachine /\ Go => it = "taints" /\ step' = 5
  <2>1. UpdateMachine => it = "taints" /\ step = 4 /\ verdict = "running"
    BY StepNumbers DEF UpdateMachine, At
  <2> QED BY <2>1, GoesOn
<1>4. it = "taints" /\ step' <= 4 => machine'.taints = {} /\ link'.taints = {}
  BY <1>1, <1>3, MachineWrites, Copies DEF Position
<1>5. it = "remediate" => machine'.taints = {} /\ link'.taints = {}
  BY <1>1, <1>3, MachineWrites, Copies DEF Position
<1> QED BY <1>1, <1>2, <1>4, <1>5 DEF Position

LEMMA QuietStep ==
    ASSUME TypeOK, VersionsIdentify, Position, Quiet, Next, writes' = 0
    PROVE  Quiet'
<1>1. writes = 0 /\ ~Other
  BY Copies DEF Other, TypeOK
<1>2. ~HealthChanges /\ ~Touch
  BY <1>1 DEF HealthChanges, Touch
<1>3. ~Heartbeat /\ ~Lifecycle
  <2>1. healthy = TRUE /\ node.Ready = TRUE /\ NotReady \notin node.taints
    BY <1>1, Zenon DEF Quiet, TypeOK, Node
  <2>2. ~Heartbeat
    BY <2>1 DEF Heartbeat
  <2>3. ~Lifecycle
    <3>1. (NotReady \in node.taints) = FALSE /\ (~node.Ready) = FALSE
      BY <2>1
    <3> QED BY <3>1 DEF Lifecycle
  <2> QED BY <2>2, <2>3
<1>4. healthy'
  BY <1>1, <1>2, Copies DEF Quiet
<1>5. node'.Ready
  BY <1>1, <1>2, <1>3, NodeTaints DEF Quiet
<1>6. NotReady \notin node'.taints
  <2>1. NotReady \notin link.taints /\ NotReady # NotFromMachine
    BY DEF TypeOK, NotReady, FromMachine, NotFromMachine
  <2> QED BY <1>1, <1>2, <1>3, <2>1, NodeTaints DEF Quiet
<1>7. nodeCopy'.Ready /\ NotReady \notin nodeCopy'.taints /\ NotReady \notin link'.node.taints
  BY <1>1, Copies DEF Quiet
<1>8. ASSUME it' = "taints", verdict' = "running"
      PROVE  /\ step' = 3 => nodeCopy'.version = node'.version
             /\ step' \in {2, 3, 4} => machineCopy'.version = machine'.version
  <2>0. it = "taints" /\ verdict = "running" /\ step \in 1..5
    BY <1>8, Moves, StepNumbers DEF specVars
  <2>1. ASSUME step' = 3 PROVE nodeCopy'.version = node'.version
    <3>1. CASE UNCHANGED specVars
      <4>1. node' = node
        <5>1. ~UpdateNode /\ ~AddNodeCondition
          BY <2>0, <3>1, <1>8, StepNumbers, GoesOn, Fails DEF UpdateNode, AddNodeCondition, specVars
        <5>2. ~LinkWrite
          BY <2>0, <2>1, <3>1 DEF LinkWrite, Position, specVars
        <5> QED BY <5>1, <5>2, <1>2, <1>3, NodeTaints
      <4> QED BY <1>1, <2>0, <2>1, <3>1, <4>1 DEF Quiet, specVars
    <3>2. CASE SpecStep /\ step' = step + 1
      <4>1. step = 2
        BY <2>0, <2>1, <3>2
      <4>2. GetNodeForMachine
        BY <2>0, <3>2, <4>1, StepNumbers DEF SpecStep, GetMachine, UpdateNode, UpdateMachine,
           Verify, AddNodeCondition, CreateMHC, AwaitMachineGone
      <4> QED BY <4>2 DEF GetNodeForMachine
    <3> QED BY <1>8, <2>1, <3>1, <3>2, Moves
  <2>2. ASSUME step' \in {2, 3, 4} PROVE machineCopy'.version = machine'.version
    <3>1. CASE GetMachine
      BY <3>1 DEF GetMachine
    <3>2. CASE ~GetMachine
      <4>1. step \in {2, 3, 4}
        <5>1. step = 1 => ~SpecStep
          BY <3>2, StepNumbers DEF SpecStep, GetNodeForMachine, UpdateNode, UpdateMachine,
             Verify, AddNodeCondition, CreateMHC, AwaitMachineGone
        <5> QED BY <1>8, <2>0, <2>2, <5>1, Moves DEF specVars
      <4>2. ~(UpdateMachine /\ Go) /\ ~MHCDeletes
        BY <2>0, <2>2, StepNumbers, GoesOn DEF UpdateMachine, MHCDeletes, Position
      <4>3. machine' = machine /\ machineCopy' = machineCopy
        BY <1>2, <3>2, <4>2, MachineWrites, Copies
      <4> QED BY <1>1, <2>0, <4>1, <4>3 DEF Quiet
    <3> QED BY <3>1, <3>2
  <2> QED BY <2>1, <2>2
<1> QED BY <1>4, <1>5, <1>6, <1>7, <1>8 DEF Quiet

LEMMA VerdictStep ==
    ASSUME IInv, Next
    PROVE  TaintsVerified' /\ ConflictMeansOthers'
<1> USE DEF IInv
<1>1. it' = it
  BY Moves
<1>2. expectedTaints \subseteq node.taints => expectedTaints \subseteq node'.taints
  BY NodeTaints DEF expectedTaints, NotFromMachine, FromMachine, NotReady
<1>3. TaintsVerified'
  <2>1. CASE UNCHANGED specVars
    BY <1>2, <2>1 DEF TaintsVerified, specVars
  <2>2. CASE it = "taints" /\ step = 5 /\ SpecStep /\ verdict' = "passed"
    <3>1. Verify
      BY <2>2, StepNumbers DEF SpecStep, GetMachine, GetNodeForMachine, UpdateNode,
         UpdateMachine, AddNodeCondition, CreateMHC, AwaitMachineGone
    <3>2. AllObserved
      BY <2>2, <3>1 DEF Verify, Fail
    <3> QED BY <1>2, <3>2 DEF TaintsVerified, AllObserved
  <2> QED BY <1>1, <2>1, <2>2, Moves DEF TaintsVerified
<1>4. ConflictMeansOthers'
  <2>1. writes > 0 => writes' > 0
    BY Copies DEF TypeOK, Other
  <2>2. CASE UNCHANGED specVars
    BY <2>1, <2>2 DEF ConflictMeansOthers, specVars
  <2>3. CASE SpecStep /\ verdict = "running" /\ verdict' = "conflict"
    <3>1. \/ UpdateNode /\ nodeCopy.version # node.version
          \/ UpdateMachine /\ machineCopy.version # machine.version
      BY <2>3 DEF SpecStep, Go, Fail, GetMachine, GetNodeForMachine, UpdateNode,
         UpdateMachine, Verify, AddNodeCondition, CreateMHC, AwaitMachineGone
    <3>2. writes # 0
      BY <2>3, <3>1, StepNumbers DEF UpdateNode, UpdateMachine, Quiet
    <3>3. writes > 0
      BY <3>2 DEF TypeOK
    <3> QED BY <2>1, <3>3 DEF ConflictMeansOthers
  <2> QED BY <2>2, <2>3, Moves DEF ConflictMeansOthers
<1> QED BY <1>3, <1>4

LEMMA IInvStep == IInv /\ [Next]_vars => IInv'
<1> SUFFICES ASSUME IInv, [Next]_vars PROVE IInv'
  OBVIOUS
<1>1. CASE Next
  <2>1. Quiet'
    <3>1. CASE writes' = 0
      BY <1>1, <3>1, QuietStep DEF IInv
    <3> QED BY <3>1 DEF Quiet
  <2> QED BY <1>1, <2>1, TypeStep, VersionsIdentifyStep, PositionStep, VerdictStep DEF IInv
<1>2. CASE UNCHANGED vars
  <2> USE <1>2 DEF vars, specVars, IInv
  <2>1. TypeOK'
    BY DEF TypeOK, Steps
  <2>2. VersionsIdentify'
    BY VersionsIdentifyStep
  <2>3. Position' /\ Quiet'
    BY DEF Position, Quiet
  <2>4. TaintsVerified' /\ ConflictMeansOthers'
    BY DEF TaintsVerified, ConflictMeansOthers
  <2> QED BY <2>1, <2>2, <2>3, <2>4
<1> QED BY <1>1, <1>2
-----------------------------------------------------------------------------
(* A copy of the stored version has the stored contents, the spec is where its own     *)
(* steps have brought it, and as long as nobody else writes its copies are fresh.      *)
THEOREM WritesInvariant == Spec => []IInv
BY InitIInv, IInvStep, PTL DEF Spec

(* The node keeps the shape of a node whatever is written from old copies. *)
THEOREM WritesTypeCorrect == Spec => []TypeOK
<1>1. IInv => TypeOK
  BY DEF IInv
<1> QED BY <1>1, WritesInvariant, PTL

(* Both taints are on the node from the moment Verify saw them on. *)
THEOREM VerifiedTaintsStay == Spec => []TaintsVerified
<1>1. IInv => TaintsVerified
  BY DEF IInv
<1> QED BY <1>1, WritesInvariant, PTL

(* Without a foreign write neither Update of the taints spec meets a conflict. *)
THEOREM ConflictsAreOthers == Spec => []ConflictMeansOthers
<1>1. IInv => ConflictMeansOthers
  BY DEF IInv
<1> QED BY <1>1, WritesInvariant, PTL

(* No Update made from an old copy takes away or brings back a taint. *)
THEOREM TaintsOnlyAdded == Spec => TaintsAdditive
<1> DEFINE Additive ==
      /\ node.taints \ {NotReady} \subseteq node'.taints
      /\ (NotReady \in node.taints) # (NotReady \in node'.taints) => Lifecycle
<1>1. IInv /\ [Next]_vars => [Additive]_vars
  <2> SUFFICES ASSUME IInv, Next PROVE Additive
    OBVIOUS
  <2>1. NotReady # NotFromMachine /\ NotReady \notin link.taints
    BY DEF IInv, TypeOK, NotReady, FromMachine, NotFromMachine
  <2> QED BY <2>1, NodeTaints DEF IInv
<1> QED BY <1>1, WritesInvariant, PTL DEF Spec, TaintsAdditive

(* A patch made from a fresh copy of the node does not change its readiness. *)
THEOREM PatchOfFreshCopyAdds == Spec => StatusLostOnlyByPatch
<1> DEFINE Lost == node'.Ready # node.Ready =>
      \/ Heartbeat
      \/ AddNodeCondition /\ nodeCopy.version # node.version
<1>1. IInv /\ [Next]_vars => [Lost]_vars
  <2> SUFFICES ASSUME IInv, Next PROVE Lost
    OBVIOUS
  <2>1. nodeCopy.version = node.version => nodeCopy.Ready = node.Ready
    BY DEF IInv, VersionsIdentify, FreshCopy
  <2> QED BY <2>1, NodeTaints DEF IInv
<1> QED BY <1>1, WritesInvariant, PTL DEF Spec, StatusLostOnlyByPatch
=============================================================================
