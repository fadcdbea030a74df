----------------------------- MODULE NodeWrites -----------------------------
(***************************************************************************)
(* The two specs that write a node others write as well: "additively       *)
(* reconcile taints from machine to nodes" of pkg/infra/infra.go and the   *)
(* beginning of "remediate unhealthy nodes" of pkg/machinehealthcheck with *)
(* AddNodeCondition and CreateMHC, from the ready machineset on.           *)
(*                                                                         *)
(* Every read gives a spec a copy that its later write is made from.  An   *)
(* Update carries the copy's resourceVersion and is refused if the stored  *)
(* one has moved.  AddNodeCondition's merge patch carries none: it         *)
(* replaces the list of conditions by the copy's.  A merge patch that      *)
(* changes nothing is not a write.                                         *)
(***************************************************************************)
EXTENDS Integers, Sequences

CONSTANT MaxWrites  \* bound: the writes of others, and changes of the kubelet's mind

ASSUME WritesAssumption == MaxWrites \in Nat

VARIABLES
    it,         \* the running spec: "taints" or "remediate"
    step,       \* its next step
    verdict,    \* "running", "passed", or failed by a "conflict" or a "timeout"
    node,       \* the node the API server holds: version, taints, the status of its
                \* conditions
    machine,    \* the machine behind it: version, taints; version 0: deleted
    nodeCopy, machineCopy,  \* what the spec read last
    link,       \* what the nodelink controller read last: a node and the machine's taints
    healthy,    \* what the kubelet makes of its node's readiness
    mhc,        \* the MachineHealthCheck exists
    writes      \* how often others wrote, or the kubelet changed its mind

specVars == <<it, step, verdict, nodeCopy, machineCopy>>
vars == <<specVars, node, machine, link, healthy, mhc, writes>>

NotFromMachine == "not-from-machine"
FromMachine    == "from-machine"
NotReady       == "not-ready"  \* the taint of the node lifecycle controller

\* A bug the checks must find: the machine is written first, and the nodelink
\* controller's answer to it meets the spec's own copy of the node.
TaintsMachineFirst == <<"getMachine", "getNode", "updateMachine", "updateNode", "verify">>
Taints    == <<"getMachine", "getNode", "updateNode", "updateMachine", "verify">>
Remediate == <<"getMachine", "getNode", "addCondition", "createMHC", "awaitMachineGone">>
Steps == IF it = "taints" THEN Taints ELSE Remediate

Init ==
    /\ it \in {"taints", "remediate"}
    /\ step = 1
    /\ verdict = "running"
    /\ node = [version |-> 1, taints |-> {}, Ready |-> TRUE, E2E |-> FALSE]
    /\ machine = [version |-> 1, taints |-> {}]
    /\ nodeCopy = node /\ machineCopy = machine
    /\ link = [node |-> node, taints |-> {}]
    /\ healthy = TRUE
    /\ mhc = FALSE
    /\ writes = 0

-----------------------------------------------------------------------------
At(s) == verdict = "running" /\ Steps[step] = s

\* A bug the checks must find: the spec goes on after its last step.
GoPastTheEnd == step' = step + 1 /\ UNCHANGED <<it, verdict>>
Go ==
    /\ IF step = Len(Steps)
       THEN verdict' = "passed" /\ UNCHANGED step
       ELSE step' = step + 1 /\ UNCHANGED verdict
    /\ UNCHANGED it

Fail(reason) == verdict' = reason /\ UNCHANGED <<it, step>>

\* GetMachines, of which the spec takes the first.
GetMachine ==
    /\ At("getMachine")
    /\ machineCopy' = machine
    /\ Go
    /\ UNCHANGED <<nodeCopy, node, machine, link, healthy, mhc, writes>>

GetNodeForMachine ==
    /\ At("getNode")
    /\ nodeCopy' = node
    /\ Go
    /\ UNCHANGED <<machineCopy, node, machine, link, healthy, mhc, writes>>

\* A bug the checks must find: the node is put as it was read, whoever wrote since.
UpdateNodeUnversioned ==
    /\ At("updateNode")
    /\ node' = [node EXCEPT !.version = @ + 1,
                            !.taints = nodeCopy.taints \cup {NotFromMachine}]
    /\ Go
    /\ UNCHANGED <<machineCopy, nodeCopy, machine, link, healthy, mhc, writes>>
\* client.Update of the node: its status is not written, and a conflict fails the spec.
UpdateNode ==
    /\ At("updateNode")
    /\ IF nodeCopy.version = node.version
       THEN /\ node' = [node EXCEPT !.version = @ + 1,
                                    !.taints = nodeCopy.taints \cup {NotFromMachine}]
            /\ Go
       ELSE UNCHANGED node /\ Fail("conflict")
    /\ UNCHANGED <<machineCopy, nodeCopy, machine, link, healthy, mhc, writes>>

UpdateMachine ==
    /\ At("updateMachine")
    /\ IF machineCopy.version = machine.version
       THEN /\ machine' = [machine EXCEPT !.version = @ + 1,
                                          !.taints = machineCopy.taints \cup {FromMachine}]
            /\ Go
       ELSE UNCHANGED machine /\ Fail("conflict")
    /\ UNCHANGED <<machineCopy, nodeCopy, node, link, healthy, mhc, writes>>

expectedTaints == {NotFromMachine, FromMachine}

\* A bug the checks must find: one of the expected taints is enough.
SomeObserved == expectedTaints \cap node.taints # {}
AllObserved  == expectedTaints \subseteq node.taints

\* A poll of the node, or the end of WaitMedium.
Verify ==
    /\ At("verify")
    /\ (AllObserved /\ Go) \/ Fail("timeout")
    /\ UNCHANGED <<machineCopy, nodeCopy, node, machine, link, healthy, mhc, writes>>

\* A bug the checks must find: the patch is made from an empty status.
AddNodeConditionAlone ==
    /\ At("addCondition")
    /\ node' = [node EXCEPT !.version = @ + 1, !.Ready = FALSE, !.E2E = TRUE]
    /\ Go
    /\ UNCHANGED <<machineCopy, nodeCopy, machine, link, healthy, mhc, writes>>
\* A bug the checks must find: the condition is not appended to the copy.
AddNodeConditionNothing ==
    /\ At("addCondition")
    /\ Go
    /\ UNCHANGED <<machineCopy, nodeCopy, node, machine, link, healthy, mhc, writes>>
\* AddNodeCondition: all conditions are the copy's, but the one that is added.
AddNodeCondition ==
    /\ At("addCondition")
    /\ node' = [node EXCEPT !.version = @ + 1, !.Ready = nodeCopy.Ready, !.E2E = TRUE]
    /\ Go
    /\ UNCHANGED <<machineCopy, nodeCopy, machine, link, healthy, mhc, writes>>

CreateMHC ==
    /\ At("createMHC")
    /\ mhc' = TRUE
    /\ Go
    /\ UNCHANGED <<machineCopy, nodeCopy, node, machine, link, healthy,
                   writes>>

\* WaitForMachineDelete; its timeout is NodeDrain's and MachineSetWaits' subject.
AwaitMachineGone ==
    /\ At("awaitMachineGone")
    /\ machine.version = 0
    /\ Go
    /\ UNCHANGED <<machineCopy, nodeCopy, node, machine, link, healthy, mhc, writes>>

-----------------------------------------------------------------------------
\* The nodelink controller adds the machine's taints to a copy of the node and puts
\* it; after a conflict it reads again.
LinkRead ==
    /\ machine.version # 0
    /\ link' = [node |-> node, taints |-> machine.taints]
    /\ UNCHANGED <<specVars, node, machine, healthy, mhc, writes>>

LinkWrite ==
    /\ link.node.version = node.version
    /\ ~(link.taints \subseteq link.node.taints)
    /\ node' = [node EXCEPT !.version = @ + 1, !.taints = link.node.taints \cup link.taints]
    /\ UNCHANGED <<specVars, machine, link, healthy, mhc, writes>>

Other ==
    /\ writes < MaxWrites
    /\ writes' = writes + 1

HealthChanges ==
    /\ Other
    /\ healthy' = ~healthy
    /\ UNCHANGED <<specVars, node, machine, link, mhc>>

\* The kubelet's status patch is keyed by the type of a condition: it leaves others'.
Heartbeat ==
    /\ node.Ready # healthy
    /\ node' = [node EXCEPT !.version = @ + 1, !.Ready = healthy]
    /\ UNCHANGED <<specVars, machine, link, healthy, mhc, writes>>

\* The node lifecycle controller adds and removes its taint, with a precondition.
Lifecycle ==
    /\ (NotReady \in node.taints) # ~node.Ready
    /\ node' = [node EXCEPT !.version = @ + 1,
                            !.taints = IF node.Ready THEN @ \ {NotReady} ELSE @ \cup {NotReady}]
    /\ UNCHANGED <<specVars, machine, link, healthy, mhc, writes>>

\* Another write of the node (labels, an unchanged heartbeat's time) or the machine.
Touch ==
    /\ Other
    /\ \/ node' = [node EXCEPT !.version = @ + 1] /\ UNCHANGED machine
       \/ /\ machine.version # 0
          /\ machine' = [machine EXCEPT !.version = @ + 1] /\ UNCHANGED node
    /\ UNCHANGED <<specVars, link, healthy, mhc>>

\* The machine health check controller deletes the machine whose node has the
\* condition.
MHCDeletes ==
    /\ mhc /\ node.E2E /\ machine.version # 0
    /\ machine' = [machine EXCEPT !.version = 0]
    /\ UNCHANGED <<specVars, node, link, healthy, mhc, writes>>

SpecStep ==
    \/ GetMachine \/ GetNodeForMachine \/ UpdateNode \/ UpdateMachine \/ Verify
    \/ AddNodeCondition \/ CreateMHC \/ AwaitMachineGone

Next ==
    \/ SpecStep \/ LinkRead \/ LinkWrite
    \/ HealthChanges \/ Heartbeat \/ Lifecycle \/ Touch \/ MHCDeletes

\* The spec runs, and the kubelet and the controller under test do their work.
Spec ==
    /\ Init /\ [][Next]_vars
    /\ WF_vars(SpecStep) /\ WF_vars(Heartbeat) /\ WF_vars(MHCDeletes)
-----------------------------------------------------------------------------
AllTaints == {NotFromMachine, FromMachine, NotReady}
Node == [version : Nat, taints : SUBSET AllTaints, Ready : BOOLEAN, E2E : BOOLEAN]
Machine == [version : Nat, taints : SUBSET {FromMachine}]

TypeOK ==
    /\ it \in {"taints", "remediate"}
    /\ step \in 1..Len(Steps)
    /\ verdict \in {"running", "passed", "conflict", "timeout"}
    /\ node \in Node /\ nodeCopy \in Node
    /\ machine \in Machine /\ machineCopy \in Machine
    /\ link \in [node : Node, taints : SUBSET {FromMachine}]
    /\ healthy \in BOOLEAN /\ mhc \in BOOLEAN
    /\ writes \in 0..MaxWrites

\* Taints are reconciled additively: no write made from an old copy takes away or
\* brings back a taint, whoever writes in between.
TaintsAdditive ==
    [][ /\ node.taints \ {NotReady} \subseteq node'.taints
        /\ (NotReady \in node.taints) # (NotReady \in node'.taints) => Lifecycle ]_vars

\* The spec that verified the taints leaves both of them on the node.
TaintsVerified == it = "taints" /\ verdict = "passed" => expectedTaints \subseteq node.taints

\* The spec does not get into its own way: it meets a conflict only if somebody else
\* wrote the node or the machine, never by what the nodelink controller does in answer
\* to its own two writes.
ConflictMeansOthers == verdict = "conflict" => writes > 0

\* The readiness the kubelet wrote is changed by nobody else, but by AddNodeCondition
\* when somebody has written the node since the spec read it: made from a fresh copy,
\* its patch only adds a condition.
StatusLostOnlyByPatch ==
    [][ node'.Ready # node.Ready =>
          \/ Heartbeat
          \/ AddNodeCondition /\ nodeCopy.version # node.version ]_vars

\* The node is remediated, and what the patch has reverted is written again, whatever
\* else is written between the steps.
Remediated == it = "remediate" ~> (verdict = "passed" /\ node.Ready = healthy)
=============================================================================
