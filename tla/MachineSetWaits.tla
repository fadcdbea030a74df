-------------------------- MODULE MachineSetWaits --------------------------
(***************************************************************************)
(* The machineset specs of pkg/infra/infra.go ("recover from deleted       *)
(* worker machines", "grow and decrease ...", and the machine deletion of  *)
(* "drain node ...") and that of pkg/machinehealthcheck with the waits of  *)
(* pkg/framework/machinesets.go and machines.go, run against the           *)
(* machineset, machine and machine health check controllers and the        *)
(* kubelets (external).  A wait polls with several reads of the API,       *)
(* between which the controllers work and a node may stop being ready; API *)
(* calls succeed, any wait may time out.                                   *)
(***************************************************************************)
EXTENDS Integers, Sequences, FiniteSets

CONSTANTS
    Machines,   \* bound: the machines that may be created
    NoMachine,  \* no machine was deleted by the spec
    Replicas,   \* the replicas the specs ask for (3 in the code)
    MaxDrops    \* bound: how often a ready node turns NotReady

ASSUME MachinesAssumption == IsFiniteSet(Machines) /\ NoMachine \notin Machines
ASSUME ReplicasAssumption == Replicas \in Nat \ {0, 1}
ASSUME MaxDropsAssumption == MaxDrops \in Nat

Sets == {1, 2}      \* machineSet and machineSet2

VARIABLES
    set,        \* set[s]: "absent", "present", or "deleting" (foreground)
    replicas,   \* replicas[s]: spec.replicas
    owner,      \* owner[m]: the machineset of m, 0 when there is no machine m
    used,       \* the machines there ever were: names are random
    phase,      \* phase[m]: "pending", "running", or "ready" once its node is too
    drops,      \* how often a node has turned NotReady
    deleting,   \* deleting[m]: m has a deletion timestamp
    it,         \* the spec that runs
    seg, ip,    \* its segment, see Segments, and the step in it
    victim,     \* the machine the spec deletes, or marks as unhealthy
    mhc,        \* the MachineHealthCheck exists
    drainLabels,\* machineSetParams.Labels, and with it the selector, has nodeDrainLabels
    want,       \* the replicas a WaitForMachineSet read at its start, or NotRead
    toCheck,    \* the machines whose nodes its current poll has yet to check
    polling,    \* the poll has listed the machines
    lapsed,     \* history: those whose node turned NotReady after the poll had read it
    timedOut    \* some wait timed out

clusterVars == <<set, replicas, owner, used, phase, drops, deleting>>
pollVars    == <<want, toCheck, polling, lapsed>>
vars == <<clusterVars, it, seg, ip, victim, mhc, drainLabels, pollVars, timedOut>>

NotRead == -1

Create(s, n)     == [op |-> "create", set |-> s, n |-> n]
Scale(s, n)      == [op |-> "scale", set |-> s, n |-> n]
Wait(s)          == [op |-> "wait", set |-> s]
DeleteSet(s, p)  == [op |-> "deleteSet", set |-> s, policy |-> p]
AwaitSetGone(s)  == [op |-> "awaitSetGone", set |-> s]
DeleteVictim     == [op |-> "deleteMachine"]
AwaitVictimGone  == [op |-> "awaitMachineGone"]
AddDrainLabels   == [op |-> "addDrainLabels"]
MarkVictim       == [op |-> "mark"]
CreateMHC        == [op |-> "createMHC"]
DeleteMHC        == [op |-> "deleteMHC"]

\* A bug the checks must find: the spec does not wait for the machine to go.
RecoverAtOnce == <<DeleteVictim, Wait(1)>>
Recover       == <<DeleteVictim, AwaitVictimGone, Wait(1)>>

\* A bug the checks must find: one machine too many is asked for.
GrowTooFar == <<Create(2, 0), Wait(2), Scale(1, 0), Scale(2, Replicas + 1), Wait(1), Wait(2)>>
Grow  == <<Create(2, 0), Wait(2), Scale(1, 0), Scale(2, Replicas), Wait(1), Wait(2)>>
Drain == <<AddDrainLabels, DeleteVictim, AwaitVictimGone>>
\* "should remediate unhealthy nodes".
Remediate == <<MarkVictim, CreateMHC, AwaitVictimGone, Wait(1), DeleteMHC>>

\* BeforeEach, the body of It, what it deferred, AfterEach.
Segments ==
    << <<Create(1, Replicas), Wait(1)>>,
       CASE it = "recover" -> Recover
         [] it = "grow"    -> Grow
         [] it = "drain"   -> Drain
         [] it = "health"  -> Remediate,
       IF it = "grow" THEN <<DeleteSet(2, "foreground"), AwaitSetGone(2)>> ELSE << >>,
       <<DeleteSet(1, "background"), AwaitSetGone(1)>> >>

Exists(m)      == owner[m] # 0
MachinesOf(s)  == {m \in Machines : owner[m] = s}
ActiveOf(s)    == {m \in MachinesOf(s) : ~deleting[m]}

Init ==
    /\ set = [s \in Sets |-> "absent"]
    /\ replicas = [s \in Sets |-> 0]
    /\ owner = [m \in Machines |-> 0]
    /\ used = {}
    /\ phase = [m \in Machines |-> "pending"] /\ drops = 0
    /\ deleting = [m \in Machines |-> FALSE]
    /\ it \in {"recover", "grow", "drain", "health"}
    /\ seg = 1 /\ ip = 1
    /\ victim = NoMachine
    /\ mhc = FALSE
    /\ drainLabels = FALSE
    /\ want = NotRead /\ toCheck = {} /\ polling = FALSE /\ lapsed = {}
    /\ timedOut = FALSE

-----------------------------------------------------------------------------
(* The controllers and the kubelets: external, but for the machine controller, which is
   vendored. *)

NewMachine(m, s) ==
    /\ set[s] = "present"
    /\ Cardinality(ActiveOf(s)) < replicas[s]
    /\ m \notin used
    /\ owner' = [owner EXCEPT ![m] = s]
    /\ used' = used \cup {m}
    /\ UNCHANGED <<set, replicas, phase, drops, deleting>>

Progress(m) ==
    /\ Exists(m) /\ ~deleting[m]
    /\ \/ phase[m] = "pending" /\ phase' = [phase EXCEPT ![m] = "running"]
       \/ phase[m] = "running" /\ phase' = [phase EXCEPT ![m] = "ready"]
    /\ UNCHANGED <<set, replicas, owner, used, drops, deleting>>

\* The kubelet of a ready node stops reporting, or reports a problem; the machine
\* stays Running.
NodeNotReady(m) ==
    /\ Exists(m) /\ phase[m] = "ready"
    /\ drops < MaxDrops
    /\ drops' = drops + 1
    /\ phase' = [phase EXCEPT ![m] = "running"]
    /\ UNCHANGED <<set, replicas, owner, used, deleting>>

\* The machineset is too large, or it is being or has been deleted.
MarkDeleted(m) ==
    /\ Exists(m) /\ ~deleting[m]
    /\ \/ set[owner[m]] # "present"
       \/ Cardinality(ActiveOf(owner[m])) > replicas[owner[m]]
    /\ deleting' = [deleting EXCEPT ![m] = TRUE]
    /\ UNCHANGED <<set, replicas, owner, used, phase, drops>>

Remove(m) ==
    /\ Exists(m) /\ deleting[m]
    /\ owner' = [owner EXCEPT ![m] = 0]
    /\ UNCHANGED <<set, replicas, used, phase, drops, deleting>>

\* A foreground deletion ends when the machines are gone.
RemoveSet(s) ==
    /\ set[s] = "deleting" /\ MachinesOf(s) = {}
    /\ set' = [set EXCEPT ![s] = "absent"]
    /\ UNCHANGED <<replicas, owner, used, phase, drops, deleting>>

\* The machine health check controller deletes the machine of the marked node.
Remediated ==
    /\ mhc /\ Exists(victim) /\ ~deleting[victim]
    /\ deleting' = [deleting EXCEPT ![victim] = TRUE]
    /\ UNCHANGED <<set, replicas, owner, used, phase, drops>>

Controllers ==
    /\ \/ Remediated
       \/ \E m \in Machines, s \in Sets : NewMachine(m, s)
       \/ \E m \in Machines : Progress(m) \/ NodeNotReady(m) \/ MarkDeleted(m) \/ Remove(m)
       \/ \E s \in Sets : RemoveSet(s)
    /\ lapsed' = lapsed \cup {m \in Machines \ toCheck :
                              want # NotRead /\ polling /\ phase[m] = "ready" /\ phase'[m] # "ready"}
    /\ UNCHANGED <<it, seg, ip, victim, mhc, drainLabels, want, toCheck, polling, timedOut>>

-----------------------------------------------------------------------------
(* The running spec. *)

Running == seg <= Len(Segments)
At(op)  == Running /\ ip <= Len(Segments[seg]) /\ Segments[seg][ip].op = op
Step    == Segments[seg][ip]

Continue ==
    /\ ip' = ip + 1
    /\ UNCHANGED <<it, seg, timedOut>>

SegmentEnds ==
    /\ Running /\ ip > Len(Segments[seg])
    /\ seg' = seg + 1
    /\ ip' = 1
    /\ UNCHANGED <<clusterVars, it, victim, mhc, drainLabels, pollVars, timedOut>>

\* A BeforeEach that fails goes straight to AfterEach.
Timeout ==
    /\ At("wait") \/ At("awaitMachineGone") \/ At("awaitSetGone")
    /\ timedOut' = TRUE
    /\ seg' = IF seg = 1 THEN 4 ELSE seg + 1
    /\ ip' = 1
    /\ want' = NotRead /\ toCheck' = {} /\ polling' = FALSE /\ lapsed' = {}
    /\ UNCHANGED <<clusterVars, it, victim, mhc, drainLabels>>

CreateMachineSet ==
    /\ At("create")
    /\ set' = [set EXCEPT ![Step.set] = "present"]
    /\ replicas' = [replicas EXCEPT ![Step.set] = Step.n]
    /\ Continue
    /\ UNCHANGED <<owner, used, phase, drops, deleting, victim, mhc, drainLabels, pollVars>>

ScaleMachineSet ==
    /\ At("scale")
    /\ replicas' = [replicas EXCEPT ![Step.set] = Step.n]
    /\ Continue
    /\ UNCHANGED <<set, owner, used, phase, drops, deleting, victim, mhc, drainLabels, pollVars>>

\* client.Delete without options is a background deletion, deleteObject's is not.
DeleteMachineSet ==
    /\ At("deleteSet")
    /\ set' = [set EXCEPT ![Step.set] =
                 IF Step.policy = "foreground" THEN "deleting" ELSE "absent"]
    /\ Continue
    /\ UNCHANGED <<replicas, owner, used, phase, drops, deleting, victim, mhc, drainLabels, pollVars>>

\* machines[0] of a list, whose order is not known.
DeleteMachine(m) ==
    /\ At("deleteMachine")
    /\ m \in MachinesOf(1)
    /\ deleting' = [deleting EXCEPT ![m] = TRUE]
    /\ victim' = m
    /\ Continue
    /\ UNCHANGED <<set, replicas, owner, used, phase, drops, mhc, drainLabels, pollVars>>

\* AddNodeCondition on the node of machines[0].
MarkUnhealthy(m) ==
    /\ At("mark")
    /\ m \in MachinesOf(1)
    /\ victim' = m
    /\ Continue
    /\ UNCHANGED <<clusterVars, mhc, drainLabels, pollVars>>

HealthCheck ==
    /\ At("createMHC") \/ At("deleteMHC")
    /\ mhc' = At("createMHC")
    /\ Continue
    /\ UNCHANGED <<clusterVars, victim, drainLabels, pollVars>>

WaitForMachineDelete ==
    /\ At("awaitMachineGone")
    /\ ~Exists(victim)
    /\ Continue
    /\ UNCHANGED <<clusterVars, victim, mhc, drainLabels, pollVars>>

\* The spec adds nodeDrainLabels to machineSetParams.Labels.  CreateMachineSet
\* made that same map the MatchLabels of machineSet, which AfterEach uses.
LabelForDrain ==
    /\ At("addDrainLabels")
    /\ drainLabels' = TRUE
    /\ Continue
    /\ UNCHANGED <<clusterVars, victim, mhc, pollVars>>

\* What GetMachines finds with the selector of the machineset object the spec
\* holds: no machine carries the labels for draining.
ListedBy(s) == IF s = 1 /\ drainLabels THEN {} ELSE MachinesOf(s)

Reread == toCheck' = {} /\ polling' = FALSE /\ lapsed' = {}

\* WaitForMachineSet reads the machineset once, with the selector the API has.
WaitBegin ==
    /\ At("wait") /\ want = NotRead
    /\ want' = replicas[Step.set]
    /\ Reread
    /\ UNCHANGED <<clusterVars, it, seg, ip, victim, mhc, drainLabels, timedOut>>

\* A bug the checks must find: the machines of every machineset are listed.
ListPassesAnySet(s) ==
    /\ Cardinality({m \in Machines : Exists(m)}) = want
    /\ \A m \in Machines : Exists(m) => phase[m] # "pending"
ListPasses(s) ==
    /\ Cardinality(MachinesOf(s)) = want
    /\ \A m \in MachinesOf(s) : phase[m] # "pending"

\* A poll lists the machines: the right number, all Running.
WaitList ==
    /\ At("wait") /\ want # NotRead /\ ~polling
    /\ ListPasses(Step.set)
    /\ polling' = TRUE
    /\ toCheck' = MachinesOf(Step.set)
    /\ UNCHANGED <<clusterVars, it, seg, ip, victim, mhc, drainLabels, want, lapsed, timedOut>>

\* Then it looks at their nodes one by one; the first that is not ready, or
\* gone, ends the poll.
WaitNode(m) ==
    /\ At("wait") /\ polling
    /\ m \in toCheck
    /\ IF Exists(m) /\ phase[m] = "ready"
       THEN toCheck' = toCheck \ {m} /\ UNCHANGED <<polling, lapsed>>
       ELSE Reread
    /\ UNCHANGED <<clusterVars, it, seg, ip, victim, mhc, drainLabels, want, timedOut>>

WaitEnd ==
    /\ At("wait") /\ polling /\ toCheck = {}
    /\ want' = NotRead
    /\ Reread
    /\ Continue
    /\ UNCHANGED <<clusterVars, victim, mhc, drainLabels>>

\* WaitForMachineSetDelete lists the machines of the selector it holds, then gets
\* the machineset.
SetDeleteList ==
    /\ At("awaitSetGone") /\ ~polling
    /\ ListedBy(Step.set) = {}
    /\ polling' = TRUE
    /\ UNCHANGED <<clusterVars, it, seg, ip, victim, mhc, drainLabels, want, toCheck, lapsed, timedOut>>

\* A bug the checks must find: the machineset is not looked at.
SetDeleteGetNothing ==
    /\ At("awaitSetGone") /\ polling
    /\ Continue
    /\ Reread
    /\ UNCHANGED <<clusterVars, victim, mhc, drainLabels, want>>
SetDeleteGet ==
    /\ At("awaitSetGone") /\ polling
    /\ Reread
    /\ IF set[Step.set] = "absent"
       THEN Continue
       ELSE UNCHANGED <<it, seg, ip, timedOut>>
    /\ UNCHANGED <<clusterVars, victim, mhc, drainLabels, want>>

TheSpec ==
    \/ SegmentEnds \/ CreateMachineSet \/ ScaleMachineSet \/ DeleteMachineSet
    \/ (\E m \in Machines : DeleteMachine(m) \/ MarkUnhealthy(m))
    \/ HealthCheck \/ WaitForMachineDelete \/ LabelForDrain
    \/ WaitBegin \/ WaitList \/ (\E m \in Machines : WaitNode(m)) \/ WaitEnd
    \/ SetDeleteList \/ SetDeleteGet

Next == Controllers \/ TheSpec \/ Timeout

Spec == Init /\ [][Next]_vars

\* The goroutine of the spec runs and the controllers do their work.
FairSpec == Spec /\ WF_vars(TheSpec) /\ WF_vars(Controllers)
-----------------------------------------------------------------------------
TypeOK ==
    /\ set \in [Sets -> {"absent", "present", "deleting"}]
    /\ replicas \in [Sets -> 0..Replicas]
    /\ owner \in [Machines -> Sets \cup {0}]
    /\ used \subseteq Machines
    /\ phase \in [Machines -> {"pending", "running", "ready"}]
    /\ deleting \in [Machines -> BOOLEAN]
    /\ it \in {"recover", "grow", "drain", "health"}
    /\ seg \in 1..5 /\ ip \in 1..7
    /\ victim \in Machines \cup {NoMachine} /\ mhc \in BOOLEAN
    /\ drainLabels \in BOOLEAN /\ polling \in BOOLEAN /\ timedOut \in BOOLEAN
    /\ want \in {NotRead} \cup 0..Replicas
    /\ toCheck \subseteq Machines /\ lapsed \subseteq Machines
    /\ drops \in 0..MaxDrops

\* When WaitForMachineSet returns, the machineset really has its replicas, none
\* of them on its way out, although the poll read them one after the other: a
\* machine the spec deleted is not mistaken for its replacement.  Every node is
\* ready but for those that turned NotReady after the poll had read them, which
\* the code cannot see.
WaitMeansReady ==
    [][WaitEnd =>
         LET s == Step.set IN
           /\ Cardinality(MachinesOf(s)) = replicas[s]
           /\ \A m \in MachinesOf(s) : ~deleting[m] /\ (phase[m] = "ready" \/ m \in lapsed)]_vars

\* "polls until the given MachineSet is not found, and there are zero Machines
\* found matching the MachineSet's label selector": after it, both are gone.
SetDeleteMeansGone ==
    [][SetDeleteGet /\ ip' # ip =>
         set[Step.set] = "absent" /\ MachinesOf(Step.set) = {}]_vars

\* The same for the specs that leave the labels of the machineset alone.
SetDeleteMeansGoneUnlabelled ==
    [][SetDeleteGet /\ ip' # ip /\ ~drainLabels =>
         set[Step.set] = "absent" /\ MachinesOf(Step.set) = {}]_vars

\* If no wait times out, every spec ends: no wait waits for a state that the
\* controllers do not reach or leave again.
SpecsEnd == [](~timedOut) => <>(seg = 5)
=============================================================================
