----------------------- MODULE MachineSetWaitsProofs -----------------------
(***************************************************************************)
(* The safety properties of MachineSetWaits for every number of machines   *)
(* and replicas: why what several reads have found holds when they are     *)
(* over.                                                                   *)
(***************************************************************************)
EXTENDS MachineSetWaits, FiniteSetTheorems, TLAPS

\* A wait is at the step it belongs to, and has read what is still asked for.
Waiting ==
    /\ want # NotRead => At("wait") /\ want = replicas[Step.set]
    /\ polling => (At("wait") /\ want # NotRead) \/ At("awaitSetGone")

\* Which machinesets there are at the steps of the spec.
SetsExist ==
    /\ seg = 1 /\ ip = 1 => /\ set = [s \in Sets |-> "absent"]
                            /\ \A m \in Machines : ~Exists(m)
    /\ (seg = 1 /\ ip > 1) \/ seg = 2 => set[1] = "present"
    /\ it = "grow" /\ seg = 2 /\ ip > 1 => set[2] = "present"
    /\ At("awaitSetGone") => set[Step.set] # "present"
    /\ seg = 1 \/ (seg = 2 /\ ip <= 4) => replicas[2] = 0

\* The spec has one victim at most, which is gone before it waits for its set.
BeforeVictim == \/ seg = 1 \/ it = "grow"
                \/ seg = 2 /\ (ip = 1 \/ (it = "drain" /\ ip = 2))
Victims ==
    /\ BeforeVictim => victim = NoMachine
    /\ At("wait") => \A m \in Machines : Exists(m) => m # victim
    /\ victim \in used \cup {NoMachine}
    /\ \A m \in Machines : Exists(m) \/ deleting[m] => m \in used

\* A machineset that has not been scaled down is never too large, and nobody but
\* the spec has its machines deleted.
Steady ==
    /\ replicas[2] = 0 => MachinesOf(2) = {}
    /\ \A s \in Sets : set[s] = "present" /\ replicas[s] # 0 =>
         /\ Cardinality(ActiveOf(s)) <= replicas[s]
         /\ \A m \in MachinesOf(s) : deleting[m] => m = victim

\* What the reads of a poll have found is still so, but for the nodes that have
\* turned NotReady since.
Found(s) ==
    /\ Cardinality(MachinesOf(s)) = replicas[s]
    /\ \A m \in MachinesOf(s) : ~deleting[m] /\ (m \in toCheck \/ phase[m] = "ready" \/ m \in lapsed)
Polled ==
    /\ At("wait") /\ polling => Found(Step.set)
    /\ At("awaitSetGone") /\ polling /\ ~drainLabels => MachinesOf(Step.set) = {}

IInv == TypeOK /\ Waiting /\ SetsExist /\ Victims /\ Steady /\ Polled
-----------------------------------------------------------------------------
(* The steps of the specs. *)

Its == {"recover", "grow", "drain", "health"}

StepOK(sg, i) ==
    LET step == Segments[sg][i]
        op   == step.op
    IN  /\ op = "create" => \/ sg = 1 /\ i = 1 /\ step.set = 1 /\ step.n = Replicas
                            \/ sg = 2 /\ i = 1 /\ step.set = 2 /\ step.n = 0 /\ it = "grow"
        /\ op = "scale" =>  \/ sg = 2 /\ i = 3 /\ step.set = 1 /\ step.n = 0 /\ it = "grow"
                            \/ sg = 2 /\ i = 4 /\ step.set = 2 /\ step.n = Replicas /\ it = "grow"
        /\ op = "wait" =>   /\ i > 1 /\ step.set \in Sets
                            /\ \/ sg = 1 /\ step.set = 1
                               \/ sg = 2 /\ it = "grow"
                               \/ sg = 2 /\ step.set = 1 /\ Segments[sg][i-1].op = "awaitMachineGone"
        /\ op = "deleteSet" => sg \in {3, 4} /\ step.set \in Sets
        /\ op = "awaitSetGone" => /\ i > 1 /\ step.set \in Sets
                                  /\ Segments[sg][i-1].op = "deleteSet"
                                  /\ Segments[sg][i-1].set = step.set
        /\ op \in {"deleteMachine", "mark"} =>
              sg = 2 /\ (i = 1 \/ (it = "drain" /\ i = 2)) /\ it # "grow"
        /\ op = "addDrainLabels" => sg = 2 /\ i = 1 /\ it = "drain"
        /\ (sg = 1 /\ i = 1) \/ (sg = 2 /\ i = 1 /\ it = "grow") => op = "create"
        /\ sg = 2 /\ i = 4 /\ it = "grow" => op = "scale"
        /\ sg = 2 /\ i = 1 /\ it = "drain" => op = "addDrainLabels"
        /\ sg = 2 /\ it # "grow" /\ (i = 1 \/ (it = "drain" /\ i = 2)) =>
              op \in {"deleteMachine", "mark", "addDrainLabels"}

LEMMA TheSteps ==
    ASSUME it \in Its
    PROVE  /\ Len(Segments) = 4 /\ Len(Segments[1]) = 2
           /\ \A sg \in 1..4 : /\ Len(Segments[sg]) \in 0..6
                               /\ \A i \in 1..Len(Segments[sg]) : StepOK(sg, i)
<1> USE ReplicasAssumption DEF Segments, Create, Scale, Wait, DeleteSet, AwaitSetGone, DeleteVictim,
        AwaitVictimGone, AddDrainLabels, MarkVictim, CreateMHC, DeleteMHC, Sets, Its, StepOK
<1>1. Len(Segments) = 4 /\ Len(Segments[1]) = 2
  OBVIOUS
<1>2. ASSUME NEW sg \in 1..4
      PROVE  Len(Segments[sg]) \in 0..6 /\ \A i \in 1..Len(Segments[sg]) : StepOK(sg, i)
  <2>1. CASE sg = 1
    BY <2>1
  <2>2. CASE sg = 2 /\ it = "recover"
    BY <2>2 DEF Recover
  <2>3. CASE sg = 2 /\ it = "grow"
    BY <2>3 DEF Grow
  <2>4. CASE sg = 2 /\ it = "drain"
    BY <2>4 DEF Drain
  <2>5. CASE sg = 2 /\ it = "health"
    BY <2>5 DEF Remediate
  <2>6. CASE sg = 3
    BY <2>6
  <2>7. CASE sg = 4
    BY <2>7
  <2> HIDE DEF Segments, StepOK
  <2> QED BY <2>1, <2>2, <2>3, <2>4, <2>5, <2>6, <2>7
<1> HIDE DEF Segments, StepOK
<1> QED BY <1>1, <1>2

(* The step the spec is at. *)
LEMMA Here ==
    ASSUME TypeOK, NEW op, At(op)
    PROVE  /\ seg \in 1..4 /\ ip \in 1..Len(Segments[seg]) /\ Len(Segments[seg]) \in 0..6
           /\ Step.op = op /\ StepOK(seg, ip)
<1>1. it \in Its /\ Len(Segments) = 4
  BY TheSteps DEF TypeOK, Its
<1>2. seg \in 1..4
  BY <1>1 DEF TypeOK, At, Running
<1>3. Len(Segments[seg]) \in 0..6
  BY <1>1, <1>2, TheSteps
<1>4. ip \in 1..Len(Segments[seg])
  BY <1>3 DEF TypeOK, At
<1>5. StepOK(seg, ip)
  BY <1>1, <1>2, <1>4, TheSteps
<1> QED BY <1>2, <1>3, <1>4, <1>5 DEF At, Step

LEMMA SameSegments == it' = it => Segments' = Segments
BY DEF Segments, Grow, Recover, Drain, Remediate, Create, Scale, Wait, DeleteSet, AwaitSetGone,
       DeleteVictim, AwaitVictimGone, AddDrainLabels, MarkVictim, CreateMHC, DeleteMHC

(* The step that follows it, if the spec waits there. *)
LEMMA There ==
    ASSUME TypeOK, NEW op, At(op), Continue
    PROVE  /\ ip' \in 2..7
           /\ At("wait")' =>
                /\ Step'.set \in Sets
                /\ \/ seg = 1 /\ Step'.set = 1
                   \/ seg = 2 /\ it = "grow"
                   \/ seg = 2 /\ Step'.set = 1 /\ op = "awaitMachineGone"
           /\ At("awaitSetGone")' => op = "deleteSet" /\ Step'.set = Step.set
<1>1. it \in Its /\ UNCHANGED <<it, seg, Segments>> /\ ip' = ip + 1
  BY SameSegments DEF TypeOK, Its, Continue
<1>2. /\ seg \in 1..4 /\ ip \in 1..Len(Segments[seg]) /\ Len(Segments[seg]) \in 0..6
      /\ Segments[seg][ip].op = op
  BY Here DEF Step
<1>3. ASSUME NEW o, At(o)'
      PROVE  StepOK(seg, ip + 1) /\ Segments[seg][ip + 1].op = o /\ Step' = Segments[seg][ip + 1]
  <2>1. ip + 1 <= Len(Segments[seg]) /\ Segments[seg][ip + 1].op = o
    BY <1>1, <1>3 DEF At
  <2>2. StepOK(seg, ip + 1)
    BY <1>1, <1>2, <2>1, TheSteps
  <2> QED BY <1>1, <2>1, <2>2 DEF Step
<1>4. (ip + 1) - 1 = ip
  BY <1>2
<1>5. At("wait")' => /\ Step'.set \in Sets
                     /\ \/ seg = 1 /\ Step'.set = 1
                        \/ seg = 2 /\ it = "grow"
                        \/ seg = 2 /\ Step'.set = 1 /\ op = "awaitMachineGone"
  BY <1>2, <1>3, <1>4 DEF StepOK
<1>6. At("awaitSetGone")' => op = "deleteSet" /\ Step'.set = Step.set
  BY <1>2, <1>3, <1>4 DEF StepOK, Step
<1> QED BY <1>1, <1>2, <1>5, <1>6

(* A segment begins without a wait. *)
LEMMA SegmentBegins ==
    ASSUME TypeOK, it' = it, seg' \in 1..5, ip' = 1
    PROVE  ~At("wait")' /\ ~At("awaitSetGone")'
<1>1. it \in Its /\ Segments' = Segments /\ Len(Segments) = 4
  BY SameSegments, TheSteps DEF TypeOK, Its
<1>2. ASSUME NEW o, At(o)' PROVE StepOK(seg', 1) /\ Segments[seg'][1].op = o
  <2>1. seg' \in 1..4 /\ 1 <= Len(Segments[seg']) /\ Segments[seg'][1].op = o
    BY <1>1, <1>2 DEF At, Running
  <2> QED BY <1>1, <2>1, TheSteps
<1> QED BY <1>2 DEF StepOK

(* A step of the controllers leaves the spec alone, and so where it is. *)
LEMMA ControllersLeave ==
    ASSUME Controllers
    PROVE  /\ UNCHANGED <<it, seg, ip, victim, mhc, drainLabels, want, toCheck, polling, timedOut,
                          replicas, Segments, Step>>
           /\ \A op : At(op)' <=> At(op)
<1>1. UNCHANGED <<it, seg, ip, victim, mhc, drainLabels, want, toCheck, polling, timedOut>>
  BY DEF Controllers
<1>2. UNCHANGED replicas
  BY DEF Controllers, Remediated, NewMachine, Progress, NodeNotReady, MarkDeleted, Remove, RemoveSet
<1>3. UNCHANGED <<Segments, Step>>
  BY <1>1, SameSegments DEF Step
<1> QED BY <1>1, <1>2, <1>3 DEF At, Running, Step

(* So does a step of the spec that goes neither on nor elsewhere. *)
LEMMA StaysHere ==
    ASSUME UNCHANGED <<it, seg, ip>>
    PROVE  UNCHANGED <<Segments, Step>> /\ \A op : At(op)' <=> At(op)
BY SameSegments DEF At, Running, Step
-----------------------------------------------------------------------------
(* Types. *)

LEMMA TypeOKControllers ==
    ASSUME TypeOK, Controllers PROVE TypeOK'
<1> USE DEF Sets, MachinesOf, Exists
<1>1. UNCHANGED <<it, seg, ip, victim, mhc, drainLabels, want, toCheck, polling, timedOut, replicas>>
  BY ControllersLeave
<1> DEFINE Goal ==
       /\ set' \in [Sets -> {"absent", "present", "deleting"}]
       /\ owner' \in [Machines -> Sets \cup {0}]
       /\ used' \subseteq Machines
       /\ phase' \in [Machines -> {"pending", "running", "ready"}]
       /\ deleting' \in [Machines -> BOOLEAN]
<1>3. ASSUME NEW m \in Machines, NEW s \in Sets, NewMachine(m, s) PROVE Goal /\ UNCHANGED drops
  BY <1>3 DEF NewMachine, TypeOK
<1>4. ASSUME NEW m \in Machines, Progress(m) \/ MarkDeleted(m) \/ Remove(m)
      PROVE  Goal /\ UNCHANGED drops
  BY <1>4 DEF Progress, MarkDeleted, Remove, TypeOK
<1>5. ASSUME NEW s \in Sets, RemoveSet(s) PROVE Goal /\ UNCHANGED drops
  BY <1>5 DEF RemoveSet, TypeOK
<1>6. ASSUME NEW m \in Machines, NodeNotReady(m) PROVE Goal /\ drops' \in 0..MaxDrops
  BY <1>6, MaxDropsAssumption DEF NodeNotReady, TypeOK
<1>7. lapsed' \subseteq Machines
  BY DEF Controllers, TypeOK
<1>8. Goal /\ drops' \in 0..MaxDrops
  <2>1. Remediated => Goal /\ UNCHANGED drops
    BY DEF Remediated, TypeOK
  <2>2. drops \in 0..MaxDrops
    BY DEF TypeOK
  <2> HIDE DEF Goal
  <2> QED BY <1>3, <1>4, <1>5, <1>6, <2>1, <2>2 DEF Controllers
<1> QED BY <1>1, <1>7, <1>8 DEF TypeOK

(* One step on. *)
LEMMA ContinueType ==
    ASSUME TypeOK, NEW op, At(op), Continue
    PROVE  ip' \in 1..7 /\ UNCHANGED <<it, seg, timedOut>>
BY There DEF Continue

LEMMA TypeOKSpec ==
    ASSUME TypeOK, TheSpec \/ Timeout PROVE TypeOK'
<1> USE DEF clusterVars, pollVars
<1>1. CASE SegmentEnds
  <2>1. seg' \in 1..5 /\ ip' = 1
    <3>1. it \in Its /\ seg \in 1..5
      BY DEF TypeOK, Its
    <3>2. Len(Segments) = 4
      BY <3>1, TheSteps
    <3> QED BY <1>1, <3>1, <3>2 DEF SegmentEnds, Running
  <2> QED BY <1>1, <2>1 DEF SegmentEnds, TypeOK
<1>2. CASE Timeout
  <2>1. seg \in 1..4
    BY <1>2, Here DEF Timeout
  <2>2. /\ UNCHANGED <<clusterVars, it, victim, mhc, drainLabels>>
        /\ seg' \in 1..5 /\ ip' = 1
        /\ want' = NotRead /\ toCheck' = {} /\ lapsed' = {}
    BY <1>2, <2>1 DEF Timeout
  <2>3. timedOut' \in BOOLEAN /\ polling' \in BOOLEAN
    BY <1>2 DEF Timeout
  <2> QED BY <2>2, <2>3 DEF TypeOK
<1>3. CASE CreateMachineSet
  <2>1. At("create") /\ StepOK(seg, ip) /\ Step.op = "create"
    BY <1>3, Here DEF CreateMachineSet
  <2>2. Step.set \in Sets /\ Step.n \in 0..Replicas
    BY <2>1, ReplicasAssumption DEF StepOK, Step, Sets
  <2> QED BY <1>3, <2>1, <2>2, ContinueType DEF CreateMachineSet, TypeOK
<1>4. CASE ScaleMachineSet
  <2>1. At("scale") /\ StepOK(seg, ip) /\ Step.op = "scale"
    BY <1>4, Here DEF ScaleMachineSet
  <2>2. Step.set \in Sets /\ Step.n \in 0..Replicas
    BY <2>1, ReplicasAssumption DEF StepOK, Step, Sets
  <2> QED BY <1>4, <2>1, <2>2, ContinueType DEF ScaleMachineSet, TypeOK
<1>5. CASE DeleteMachineSet
  BY <1>5, ContinueType DEF DeleteMachineSet, TypeOK
<1>6. ASSUME NEW m \in Machines, DeleteMachine(m) PROVE TypeOK'
  BY <1>6, ContinueType DEF DeleteMachine, TypeOK
<1>7. ASSUME NEW m \in Machines, MarkUnhealthy(m) PROVE TypeOK'
  BY <1>7, ContinueType DEF MarkUnhealthy, TypeOK
<1>8. CASE HealthCheck
  <2>1. mhc' \in BOOLEAN
    BY <1>8 DEF HealthCheck, At
  <2> QED BY <1>8, <2>1, ContinueType DEF HealthCheck, TypeOK
<1>9. CASE WaitForMachineDelete
  BY <1>9, ContinueType DEF WaitForMachineDelete, TypeOK
<1>10. CASE LabelForDrain
  BY <1>10, ContinueType DEF LabelForDrain, TypeOK
<1>11. CASE WaitBegin
  <2>1. At("wait") /\ StepOK(seg, ip) /\ Step.op = "wait"
    BY <1>11, Here DEF WaitBegin
  <2>2. Step.set \in Sets
    BY <2>1 DEF StepOK, Step
  <2> QED BY <1>11, <2>2 DEF WaitBegin, Reread, TypeOK
<1>12. CASE WaitList
  BY <1>12 DEF WaitList, MachinesOf, TypeOK
<1>13. ASSUME NEW m \in Machines, WaitNode(m) PROVE TypeOK'
  BY <1>13 DEF WaitNode, Reread, TypeOK
<1>14. CASE WaitEnd
  BY <1>14, ContinueType DEF WaitEnd, Reread, TypeOK
<1>15. CASE SetDeleteList
  BY <1>15 DEF SetDeleteList, TypeOK
<1>16. CASE SetDeleteGet
  <2>1. ip' \in 1..7 /\ UNCHANGED <<it, seg, timedOut>>
    BY <1>16, ContinueType DEF SetDeleteGet, TypeOK
  <2> QED BY <1>16, <2>1 DEF SetDeleteGet, Reread, TypeOK
<1> QED BY <1>1, <1>2, <1>3, <1>4, <1>5, <1>6, <1>7, <1>8, <1>9, <1>10, <1>11, <1>12, <1>13, <1>14,
           <1>15, <1>16 DEF TheSpec
-----------------------------------------------------------------------------
(* What the controllers do not disturb. *)

LEMMA Sizes ==
    ASSUME NEW S \in SUBSET Machines
    PROVE  IsFiniteSet(S) /\ Cardinality(S) \in Nat
BY FS_Subset, FS_CardinalityType, MachinesAssumption

LEMMA WaitingControllers ==
    ASSUME Waiting, Controllers PROVE Waiting'
BY ControllersLeave DEF Waiting

LEMMA SetsExistControllers ==
    ASSUME TypeOK, SetsExist, Controllers PROVE SetsExist'
<1> USE DEF TypeOK, Exists
<1>1. UNCHANGED <<it, seg, ip, replicas, Step>> /\ (At("awaitSetGone")' <=> At("awaitSetGone"))
  BY ControllersLeave
<1>2. \A s \in Sets : set'[s] = set[s] \/ (set[s] = "deleting" /\ set'[s] = "absent")
  BY DEF Controllers, Remediated, NewMachine, Progress, NodeNotReady, MarkDeleted, Remove, RemoveSet
<1>3. ASSUME seg = 1, ip = 1 PROVE set' = set /\ \A m \in Machines : ~Exists(m)'
  <2>1. set = [s \in Sets |-> "absent"] /\ \A m \in Machines : owner[m] = 0
    BY <1>3 DEF SetsExist
  <2>2. CASE Remediated
    BY <2>1, <2>2 DEF Remediated
  <2>3. ASSUME NEW m \in Machines, NEW s \in Sets, NewMachine(m, s) PROVE FALSE
    BY <2>1, <2>3 DEF NewMachine
  <2>4. ASSUME NEW m \in Machines, Progress(m) \/ NodeNotReady(m) \/ MarkDeleted(m) \/ Remove(m) PROVE FALSE
    BY <2>1, <2>4 DEF Progress, NodeNotReady, MarkDeleted, Remove
  <2>5. ASSUME NEW s \in Sets, RemoveSet(s) PROVE FALSE
    BY <2>1, <2>5 DEF RemoveSet
  <2> QED BY <2>1, <2>2, <2>3, <2>4, <2>5 DEF Controllers
<1>4. At("awaitSetGone") => Step.set \in Sets
  BY Here DEF StepOK, Step
<1>5. set'[1] = set[1] \/ set[1] = "deleting"
  BY <1>2 DEF Sets
<1>6. set'[2] = set[2] \/ set[2] = "deleting"
  BY <1>2 DEF Sets
<1>7. At("awaitSetGone")' => set'[Step'.set] # "present"
  BY <1>1, <1>2, <1>4 DEF SetsExist
<1> QED BY <1>1, <1>3, <1>5, <1>6, <1>7 DEF SetsExist

LEMMA VictimsControllers ==
    ASSUME TypeOK, Victims, Controllers PROVE Victims'
<1> USE DEF TypeOK, Exists
<1>1. UNCHANGED <<it, seg, ip, victim>> /\ (At("wait")' <=> At("wait"))
  BY ControllersLeave
<1> DEFINE Goal ==
       /\ used \subseteq used'
       /\ \A m \in Machines : owner'[m] # 0 => owner[m] # 0 \/ (m \notin used /\ m \in used')
       /\ \A m \in Machines : deleting'[m] => deleting[m] \/ owner[m] # 0
<1>2. Goal
  <2>1. CASE Remediated
    BY <2>1 DEF Remediated
  <2>2. ASSUME NEW m \in Machines, NEW s \in Sets, NewMachine(m, s) PROVE Goal
    BY <2>2 DEF NewMachine
  <2>3. ASSUME NEW m \in Machines, Progress(m) \/ NodeNotReady(m) \/ MarkDeleted(m) \/ Remove(m) PROVE Goal
    BY <2>3 DEF Progress, NodeNotReady, MarkDeleted, Remove
  <2>4. ASSUME NEW s \in Sets, RemoveSet(s) PROVE Goal
    BY <2>4 DEF RemoveSet
  <2> QED BY <2>1, <2>2, <2>3, <2>4 DEF Controllers
<1>3. \A m \in Machines : owner'[m] # 0 => owner[m] # 0 \/ m # victim
  BY <1>2, MachinesAssumption DEF Victims
<1> QED BY <1>1, <1>2, <1>3 DEF Victims, BeforeVictim

(* No controller but the machineset's creates a machine; a machine is marked only if
   it is the victim or its machineset gone or too large, and removed only if marked. *)
Lessened ==
    /\ \A s \in Sets : /\ MachinesOf(s)' \subseteq MachinesOf(s)
                       /\ ActiveOf(s)' \subseteq ActiveOf(s)
                       /\ set'[s] = "present" => set[s] = "present"
    /\ \A m \in Machines : deleting'[m] /\ ~deleting[m] =>
         \/ m = victim
         \/ set[owner[m]] # "present"
         \/ Cardinality(ActiveOf(owner[m])) > replicas[owner[m]]
    /\ \A m \in Machines : Exists(m) /\ ~Exists(m)' => deleting[m]
    /\ \A m \in Machines : Exists(m)' => owner'[m] = owner[m]

(* A machine more. *)
LEMMA NewMachineMakes ==
    ASSUME TypeOK, Victims, NEW m \in Machines, NEW s \in Sets, NewMachine(m, s)
    PROVE  /\ UNCHANGED <<set, phase, deleting>> /\ ~deleting[m] /\ set[s] = "present"
           /\ MachinesOf(s)' = MachinesOf(s) \cup {m}
           /\ \A t \in Sets \ {s} : MachinesOf(t)' = MachinesOf(t) /\ ActiveOf(t)' = ActiveOf(t)
           /\ Cardinality(ActiveOf(s)) < replicas[s]
           /\ Cardinality(ActiveOf(s)') <= Cardinality(ActiveOf(s)) + 1
<1> USE DEF TypeOK, Exists, NewMachine, MachinesOf
<1>1. m \notin used /\ owner[m] = 0 /\ ~deleting[m]
  BY DEF Victims
<1>2. ActiveOf(s)' = ActiveOf(s) \cup {m}
  BY <1>1 DEF ActiveOf
<1>3. ActiveOf(s) \in SUBSET Machines
  BY DEF ActiveOf
<1>4. Cardinality(ActiveOf(s)') <= Cardinality(ActiveOf(s)) + 1
  BY <1>2, <1>3, Sizes, FS_AddElement
<1>5. \A t \in Sets \ {s} : MachinesOf(t)' = MachinesOf(t) /\ ActiveOf(t)' = ActiveOf(t)
  BY <1>1 DEF ActiveOf, Sets
<1>6. MachinesOf(s)' = MachinesOf(s) \cup {m}
  BY <1>1 DEF Sets
<1> QED BY <1>1, <1>4, <1>5, <1>6

LEMMA OthersMake ==
    ASSUME TypeOK, Controllers, \A m \in Machines, s \in Sets : ~NewMachine(m, s)
    PROVE  Lessened
<1> USE DEF Lessened, TypeOK, Exists, MachinesOf, ActiveOf, Sets
<1>1. CASE Remediated
  BY <1>1 DEF Remediated
<1>2. ASSUME NEW m \in Machines, Progress(m) \/ NodeNotReady(m) PROVE Lessened
  BY <1>2 DEF Progress, NodeNotReady
<1>3. ASSUME NEW m \in Machines, MarkDeleted(m) PROVE Lessened
  BY <1>3 DEF MarkDeleted
<1>4. ASSUME NEW m \in Machines, Remove(m) PROVE Lessened
  BY <1>4 DEF Remove
<1>5. ASSUME NEW s \in Sets, RemoveSet(s) PROVE Lessened
  BY <1>5 DEF RemoveSet
<1> QED BY <1>1, <1>2, <1>3, <1>4, <1>5 DEF Controllers

LEMMA SteadyControllers ==
    ASSUME TypeOK, Victims, Steady, Controllers PROVE Steady'
<1>1. UNCHANGED <<replicas, victim>>
  BY ControllersLeave
<1>2. \A t \in Sets : ActiveOf(t) \in SUBSET Machines /\ ActiveOf(t)' \in SUBSET Machines
  BY DEF ActiveOf, MachinesOf
<1>3. \A t \in Sets : replicas[t] \in Nat
  BY ReplicasAssumption DEF TypeOK
<1>4. ASSUME NEW m \in Machines, NEW s \in Sets, NewMachine(m, s) PROVE Steady'
  <2>1. /\ UNCHANGED <<set, deleting>> /\ ~deleting[m]
        /\ MachinesOf(s)' = MachinesOf(s) \cup {m}
        /\ \A t \in Sets \ {s} : MachinesOf(t)' = MachinesOf(t) /\ ActiveOf(t)' = ActiveOf(t)
        /\ Cardinality(ActiveOf(s)) < replicas[s]
        /\ Cardinality(ActiveOf(s)') <= Cardinality(ActiveOf(s)) + 1
    BY <1>4, NewMachineMakes
  <2>2. Cardinality(ActiveOf(s)) \in Nat /\ Cardinality(ActiveOf(s)') \in Nat
    BY <1>2, Sizes
  <2>3. replicas[s] # 0 /\ Cardinality(ActiveOf(s)') <= replicas[s]
    BY <1>3, <2>1, <2>2
  <2>4. replicas[2] = 0 => MachinesOf(2)' = {}
    BY <2>1, <2>3 DEF Steady, Sets
  <2>5. ASSUME NEW t \in Sets, set[t] = "present", replicas[t] # 0
        PROVE  /\ Cardinality(ActiveOf(t)') <= replicas[t]
               /\ \A n \in MachinesOf(t)' : deleting[n] => n = victim
    BY <2>1, <2>3, <2>5 DEF Steady
  <2> QED BY <1>1, <2>1, <2>4, <2>5 DEF Steady
<1>5. CASE \A m \in Machines, s \in Sets : ~NewMachine(m, s)
  <2>1. Lessened
    BY <1>5, OthersMake
  <2>2. \A t \in Sets : MachinesOf(t)' \subseteq MachinesOf(t) /\ MachinesOf(t) \subseteq Machines
    BY <2>1 DEF Lessened, MachinesOf
  <2>3. replicas[2] = 0 => MachinesOf(2)' = {}
    BY <2>2 DEF Steady, Sets
  <2>4. ASSUME NEW t \in Sets, set'[t] = "present", replicas[t] # 0
        PROVE  /\ Cardinality(ActiveOf(t)') <= replicas[t]
               /\ \A n \in MachinesOf(t)' : deleting'[n] => n = victim
    <3>1. set[t] = "present" /\ ActiveOf(t)' \in SUBSET ActiveOf(t)
      BY <2>1, <2>4 DEF Lessened
    <3>2. /\ Cardinality(ActiveOf(t)) <= replicas[t]
          /\ \A n \in MachinesOf(t) : deleting[n] => n = victim
      BY <2>4, <3>1 DEF Steady
    <3>3. Cardinality(ActiveOf(t)') <= Cardinality(ActiveOf(t))
      BY <1>2, <3>1, Sizes, FS_Subset
    <3>4. Cardinality(ActiveOf(t)') \in Nat /\ Cardinality(ActiveOf(t)) \in Nat
      BY <1>2, Sizes
    <3>5. ASSUME NEW n \in MachinesOf(t)', deleting'[n] PROVE n = victim
      <4>1. n \in Machines /\ n \in MachinesOf(t) /\ owner[n] = t
        BY <2>2 DEF MachinesOf
      <4>2. ~(Cardinality(ActiveOf(t)) > replicas[t])
        BY <1>3, <3>2, <3>4
      <4> QED BY <2>1, <3>1, <3>2, <3>5, <4>1, <4>2 DEF Lessened
    <3> QED BY <1>3, <3>2, <3>3, <3>4, <3>5
  <2> QED BY <1>1, <2>3, <2>4 DEF Steady
<1> QED BY <1>4, <1>5

LEMMA FoundControllers ==
    ASSUME TypeOK, Victims, Controllers, NEW s \in Sets, Found(s), set[s] = "present",
           want # NotRead, polling,
           \A m \in Machines : Exists(m) => m # victim
    PROVE  Found(s)'
<1>1. UNCHANGED <<replicas, toCheck, victim>>
  BY ControllersLeave
<1>2. replicas[s] \in Nat /\ \A t \in Sets : replicas[t] \in Nat
  BY ReplicasAssumption DEF TypeOK
<1>3. ActiveOf(s) = MachinesOf(s) /\ \A m \in MachinesOf(s) : m \in Machines /\ owner[m] = s /\ Exists(m)
  BY DEF Found, ActiveOf, MachinesOf, Exists, Sets
<1>6. /\ lapsed \subseteq lapsed'
      /\ \A m \in Machines \ toCheck : phase[m] = "ready" => phase'[m] = "ready" \/ m \in lapsed'
  BY DEF Controllers
<1>4. ASSUME NEW m \in Machines, NEW t \in Sets, NewMachine(m, t) PROVE Found(s)'
  <2>1. Cardinality(ActiveOf(t)) < replicas[t]
    BY <1>4, NewMachineMakes
  <2>2. s # t
    BY <1>2, <1>3, <2>1 DEF Found
  <2>3. \A u \in Sets \ {t} : MachinesOf(u)' = MachinesOf(u)
    BY <1>4, NewMachineMakes
  <2>4. UNCHANGED <<phase, deleting>>
    BY <1>4, NewMachineMakes
  <2>5. MachinesOf(s)' = MachinesOf(s)
    BY <2>2, <2>3
  <2> QED BY <1>1, <1>6, <2>4, <2>5 DEF Found
<1>5. CASE \A m \in Machines, t \in Sets : ~NewMachine(m, t)
  <2>1. Lessened
    BY <1>5, OthersMake
  <2>2. ~(Cardinality(ActiveOf(s)) > replicas[s])
    BY <1>2, <1>3 DEF Found
  <2>3. \A m \in MachinesOf(s) : ~deleting[m] /\ ~deleting'[m]
    BY <1>3, <2>1, <2>2 DEF Found, Lessened
  <2>4. MachinesOf(s)' \subseteq MachinesOf(s)
    BY <2>1 DEF Lessened
  <2>5. ASSUME NEW m \in MachinesOf(s) PROVE m \in MachinesOf(s)'
    <3>1. m \in Machines /\ Exists(m)'
      BY <1>3, <2>1, <2>3 DEF Lessened
    <3>2. owner'[m] = s
      BY <1>3, <2>1, <3>1 DEF Lessened
    <3> QED BY <3>1, <3>2 DEF MachinesOf
  <2>6. \A m \in MachinesOf(s) : m \in toCheck \/ phase'[m] = "ready" \/ m \in lapsed'
    BY <1>3, <1>6 DEF Found
  <2>7. MachinesOf(s)' = MachinesOf(s)
    BY <2>4, <2>5
  <2> QED BY <1>1, <2>3, <2>6, <2>7 DEF Found
<1> QED BY <1>4, <1>5

LEMMA PolledControllers ==
    ASSUME TypeOK, Waiting, SetsExist, Victims, Polled, Controllers PROVE Polled'
<1>1. /\ UNCHANGED <<polling, drainLabels, Step>>
      /\ \A op : At(op)' <=> At(op)
  BY ControllersLeave
<1>2. ASSUME At("wait"), polling PROVE Found(Step.set)'
  <2>1. /\ StepOK(seg, ip) /\ Step.op = "wait" /\ ip \in Nat
    BY <1>2, Here
  <2>2. /\ Step.set \in Sets /\ ip > 1
        /\ (seg = 1 /\ Step.set = 1) \/ (seg = 2 /\ it = "grow") \/ (seg = 2 /\ Step.set = 1)
    BY <2>1 DEF StepOK, Step
  <2>3. set[Step.set] = "present" /\ \A m \in Machines : Exists(m) => m # victim
    BY <1>2, <2>2 DEF SetsExist, Victims, Sets
  <2>4. PICK s \in Sets : s = Step.set
    BY <2>2
  <2>5. Found(s) /\ set[s] = "present"
    BY <1>2, <2>3, <2>4 DEF Polled
  <2>8. want # NotRead
    BY <1>2 DEF Waiting, At
  <2>6. Found(s)'
    BY <1>2, <2>3, <2>5, <2>8, FoundControllers
  <2>7. Step'.set = s
    BY <1>1, <2>4
  <2> QED BY <2>6, <2>7 DEF Found
<1>3. ASSUME At("awaitSetGone"), polling, ~drainLabels PROVE MachinesOf(Step.set)' = {}
  <2>1. StepOK(seg, ip) /\ Step.op = "awaitSetGone"
    BY <1>3, Here
  <2>2. Step.set \in Sets
    BY <2>1 DEF StepOK, Step
  <2>3. set[Step.set] # "present" /\ MachinesOf(Step.set) = {}
    BY <1>3 DEF SetsExist, Polled
  <2>4. PICK s \in Sets : s = Step.set
    BY <2>2
  <2>5. MachinesOf(s)' = {}
    <3>1. ASSUME NEW m \in Machines, NEW t \in Sets, NewMachine(m, t) PROVE MachinesOf(s)' = {}
      <4>1. set[t] = "present"
        BY <3>1, NewMachineMakes
      <4>2. \A u \in Sets \ {t} : MachinesOf(u)' = MachinesOf(u)
        BY <3>1, NewMachineMakes
      <4> QED BY <2>3, <2>4, <4>1, <4>2
    <3>2. CASE \A m \in Machines, t \in Sets : ~NewMachine(m, t)
      <4>1. Lessened
        BY <3>2, OthersMake
      <4> QED BY <2>3, <2>4, <4>1 DEF Lessened
    <3> QED BY <3>1, <3>2
  <2>6. Step'.set = s
    BY <1>1, <2>4
  <2> QED BY <2>5, <2>6 DEF MachinesOf
<1> QED BY <1>1, <1>2, <1>3 DEF Polled
-----------------------------------------------------------------------------
(* The steps of the spec. *)

LEMMA NothingRead ==
    ASSUME want' = NotRead, ~polling' PROVE Waiting' /\ Polled'
BY DEF Waiting, Polled

(* Where a spec stops waiting, the wait begins anew. *)
LEMMA OnlyWaitsRead ==
    ASSUME Waiting, NEW op, At(op), op # "wait"
    PROVE  want = NotRead /\ (op # "awaitSetGone" => ~polling)
BY DEF Waiting, At

LEMMA WaitingSpec ==
    ASSUME TypeOK, Waiting, Polled, TheSpec \/ Timeout
    PROVE  \/ want' = NotRead /\ ~polling'
           \/ WaitBegin \/ WaitList \/ \E m \in Machines : WaitNode(m)
           \/ SetDeleteList
<1> USE OnlyWaitsRead DEF pollVars
<1>1. CASE SegmentEnds
  <2>1. \A op : ~At(op)
    BY <1>1 DEF SegmentEnds, At, TypeOK
  <2> QED BY <1>1, <2>1 DEF SegmentEnds, Waiting
<1>2. CASE Timeout
  BY <1>2 DEF Timeout
<1>3. CASE CreateMachineSet
  BY <1>3 DEF CreateMachineSet
<1>4. CASE ScaleMachineSet
  BY <1>4 DEF ScaleMachineSet
<1>5. CASE DeleteMachineSet
  BY <1>5 DEF DeleteMachineSet
<1>6. ASSUME NEW m \in Machines, DeleteMachine(m) PROVE want' = NotRead /\ ~polling'
  BY <1>6 DEF DeleteMachine
<1>7. ASSUME NEW m \in Machines, MarkUnhealthy(m) PROVE want' = NotRead /\ ~polling'
  BY <1>7 DEF MarkUnhealthy
<1>8. CASE HealthCheck
  BY <1>8 DEF HealthCheck
<1>9. CASE WaitForMachineDelete
  BY <1>9 DEF WaitForMachineDelete
<1>10. CASE LabelForDrain
  BY <1>10 DEF LabelForDrain
<1>11. CASE WaitEnd
  BY <1>11 DEF WaitEnd, Reread
<1>12. CASE SetDeleteGet
  BY <1>12 DEF SetDeleteGet, Reread
<1> QED BY <1>1, <1>2, <1>3, <1>4, <1>5, <1>6, <1>7, <1>8, <1>9, <1>10, <1>11, <1>12 DEF TheSpec

(* Which machineset a wait is for, and that it is there. *)
LEMMA WaitsFor ==
    ASSUME TypeOK, SetsExist, At("wait") PROVE Step.set \in Sets /\ set[Step.set] = "present"
<1>1. StepOK(seg, ip) /\ Step.op = "wait" /\ ip \in Nat
  BY Here
<1>2. /\ Step.set \in Sets /\ ip > 1
      /\ (seg = 1 /\ Step.set = 1) \/ (seg = 2 /\ it = "grow") \/ (seg = 2 /\ Step.set = 1)
  BY <1>1 DEF StepOK, Step
<1> QED BY <1>2 DEF SetsExist, Sets

(* A step on that leaves the machinesets alone. *)
LEMMA SetsExistContinue ==
    ASSUME TypeOK, SetsExist, NEW op, At(op), Continue, UNCHANGED <<set, replicas>>,
           op \notin {"create", "scale", "deleteSet"}
    PROVE  SetsExist'
<1>1. /\ seg \in 1..4 /\ ip \in Nat /\ ip >= 1 /\ StepOK(seg, ip) /\ Segments[seg][ip].op = op
      /\ UNCHANGED <<it, seg>> /\ ip' = ip + 1
  BY Here DEF Step, Continue
<1>2. /\ ~At("awaitSetGone")'
      /\ ~(seg = 1 /\ ip = 1) /\ ~(seg = 2 /\ ip = 1 /\ it = "grow")
      /\ ~(seg = 2 /\ ip = 4 /\ it = "grow")
  BY <1>1, There DEF StepOK
<1> QED BY <1>1, <1>2 DEF SetsExist

LEMMA SetsExistSpec ==
    ASSUME TypeOK, SetsExist, TheSpec \/ Timeout PROVE SetsExist'
<1> USE DEF clusterVars, TypeOK, Sets
<1>1. CASE SegmentEnds \/ Timeout
  <2>1. UNCHANGED <<set, replicas, it>> /\ seg' \in 2..5 /\ ip' = 1
        /\ (seg' = 2 => seg = 1 /\ ip > 1)
    <3>1. it \in Its /\ seg \in 1..5
      BY DEF Its
    <3>2. Len(Segments) = 4 /\ Len(Segments[1]) = 2
      BY <3>1, TheSteps
    <3>3. CASE SegmentEnds
      <4>1. seg <= 4 /\ seg' = seg + 1 /\ ip' = 1 /\ UNCHANGED <<set, replicas, it>>
        BY <3>2, <3>3 DEF SegmentEnds, Running
      <4>2. ASSUME seg = 1 PROVE ip > 1
        <5>1. Len(Segments[seg]) = 2 /\ ip \in Nat
          BY <3>2, <4>2
        <5>2. ip > Len(Segments[seg])
          BY <3>3 DEF SegmentEnds
        <5> QED BY ONLY <5>1, <5>2
      <4> QED BY ONLY <3>1, <4>1, <4>2
    <3>4. CASE Timeout
      <4>1. seg \in 1..4
        BY <3>4, Here DEF Timeout
      <4> QED BY <3>4, <4>1 DEF Timeout
    <3> QED BY <1>1, <3>3, <3>4
  <2>2. ~At("awaitSetGone")'
    BY <2>1, SegmentBegins
  <2> QED BY <2>1, <2>2 DEF SetsExist
<1>2. CASE CreateMachineSet
  <2>1. /\ At("create") /\ StepOK(seg, ip) /\ Segments[seg][ip].op = "create" /\ Continue
        /\ UNCHANGED <<it, seg>> /\ ip' = ip + 1
    BY <1>2, Here DEF CreateMachineSet, Step, Continue
  <2>2. \/ seg = 1 /\ ip = 1 /\ Step.set = 1 /\ Step.n = Replicas
        \/ seg = 2 /\ ip = 1 /\ Step.set = 2 /\ Step.n = 0 /\ it = "grow"
    BY <2>1 DEF StepOK, Step
  <2>3. ~At("awaitSetGone")'
    BY <2>1, There
  <2>4. /\ set' = [set EXCEPT ![Step.set] = "present"]
        /\ replicas' = [replicas EXCEPT ![Step.set] = Step.n]
    BY <1>2 DEF CreateMachineSet
  <2> QED BY <2>1, <2>2, <2>3, <2>4 DEF SetsExist
<1>3. CASE ScaleMachineSet
  <2>1. /\ At("scale") /\ StepOK(seg, ip) /\ Segments[seg][ip].op = "scale" /\ Continue
        /\ UNCHANGED <<it, seg, set>> /\ ip' = ip + 1
    BY <1>3, Here DEF ScaleMachineSet, Step, Continue
  <2>2. \/ seg = 2 /\ ip = 3 /\ Step.set = 1 /\ Step.n = 0 /\ it = "grow"
        \/ seg = 2 /\ ip = 4 /\ Step.set = 2 /\ Step.n = Replicas /\ it = "grow"
    BY <2>1 DEF StepOK, Step
  <2>3. ~At("awaitSetGone")'
    BY <2>1, There
  <2>4. replicas' = [replicas EXCEPT ![Step.set] = Step.n]
    BY <1>3 DEF ScaleMachineSet
  <2> QED BY <2>1, <2>2, <2>3, <2>4 DEF SetsExist
<1>4. CASE DeleteMachineSet
  <2>1. /\ At("deleteSet") /\ StepOK(seg, ip) /\ Segments[seg][ip].op = "deleteSet" /\ Continue
        /\ UNCHANGED <<it, seg, replicas>> /\ ip' = ip + 1
    BY <1>4, Here DEF DeleteMachineSet, Step, Continue
  <2>2. seg \in {3, 4} /\ Step.set \in {1, 2}
    BY <2>1 DEF StepOK, Step
  <2>3. At("awaitSetGone")' => Step'.set = Step.set
    BY <2>1, There
  <2>4. set'[Step.set] # "present"
    BY <1>4, <2>2 DEF DeleteMachineSet
  <2> QED BY <2>1, <2>2, <2>3, <2>4 DEF SetsExist
<1>5. ASSUME NEW m \in Machines, DeleteMachine(m) \/ MarkUnhealthy(m) PROVE SetsExist'
  BY <1>5, SetsExistContinue DEF DeleteMachine, MarkUnhealthy
<1>6. CASE HealthCheck
  BY <1>6, SetsExistContinue DEF HealthCheck
<1>7. CASE WaitForMachineDelete
  BY <1>7, SetsExistContinue DEF WaitForMachineDelete
<1>8. CASE LabelForDrain
  BY <1>8, SetsExistContinue DEF LabelForDrain
<1>9. CASE WaitEnd
  BY <1>9, SetsExistContinue DEF WaitEnd
<1>10. CASE SetDeleteGet /\ Continue
  BY <1>10, SetsExistContinue DEF SetDeleteGet
<1>11. CASE UNCHANGED <<it, seg, ip>> /\ UNCHANGED clusterVars
  <2>1. UNCHANGED Step /\ (At("awaitSetGone")' <=> At("awaitSetGone"))
    BY <1>11, StaysHere
  <2> QED BY <1>11, <2>1 DEF SetsExist, Exists
<1>12. WaitBegin \/ WaitList \/ (\E m \in Machines : WaitNode(m)) \/ SetDeleteList
         => UNCHANGED <<it, seg, ip>> /\ UNCHANGED clusterVars
  BY DEF WaitBegin, WaitList, WaitNode, SetDeleteList
<1>13. SetDeleteGet => Continue \/ (UNCHANGED <<it, seg, ip>> /\ UNCHANGED clusterVars)
  BY DEF SetDeleteGet
<1> QED BY <1>1, <1>2, <1>3, <1>4, <1>5, <1>6, <1>7, <1>8, <1>9, <1>10, <1>11, <1>12, <1>13 DEF TheSpec
(* A step on that leaves the machines and the victim alone. *)
LEMMA VictimsContinue ==
    ASSUME TypeOK, Victims, NEW op, At(op), Continue, UNCHANGED <<owner, used, deleting, victim>>,
           op \notin {"deleteMachine", "mark"}, op = "awaitMachineGone" => ~Exists(victim)
    PROVE  Victims'
<1>1. /\ seg \in 1..4 /\ ip \in Nat /\ ip >= 1 /\ StepOK(seg, ip) /\ Segments[seg][ip].op = op
      /\ UNCHANGED <<it, seg>> /\ ip' = ip + 1
  BY Here DEF Step, Continue
<1>2. BeforeVictim' => BeforeVictim
  BY <1>1 DEF BeforeVictim
<1>3. ASSUME At("wait")', NEW m \in Machines, Exists(m) PROVE m # victim
  <2>1. seg = 1 \/ (seg = 2 /\ it = "grow") \/ op = "awaitMachineGone"
    BY <1>3, There
  <2>2. CASE BeforeVictim
    BY <1>3, <2>2, MachinesAssumption DEF Victims
  <2>3. CASE op = "awaitMachineGone"
    BY <1>3, <2>3
  <2> QED BY <2>1, <2>2, <2>3 DEF BeforeVictim
<1> QED BY <1>2, <1>3 DEF Victims, Exists

(* The spec has no victim where it chooses one. *)
LEMMA ChoosesVictim ==
    ASSUME TypeOK, Victims, NEW op, op \in {"deleteMachine", "mark"}, At(op), Continue
    PROVE  victim = NoMachine /\ ~BeforeVictim' /\ ~At("wait")'
<1>1. /\ seg \in 1..4 /\ ip \in Nat /\ StepOK(seg, ip) /\ Segments[seg][ip].op = op
      /\ UNCHANGED <<it, seg>> /\ ip' = ip + 1
  BY Here DEF Step, Continue
<1>2. seg = 2 /\ (ip = 1 \/ (it = "drain" /\ ip = 2)) /\ it # "grow" /\ ~(ip = 1 /\ it = "drain")
  BY <1>1 DEF StepOK
<1>3. ~BeforeVictim'
  BY <1>1, <1>2 DEF BeforeVictim
<1>4. ~At("wait")'
  BY <1>1, <1>2, There
<1> QED BY <1>2, <1>3, <1>4 DEF Victims, BeforeVictim

LEMMA VictimsSpec ==
    ASSUME TypeOK, Victims, TheSpec \/ Timeout PROVE Victims'
<1> USE DEF clusterVars
<1>1. CASE SegmentEnds \/ Timeout
  <2>1. UNCHANGED <<owner, used, deleting, victim, it>> /\ seg' \in 2..5 /\ ip' = 1
        /\ (seg' = 2 => seg = 1)
    <3>1. seg \in 1..5 /\ Len(Segments) = 4
      BY TheSteps DEF TypeOK, Its
    <3>2. CASE SegmentEnds
      BY <3>1, <3>2 DEF SegmentEnds, Running
    <3>3. CASE Timeout
      <4>1. seg \in 1..4
        BY <3>3, Here DEF Timeout
      <4> QED BY <3>3, <4>1 DEF Timeout
    <3> QED BY <1>1, <3>2, <3>3
  <2>2. ~At("wait")' /\ (BeforeVictim' => BeforeVictim)
    BY <2>1, SegmentBegins DEF BeforeVictim
  <2> QED BY <2>1, <2>2 DEF Victims, Exists
<1>2. CASE CreateMachineSet
  BY <1>2, VictimsContinue DEF CreateMachineSet
<1>3. CASE ScaleMachineSet
  BY <1>3, VictimsContinue DEF ScaleMachineSet
<1>4. CASE DeleteMachineSet
  BY <1>4, VictimsContinue DEF DeleteMachineSet
<1>5. ASSUME NEW m \in Machines, DeleteMachine(m) \/ MarkUnhealthy(m) PROVE Victims'
  <2>1. /\ UNCHANGED <<owner, used>> /\ victim' = m /\ Exists(m)
        /\ \A n \in Machines : deleting'[n] => deleting[n] \/ n = m
    BY <1>5 DEF DeleteMachine, MarkUnhealthy, MachinesOf, Exists, TypeOK
  <2>2. ~BeforeVictim' /\ ~At("wait")'
    BY <1>5, ChoosesVictim DEF DeleteMachine, MarkUnhealthy
  <2> QED BY <2>1, <2>2 DEF Victims, Exists
<1>6. CASE HealthCheck
  BY <1>6, VictimsContinue DEF HealthCheck
<1>7. CASE WaitForMachineDelete
  BY <1>7, VictimsContinue DEF WaitForMachineDelete
<1>8. CASE LabelForDrain
  BY <1>8, VictimsContinue DEF LabelForDrain
<1>9. CASE WaitEnd
  BY <1>9, VictimsContinue DEF WaitEnd
<1>10. CASE SetDeleteGet /\ Continue
  BY <1>10, VictimsContinue DEF SetDeleteGet
<1>11. CASE UNCHANGED <<it, seg, ip, victim>> /\ UNCHANGED clusterVars
  <2>1. At("wait")' <=> At("wait")
    BY <1>11, StaysHere
  <2> QED BY <1>11, <2>1 DEF Victims, BeforeVictim, Exists
<1>12. WaitBegin \/ WaitList \/ (\E m \in Machines : WaitNode(m)) \/ SetDeleteList
         => UNCHANGED <<it, seg, ip, victim>> /\ UNCHANGED clusterVars
  BY DEF WaitBegin, WaitList, WaitNode, SetDeleteList
<1>13. SetDeleteGet => Continue \/ (UNCHANGED <<it, seg, ip, victim>> /\ UNCHANGED clusterVars)
  BY DEF SetDeleteGet
<1> QED BY <1>1, <1>2, <1>3, <1>4, <1>5, <1>6, <1>7, <1>8, <1>9, <1>10, <1>11, <1>12, <1>13 DEF TheSpec

LEMMA SteadySpec ==
    ASSUME TypeOK, SetsExist, Victims, Steady, TheSpec \/ Timeout PROVE Steady'
<1> USE DEF clusterVars, MachinesOf, ActiveOf
<1>1. CASE CreateMachineSet
  <2>1. /\ At("create") /\ StepOK(seg, ip) /\ Segments[seg][ip].op = "create"
        /\ UNCHANGED <<owner, deleting, victim>>
    BY <1>1, Here DEF CreateMachineSet, Step
  <2>2. \/ seg = 1 /\ ip = 1 /\ Step.set = 1 /\ Step.n = Replicas
        \/ seg = 2 /\ ip = 1 /\ Step.set = 2 /\ Step.n = 0
    BY <2>1 DEF StepOK, Step
  <2>3. /\ set' = [set EXCEPT ![Step.set] = "present"]
        /\ replicas' = [replicas EXCEPT ![Step.set] = Step.n]
    BY <1>1 DEF CreateMachineSet
  <2>4. replicas[2] = 0 /\ MachinesOf(2) = {}
    BY <2>2 DEF SetsExist, Steady
  <2>5. seg = 1 => MachinesOf(1) = {} /\ ActiveOf(1) = {} /\ set[2] = "absent"
    BY <2>2 DEF SetsExist, Exists, Sets
  <2>6. Cardinality({}) = 0
    BY FS_EmptySet
  <2>7. CASE seg = 1
    <3>1. /\ replicas'[1] = Replicas /\ replicas'[2] = 0 /\ set'[2] # "present"
          /\ MachinesOf(2)' = {} /\ MachinesOf(1)' = {} /\ ActiveOf(1)' = {}
      BY <2>1, <2>2, <2>3, <2>4, <2>5, <2>7 DEF Sets, TypeOK
    <3>2. Cardinality(ActiveOf(1)') <= replicas'[1]
      BY <2>6, <3>1, ReplicasAssumption
    <3> QED BY <3>1, <3>2 DEF Steady, Sets
  <2>8. CASE seg = 2
    BY <2>1, <2>2, <2>3, <2>4, <2>8 DEF Steady, Sets, TypeOK
  <2> QED BY <2>2, <2>7, <2>8
<1>2. CASE ScaleMachineSet
  <2>1. /\ At("scale") /\ StepOK(seg, ip) /\ Segments[seg][ip].op = "scale"
        /\ UNCHANGED <<set, owner, deleting, victim>>
    BY <1>2, Here DEF ScaleMachineSet, Step
  <2>2. \/ seg = 2 /\ ip = 3 /\ Step.set = 1 /\ Step.n = 0
        \/ seg = 2 /\ ip = 4 /\ Step.set = 2 /\ Step.n = Replicas
    BY <2>1 DEF StepOK, Step
  <2>3. replicas' = [replicas EXCEPT ![Step.set] = Step.n]
    BY <1>2 DEF ScaleMachineSet
  <2>4. MachinesOf(2) = {} /\ ActiveOf(2) = {}
    BY <2>2 DEF SetsExist, Steady
  <2>5. Cardinality({}) = 0
    BY FS_EmptySet
  <2>6. CASE ip = 3
    BY <2>1, <2>2, <2>3, <2>4, <2>6 DEF Steady, Sets, TypeOK
  <2>7. CASE ip = 4
    <3>1. /\ replicas'[2] = Replicas /\ replicas'[1] = replicas[1]
          /\ MachinesOf(2)' = {} /\ ActiveOf(2)' = {} /\ UNCHANGED <<set, victim>>
          /\ MachinesOf(1)' = MachinesOf(1) /\ ActiveOf(1)' = ActiveOf(1) /\ UNCHANGED deleting
      BY <2>1, <2>2, <2>3, <2>4, <2>7 DEF Sets, TypeOK
    <3>2. Cardinality(ActiveOf(2)') <= replicas'[2]
      BY <2>5, <3>1, ReplicasAssumption
    <3> QED BY <3>1, <3>2 DEF Steady, Sets
  <2> QED BY <2>2, <2>6, <2>7
<1>3. CASE DeleteMachineSet
  <2>1. /\ UNCHANGED <<replicas, owner, deleting, victim>>
        /\ \A s \in Sets : set'[s] = "present" => set[s] = "present"
    BY <1>3 DEF DeleteMachineSet, TypeOK
  <2> QED BY <2>1 DEF Steady
<1>4. ASSUME NEW m \in Machines, DeleteMachine(m) \/ MarkUnhealthy(m) PROVE Steady'
  <2>1. /\ UNCHANGED <<set, replicas, owner>> /\ victim' = m
        /\ \A n \in Machines : /\ deleting'[n] => deleting[n] \/ n = m
                               /\ deleting[n] => deleting'[n]
    BY <1>4 DEF DeleteMachine, MarkUnhealthy, TypeOK
  <2>2. victim = NoMachine
    BY <1>4, ChoosesVictim DEF DeleteMachine, MarkUnhealthy
  <2>3. replicas[2] = 0 => MachinesOf(2)' = {}
    BY <2>1 DEF Steady
  <2>4. ASSUME NEW s \in Sets, set[s] = "present", replicas[s] # 0
        PROVE  /\ Cardinality(ActiveOf(s)') <= replicas[s]
               /\ \A n \in MachinesOf(s)' : deleting'[n] => n = m
    <3>1. /\ Cardinality(ActiveOf(s)) <= replicas[s]
          /\ \A n \in MachinesOf(s) : ~deleting[n]
      BY <2>2, <2>4, MachinesAssumption DEF Steady
    <3>2. ActiveOf(s) \in SUBSET Machines /\ ActiveOf(s)' \in SUBSET ActiveOf(s)
      BY <2>1
    <3>3. Cardinality(ActiveOf(s)') <= Cardinality(ActiveOf(s))
      BY <3>2, Sizes, FS_Subset
    <3>4. /\ Cardinality(ActiveOf(s)') \in Nat /\ Cardinality(ActiveOf(s)) \in Nat
          /\ replicas[s] \in Nat
      BY <3>2, Sizes, ReplicasAssumption DEF TypeOK
    <3>5. \A n \in MachinesOf(s)' : deleting'[n] => n = m
      BY <2>1, <3>1
    <3> QED BY ONLY <3>1, <3>3, <3>4, <3>5
  <2> QED BY <2>1, <2>3, <2>4 DEF Steady
<1>5. SegmentEnds \/ Timeout \/ HealthCheck \/ WaitForMachineDelete \/ LabelForDrain \/ WaitBegin
        \/ WaitList \/ (\E m \in Machines : WaitNode(m)) \/ WaitEnd \/ SetDeleteList \/ SetDeleteGet
        => UNCHANGED <<set, replicas, owner, deleting, victim>>
  BY DEF SegmentEnds, Timeout, HealthCheck, WaitForMachineDelete, LabelForDrain, WaitBegin,
         WaitList, WaitNode, WaitEnd, SetDeleteList, SetDeleteGet
<1>6. CASE UNCHANGED <<set, replicas, owner, deleting, victim>>
  BY <1>6 DEF Steady
<1> QED BY <1>1, <1>2, <1>3, <1>4, <1>5, <1>6 DEF TheSpec
LEMMA WaitingPolledSpec ==
    ASSUME TypeOK, Waiting, SetsExist, Victims, Steady, Polled, TheSpec \/ Timeout
    PROVE  Waiting' /\ Polled'
<1> USE DEF clusterVars
<1>1. CASE want' = NotRead /\ ~polling'
  BY <1>1, NothingRead
<1>2. ASSUME UNCHANGED <<clusterVars, it, seg, ip, drainLabels>>
      PROVE  UNCHANGED Step /\ \A op : At(op)' <=> At(op)
  BY <1>2, StaysHere
<1>3. CASE WaitBegin
  <2>1. UNCHANGED Step /\ At("wait")' /\ want' = replicas'[Step'.set] /\ ~polling'
    BY <1>2, <1>3 DEF WaitBegin, Reread
  <2> QED BY <2>1 DEF Waiting, Polled
<1>4. CASE WaitList
  <2>1. /\ At("wait") /\ want # NotRead /\ ListPasses(Step.set) /\ UNCHANGED want
        /\ UNCHANGED <<clusterVars, it, seg, ip, drainLabels>> /\ toCheck' = MachinesOf(Step.set)
    BY <1>4 DEF WaitList
  <2>2. UNCHANGED Step /\ At("wait")' /\ ~At("awaitSetGone")'
    BY <1>2, <2>1 DEF At
  <2>3. PICK s \in Sets : s = Step.set /\ set[s] = "present"
    BY <2>1, WaitsFor
  <2>4. Cardinality(MachinesOf(s)) = replicas[s]
    BY <2>1, <2>3 DEF ListPasses, Waiting
  <2>5. ASSUME NEW m \in MachinesOf(s) PROVE ~deleting[m]
    <3>1. m \in Machines /\ Exists(m)
      BY DEF MachinesOf, Exists, Sets
    <3>2. replicas[s] # 0
      <4>1. MachinesOf(s) \in SUBSET Machines
        BY DEF MachinesOf
      <4> QED BY <2>4, <4>1, Sizes, FS_EmptySet
    <3>3. m # victim
      BY <2>1, <3>1 DEF Victims
    <3> QED BY <2>3, <3>2, <3>3 DEF Steady
  <2>6. Found(s)'
    BY <2>1, <2>3, <2>4, <2>5 DEF Found, MachinesOf
  <2>7. Step'.set = s
    BY <2>2, <2>3
  <2>8. Polled'
    BY <2>2, <2>6, <2>7 DEF Polled, Found
  <2>9. Waiting'
    BY <2>1, <2>2 DEF Waiting
  <2> QED BY <2>8, <2>9
<1>5. ASSUME NEW m \in Machines, WaitNode(m) PROVE Waiting' /\ Polled'
  <2>1. /\ At("wait") /\ polling /\ UNCHANGED <<want, clusterVars, it, seg, ip, drainLabels>>
        /\ \/ ~polling'
           \/ phase[m] = "ready" /\ toCheck' = toCheck \ {m} /\ UNCHANGED lapsed
    BY <1>5 DEF WaitNode, Reread
  <2>2. UNCHANGED Step /\ At("wait")' /\ ~At("awaitSetGone")'
    BY <1>2, <2>1 DEF At
  <2>3. Found(Step.set)
    BY <2>1 DEF Polled
  <2>4. polling' => Found(Step.set)'
    BY <2>1, <2>2, <2>3 DEF Found, MachinesOf
  <2>5. want # NotRead /\ want = replicas[Step.set]
    BY <2>1 DEF Waiting, At
  <2>6. want' # NotRead /\ want' = replicas'[Step'.set]
    BY <2>1, <2>2, <2>5
  <2>7. Waiting'
    BY <2>2, <2>6 DEF Waiting
  <2> QED BY <2>2, <2>4, <2>7 DEF Polled
<1>6. CASE SetDeleteList
  <2>1. /\ At("awaitSetGone") /\ ListedBy(Step.set) = {}
        /\ UNCHANGED <<want, clusterVars, it, seg, ip, drainLabels>>
    BY <1>6 DEF SetDeleteList
  <2>2. UNCHANGED Step /\ ~At("wait")' /\ At("awaitSetGone")'
    BY <1>2, <2>1 DEF At
  <2>3. want = NotRead
    BY <2>1, OnlyWaitsRead
  <2>4. ~drainLabels => MachinesOf(Step.set)' = {}
    BY <2>1, <2>2 DEF ListedBy, MachinesOf
  <2> QED BY <2>1, <2>2, <2>3, <2>4 DEF Waiting, Polled
<1> QED BY <1>1, <1>3, <1>4, <1>5, <1>6, WaitingSpec
-----------------------------------------------------------------------------
(* The theorems. *)

LEMMA InitIInv == Init => IInv
<1> SUFFICES ASSUME Init PROVE IInv
  OBVIOUS
<1> USE DEF Init
<1>1. TypeOK
  <2>1. mhc \in BOOLEAN /\ drainLabels \in BOOLEAN /\ polling \in BOOLEAN /\ timedOut \in BOOLEAN
    OBVIOUS
  <2>2. deleting \in [Machines -> BOOLEAN]
    OBVIOUS
  <2> HIDE DEF Init
  <2>3. /\ set \in [Sets -> {"absent", "present", "deleting"}]
        /\ replicas \in [Sets -> 0..Replicas]
        /\ owner \in [Machines -> Sets \cup {0}]
        /\ phase \in [Machines -> {"pending", "running", "ready"}]
        /\ used \subseteq Machines /\ it \in Its
        /\ seg \in 1..5 /\ ip \in 1..7 /\ victim = NoMachine /\ want = NotRead
        /\ toCheck \subseteq Machines /\ lapsed \subseteq Machines /\ drops \in 0..MaxDrops
    BY ReplicasAssumption, MaxDropsAssumption DEF Init, Sets, Its
  <2> QED BY <2>1, <2>2, <2>3 DEF TypeOK, Its
<1>2. ~At("wait") /\ ~At("awaitSetGone")
  <2>1. it \in Its
    BY DEF Its
  <2>2. Len(Segments[1]) = 2
    BY <2>1, TheSteps
  <2>3. ASSUME NEW sg \in 1..4, NEW i \in 1..Len(Segments[sg]) PROVE StepOK(sg, i)
    BY ONLY <2>1, <2>3, TheSteps
  <2>4. StepOK(1, 1)
    BY ONLY <2>2, <2>3
  <2> QED BY <2>4 DEF StepOK, At
<1>3. Waiting /\ Polled
  BY <1>2 DEF Waiting, Polled
<1>4. SetsExist
  BY <1>2 DEF SetsExist, Exists, Sets
<1>5. Victims
  BY <1>2 DEF Victims, Exists
<1>6. Steady
  BY DEF Steady, MachinesOf, Sets
<1> QED BY <1>1, <1>3, <1>4, <1>5, <1>6 DEF IInv

LEMMA NextIInv == IInv /\ [Next]_vars => IInv'
<1> SUFFICES ASSUME IInv, [Next]_vars PROVE IInv'
  OBVIOUS
<1> USE DEF IInv
<1>1. CASE Controllers
  BY <1>1, TypeOKControllers, WaitingControllers, SetsExistControllers, VictimsControllers,
     SteadyControllers, PolledControllers
<1>2. CASE TheSpec \/ Timeout
  BY <1>2, TypeOKSpec, SetsExistSpec, VictimsSpec, SteadySpec, WaitingPolledSpec
<1>3. CASE UNCHANGED vars
  <2>1. /\ UNCHANGED <<set, replicas, owner, used, phase, drops, deleting, it, seg, ip, victim,
                       mhc, drainLabels, want, toCheck, polling, lapsed, timedOut>>
    BY <1>3 DEF vars, clusterVars, pollVars
  <2>2. UNCHANGED <<Segments, Step>> /\ \A op : At(op)' <=> At(op)
    BY <2>1, StaysHere
  <2>3. TypeOK'
    BY <2>1 DEF TypeOK
  <2>4. Waiting' /\ SetsExist'
    BY <2>1, <2>2 DEF Waiting, SetsExist, Exists
  <2>5. Victims' /\ Steady'
    BY <2>1, <2>2 DEF Victims, BeforeVictim, Steady, MachinesOf, ActiveOf, Exists
  <2>6. Polled'
    BY <2>1, <2>2 DEF Polled, Found, MachinesOf
  <2> QED BY <2>3, <2>4, <2>5, <2>6
<1> QED BY <1>1, <1>2, <1>3 DEF Next

\* What a spec of pkg/infra knows of its machinesets at each step, and a wait of
\* what it has read, stays so while the controllers work: the strengthening that
\* the theorems below rest on, for every number of machines and replicas.
THEOREM WaitsInvariant == Spec => []IInv
BY InitIInv, NextIInv, PTL DEF Spec

\* The variables keep their types: the spec and the wait it is in (pkg/infra) are
\* always at a step of their script.
THEOREM WaitsTypeCorrect == Spec => []TypeOK
<1>1. IInv => TypeOK
  BY DEF IInv
<1> QED BY <1>1, WaitsInvariant, PTL

\* WaitForMachineSet (framework/machinesets.go) returns only when the machineset
\* has its replicas and none is on its way out, although it reads machines and
\* nodes one after the other while the controllers work; each is ready unless its
\* node turned NotReady after the poll had read it.
THEOREM WaitReturnsReady == Spec => WaitMeansReady
<1> DEFINE A == WaitEnd => LET s == Step.set IN
                  /\ Cardinality(MachinesOf(s)) = replicas[s]
                  /\ \A m \in MachinesOf(s) : ~deleting[m] /\ (phase[m] = "ready" \/ m \in lapsed)
<1>1. IInv /\ [Next]_vars => [A]_vars
  BY DEF IInv, Polled, Found, WaitEnd
<1> HIDE DEF A
<1>2. [][A]_vars => WaitMeansReady
  BY PTL DEF A, WaitMeansReady
<1> QED BY <1>1, <1>2, WaitsInvariant, PTL DEF Spec

\* WaitForMachineSetDelete (framework/machinesets.go) returns only when the
\* machineset and its machines are gone, in a spec that keeps the labels it made
\* the machineset with.
THEOREM DeleteWaitReturnsGone == Spec => SetDeleteMeansGoneUnlabelled
<1> DEFINE A == SetDeleteGet /\ ip' # ip /\ ~drainLabels =>
                  set[Step.set] = "absent" /\ MachinesOf(Step.set) = {}
<1>1. IInv /\ [Next]_vars => [A]_vars
  BY DEF IInv, Polled, SetDeleteGet
<1> HIDE DEF A
<1>2. [][A]_vars => SetDeleteMeansGoneUnlabelled
  BY PTL DEF A, SetDeleteMeansGoneUnlabelled
<1> QED BY <1>1, <1>2, WaitsInvariant, PTL DEF Spec
=============================================================================
