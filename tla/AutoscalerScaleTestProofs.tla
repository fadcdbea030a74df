--------------------- MODULE AutoscalerScaleTestProofs ---------------------
(***************************************************************************)
(* The safety properties of AutoscalerScaleTest for every number of groups, *)
(* nodes and events: how the scale-ups that are counted, those that        *)
(* happened and the nodes that were added relate at each step of the spec; *)
(* that its counters are those of EventCounting; and what the labels of    *)
(* its machinesets keep apart.                                             *)
(***************************************************************************)
EXTENDS AutoscalerScaleTest, MachineSetLabels, FiniteSetTheorems, TLAPS

E  == clusterExpansionSize
Up == counted["scaleUp"]

\* The counter of scale-ups is what it counted; it is too wide to wrap here.
UpIsCounted ==
    /\ Up \subseteq UpEvents \cap occurred
    /\ counter["scaleUp"] = Cardinality(Up)

\* What each step of the spec knows of the scale-ups counted so far.
UpIsKnown ==
    /\ pc \in BeforeHold => ~polled
    /\ pc = "awaitLimit" => E - 1 <= counter["scaleUp"]
    /\ pc = "hold" => /\ early \subseteq Up
                      /\ E - 1 <= Cardinality(early)
                      /\ polled => Cardinality(early) = E - 1
    /\ OvershootCaught

\* Until the workload is deleted, a scale-up is a group that has grown, no group
\* shrinks, and the limit leaves a compliant autoscaler room for all groups but one.
BeforeDelete == BeforeHold \cup {"hold", "countScaleDowns", "deleteWorkload"}
UpIsGrown ==
    pc \in BeforeDelete =>
        /\ machineSets = Groups
        /\ limit \in {NoCA, Others + E + E - 1}
        /\ pc \in {"createMachineAutoscalers", "createClusterAutoscaler"} => limit = NoCA
        /\ limit = NoCA => grown = {}
        /\ pods => workload
        /\ ~pods => grown = {}
        /\ Cardinality(UpEvents \cap occurred) = Cardinality(grown)
        /\ ~faulty => Cardinality(grown) <= E - 1

\* Only groups that exist are autoscaled.
Targets == mas \subseteq machineSets /\ (pc = "deleteMachineSets" => mas = {})

IInv == TypeOK /\ Targets /\ UpIsCounted /\ UpIsKnown /\ UpIsGrown /\ AssertMeansFaulty
-----------------------------------------------------------------------------
(* Sets are finite here, and their sizes natural numbers. *)
LEMMA Sizes ==
    ASSUME TypeOK, Targets, UpIsCounted
    PROVE  /\ E \in 2..MaxU32
           /\ \A S \in SUBSET Groups : IsFiniteSet(S) /\ Cardinality(S) \in 0..E
           /\ \A S \in SUBSET Events : IsFiniteSet(S) /\ Cardinality(S) \in 0..MaxU32
<1>1. E \in 2..MaxU32 /\ MaxU32 \in Nat /\ E \in Nat
  BY GroupsAssumption DEF E, clusterExpansionSize
<1>2. ASSUME NEW S \in SUBSET Groups PROVE IsFiniteSet(S) /\ Cardinality(S) \in 0..E
  <2>1. IsFiniteSet(S) /\ Cardinality(S) <= E
    BY FS_Subset, GroupsAssumption DEF E, clusterExpansionSize
  <2> QED BY <1>1, <2>1, FS_CardinalityType
<1>3. ASSUME NEW S \in SUBSET Events PROVE IsFiniteSet(S) /\ Cardinality(S) \in 0..MaxU32
  <2>1. IsFiniteSet(S) /\ Cardinality(S) <= Cardinality(Events)
    BY FS_Subset, EventsAssumption
  <2>2. Cardinality(S) \in Nat /\ Cardinality(Events) \in Nat
    BY <2>1, FS_CardinalityType, EventsAssumption
  <2> QED BY <1>1, <2>1, <2>2, EventsAssumption
<1> QED BY <1>1, <1>2, <1>3

(* One event more. *)
LEMMA OneMore ==
    ASSUME TypeOK, Targets, UpIsCounted, NEW S, NEW x, x \notin S,
           S \in SUBSET Events \/ S \in SUBSET Groups
    PROVE  Cardinality(S \cup {x}) = Cardinality(S) + 1
BY Sizes, FS_AddElement

(* The counter of a kind takes one step and keeps its width. *)
LEMMA SteppedInRange ==
    ASSUME NEW h \in Counters, NEW c \in 0..MaxU32
    PROVE  /\ EC!Stepped(h, c) \in 0..MaxU32
           /\ c < MaxU32 => EC!Stepped(h, c) = c + 1
BY GroupsAssumption DEF EC!Stepped, EC!Incremented, EC!Decremented

(* Only these steps create or count events. *)
LEMMA CountStep ==
    ASSUME [Next]_vars
    PROVE  \/ \E g \in Groups : ScaleUp(g) \/ ScaleDown(g)
           \/ LimitReached
           \/ \E h \in Counters, e \in Events : Delivered(h, e)
           \/ UNCHANGED <<occurred, counted, counter>>
<1> USE DEF countVars, clusterVars, Fail, Await, NewCounter, EC!Track
<1>1. ASSUME PodsCreated \/ PodsDeleted
      PROVE  UNCHANGED <<occurred, counted, counter>>
  BY <1>1 DEF PodsCreated, PodsDeleted
<1>2. ASSUME NEW g \in Groups,
             CreateMachineAutoscaler(g) \/ DeleteMachineAutoscaler(g) \/ DeleteMachineSet(g)
      PROVE  UNCHANGED <<occurred, counted, counter>>
  BY <1>2 DEF CreateMachineAutoscaler, DeleteMachineAutoscaler, DeleteMachineSet
<1>3. ASSUME CreateClusterAutoscaler \/ CreateWorkload \/ DeleteWorkload \/ DeleteClusterAutoscaler
      PROVE  UNCHANGED <<occurred, counted, counter>>
  BY <1>3 DEF CreateClusterAutoscaler, CreateWorkload, DeleteWorkload, DeleteClusterAutoscaler
<1>4. ASSUME CountScaleUps \/ CountLimit \/ CountScaleDowns
      PROVE  UNCHANGED <<occurred, counted, counter>>
  BY <1>4 DEF CountScaleUps, CountLimit, CountScaleDowns
<1>5. ASSUME AwaitScaleUps \/ AwaitLimit \/ AwaitScaleDowns \/ AwaitPods \/ Timeout
      PROVE  UNCHANGED <<occurred, counted, counter>>
  BY <1>5 DEF AwaitScaleUps, AwaitLimit, AwaitScaleDowns, AwaitPods, Timeout
<1>6. ASSUME HoldPoll \/ HoldBroken \/ HoldOver
      PROVE  UNCHANGED <<occurred, counted, counter>>
  BY <1>6 DEF HoldPoll, HoldBroken, HoldOver
<1>7. CASE UNCHANGED vars
  BY <1>7 DEF vars
<1> QED BY <1>1, <1>2, <1>3, <1>4, <1>5, <1>6, <1>7 DEF Next, External, Step

(* A scale-up is counted once, and only if it happened. *)
LEMMA UpIsCountedStep ==
    ASSUME TypeOK, Targets, UpIsCounted, [Next]_vars PROVE UpIsCounted'
<1>1. ASSUME occurred \subseteq occurred', UNCHANGED <<counted, counter>> PROVE UpIsCounted'
  BY <1>1 DEF UpIsCounted, Up
<1>2. ASSUME NEW h \in Counters, NEW e \in Events, Delivered(h, e) PROVE UpIsCounted'
  <2>1. EC!Count(h, e)
    BY <1>2 DEF Delivered
  <2>2. CASE h # "scaleUp"
    <3>1. counted'["scaleUp"] = Up /\ counter'["scaleUp"] = counter["scaleUp"] /\ occurred' = occurred
      BY <2>1, <2>2 DEF EC!Count, TypeOK, Up, Counters
    <3> QED BY <3>1 DEF UpIsCounted, Up
  <2>3. CASE h = "scaleUp"
    <3>1. /\ e \in (occurred \cap UpEvents) \ Up
          /\ counted'["scaleUp"] = Up \cup {e}
          /\ counter'["scaleUp"] = EC!Stepped("scaleUp", counter["scaleUp"])
          /\ occurred' = occurred
      <4>1. "scaleUp" \in Counters /\ Matches["scaleUp"] = UpEvents
        BY DEF Counters, Matches
      <4> QED BY <2>1, <2>3, <4>1 DEF EC!Count, TypeOK, Up
    <3>2. Up \in SUBSET Events /\ Up \cup {e} \in SUBSET Events
      BY <3>1 DEF UpIsCounted, TypeOK, Events
    <3>3. Cardinality(Up \cup {e}) = Cardinality(Up) + 1
      BY <3>1, <3>2, OneMore
    <3>4. counter["scaleUp"] \in 0..MaxU32 /\ counter["scaleUp"] < MaxU32
      <4>1. Cardinality(Up) \in 0..MaxU32 /\ Cardinality(Up \cup {e}) \in 0..MaxU32
        BY <3>2, Sizes
      <4>2. MaxU32 \in Nat
        BY GroupsAssumption
      <4> QED BY <3>3, <4>1, <4>2 DEF UpIsCounted
    <3>5. counter'["scaleUp"] = counter["scaleUp"] + 1
      BY <3>1, <3>4, SteppedInRange DEF Counters
    <3> QED BY <3>1, <3>3, <3>5 DEF UpIsCounted, Up
  <2> QED BY <2>2, <2>3
<1>3. ASSUME NEW g \in Groups, ScaleUp(g) \/ ScaleDown(g) PROVE UpIsCounted'
  BY <1>1, <1>3 DEF ScaleUp, ScaleDown, Emit, EC!Occur
<1>4. CASE LimitReached
  BY <1>1, <1>4 DEF LimitReached, Emit, EC!Occur
<1> QED BY <1>1, <1>2, <1>3, <1>4, CountStep
-----------------------------------------------------------------------------
(* Types, and the groups that are autoscaled. *)

(* An event that is created keeps what it touches typed. *)
LEMMA EmitType ==
    ASSUME TypeOK, NEW S \in SUBSET Events, Emit(S)
    PROVE  /\ occurred' \subseteq Events
           /\ due' \in [Counters -> SUBSET occurred']
           /\ UNCHANGED <<tracking, counted, counter>>
<1>1. PICK e \in S : /\ occurred' = occurred \cup {e}
                     /\ UNCHANGED <<tracking, counted, counter>>
                     /\ due' = [h \in Counters |-> due[h] \cup
                                  (IF h \in tracking THEN {e} \cap Matches[h] ELSE {})]
  BY DEF Emit, EC!Occur
<1>2. ASSUME NEW h \in Counters PROVE due[h] \subseteq occurred
  BY DEF TypeOK
<1>3. due' \in [Counters -> SUBSET occurred']
  BY <1>1, <1>2
<1> QED BY <1>1, <1>3 DEF TypeOK

LEMMA TypeOKStep ==
    ASSUME TypeOK, Targets, UpIsCounted, UpIsGrown, [Next]_vars PROVE TypeOK'
<1> USE DEF TypeOK, countVars, clusterVars, specVars, objectVars, Go, Fail, Await,
            AfterPods, AfterHold, BeforeHold
<1>1. ASSUME NEW g \in Groups, ScaleUp(g) \/ ScaleDown(g) PROVE TypeOK'
  BY <1>1, EmitType DEF ScaleUp, ScaleDown, Targets, Events
<1>2. CASE LimitReached
  BY <1>2, EmitType DEF LimitReached, Events
<1>3. CASE PodsCreated \/ PodsDeleted
  BY <1>3 DEF PodsCreated, PodsDeleted
<1>4. ASSUME NEW h \in Counters, NEW e \in Events, Delivered(h, e) PROVE TypeOK'
  <2>1. EC!Count(h, e)
    BY <1>4 DEF Delivered
  <2> DEFINE c == EC!Stepped(h, counter[h])
  <2>2. c \in 0..MaxU32
    BY SteppedInRange
  <2>3. counter' = [counter EXCEPT ![h] = c] /\ counted' = [counted EXCEPT ![h] = @ \cup {e}]
    BY <2>1 DEF EC!Count
  <2> HIDE DEF c
  <2>4. counter' \in [Counters -> 0..MaxU32] /\ counted' \in [Counters -> SUBSET Events]
    BY <2>2, <2>3
  <2>5. UNCHANGED <<specVars, objectVars, clusterVars, occurred, tracking, due>>
    BY <1>4, <2>1 DEF Delivered, EC!Count
  <2> QED BY <2>4, <2>5
<1>5. ASSUME NEW g \in Groups,
             CreateMachineAutoscaler(g) \/ DeleteMachineAutoscaler(g) \/ DeleteMachineSet(g)
      PROVE  TypeOK'
  BY <1>5 DEF CreateMachineAutoscaler, DeleteMachineAutoscaler, DeleteMachineSet
<1>6. CASE CreateClusterAutoscaler
  <2>1. /\ Others \in Nat /\ Cardinality(machineSets) \in Nat /\ Cardinality(grown) \in Nat
        /\ clusterExpansionSize \in Nat /\ clusterExpansionSize >= 2
    <3>1. machineSets \in SUBSET Groups /\ grown \in SUBSET Groups
      OBVIOUS
    <3> QED BY <3>1, Sizes, GroupsAssumption DEF E
  <2>2. maxNodesTotal \in Nat
    BY <2>1 DEF maxNodesTotal, TotalNodes
  <2> QED BY <1>6, <2>2 DEF CreateClusterAutoscaler
<1>7. CASE CreateWorkload \/ DeleteWorkload \/ DeleteClusterAutoscaler
  BY <1>7 DEF CreateWorkload, DeleteWorkload, DeleteClusterAutoscaler
<1>8. CASE CountScaleUps \/ CountLimit \/ CountScaleDowns
  BY <1>8 DEF CountScaleUps, CountLimit, CountScaleDowns, NewCounter, EC!Track, Counters
<1>9. CASE AwaitScaleUps \/ AwaitScaleDowns \/ AwaitPods \/ Timeout
  BY <1>9 DEF AwaitScaleUps, AwaitScaleDowns, AwaitPods, Timeout
<1>10. CASE AwaitLimit
  BY <1>10 DEF AwaitLimit, UpIsCounted, Up
<1>11. CASE HoldPoll \/ HoldBroken \/ HoldOver
  BY <1>11 DEF HoldPoll, HoldBroken, HoldOver
<1>12. CASE UNCHANGED vars
  BY <1>12 DEF vars
<1> QED BY <1>1, <1>2, <1>3, <1>4, <1>5, <1>6, <1>7, <1>8, <1>9, <1>10, <1>11, <1>12
        DEF Next, External, Step

(* The environment leaves the spec, and the objects it created, alone. *)
LEMMA ExternalLeavesSpec ==
    ASSUME External
    PROVE  UNCHANGED <<specVars, objectVars, faulty>>
BY DEF External, ScaleUp, ScaleDown, LimitReached, PodsCreated, PodsDeleted, Delivered,
       clusterVars

LEMMA TargetsStep ==
    ASSUME TypeOK, Targets, UpIsGrown, [Next]_vars PROVE Targets'
<1> USE DEF Targets, specVars, objectVars, Go, Fail, Await
<1>1. CASE External
  BY <1>1, ExternalLeavesSpec
<1>2. ASSUME NEW g \in Groups,
             CreateMachineAutoscaler(g) \/ DeleteMachineAutoscaler(g) \/ DeleteMachineSet(g)
      PROVE  Targets'
  BY <1>2 DEF CreateMachineAutoscaler, DeleteMachineAutoscaler, DeleteMachineSet, TypeOK,
              UpIsGrown, BeforeDelete, BeforeHold
<1>3. CASE CreateClusterAutoscaler \/ CreateWorkload \/ DeleteWorkload \/ DeleteClusterAutoscaler
  BY <1>3 DEF CreateClusterAutoscaler, CreateWorkload, DeleteWorkload, DeleteClusterAutoscaler
<1>4. CASE CountScaleUps \/ CountLimit \/ CountScaleDowns
  BY <1>4 DEF CountScaleUps, CountLimit, CountScaleDowns, NewCounter
<1>5. CASE AwaitScaleUps \/ AwaitLimit \/ AwaitScaleDowns \/ AwaitPods \/ Timeout
  BY <1>5 DEF AwaitScaleUps, AwaitLimit, AwaitScaleDowns, AwaitPods, Timeout
<1>6. CASE HoldPoll \/ HoldBroken \/ HoldOver
  BY <1>6 DEF HoldPoll, HoldBroken, HoldOver
<1>7. CASE UNCHANGED vars
  BY <1>7 DEF vars
<1> QED BY <1>1, <1>2, <1>3, <1>4, <1>5, <1>6, <1>7 DEF Next, Step
-----------------------------------------------------------------------------
(* What the spec knows of the scale-ups it counted. *)

(* The counter never falls. *)
LEMMA UpGrows ==
    ASSUME TypeOK, Targets, UpIsCounted, [Next]_vars
    PROVE  Up \subseteq Up' /\ counter["scaleUp"] <= counter'["scaleUp"]
<1>1. UpIsCounted'
  BY UpIsCountedStep
<1>2. Up \subseteq Up'
  <2>1. CASE UNCHANGED counted
    BY <2>1 DEF Up
  <2>2. ASSUME NEW h \in Counters, NEW e \in Events, Delivered(h, e) PROVE Up \subseteq Up'
    BY <2>2 DEF Delivered, EC!Count, Up, TypeOK
  <2> QED BY <2>1, <2>2, CountStep DEF ScaleUp, ScaleDown, LimitReached, Emit, EC!Occur
<1>3. TypeOK => occurred' \subseteq Events
  BY CountStep DEF TypeOK, ScaleUp, ScaleDown, LimitReached, Emit, EC!Occur, Delivered, EC!Count,
                   Events
<1>4. Up' \in SUBSET Events /\ Up \in SUBSET Up'
  BY <1>1, <1>2, <1>3 DEF UpIsCounted, Up
<1>5. IsFiniteSet(Up')
  BY <1>4, Sizes
<1>6. Cardinality(Up) <= Cardinality(Up')
  BY <1>4, <1>5, FS_Subset
<1> QED BY <1>1, <1>2, <1>6 DEF UpIsCounted, Up

LEMMA UpIsKnownStep ==
    ASSUME TypeOK, Targets, UpIsCounted, UpIsKnown, [Next]_vars PROVE UpIsKnown'
<1> USE DEF UpIsKnown, OvershootCaught, E, BeforeHold, AfterHold, AfterPods,
            specVars, Go, Fail, Await, countVars
<1>1. Up \subseteq Up' /\ counter["scaleUp"] <= counter'["scaleUp"]
  BY UpGrows
<1>2. /\ E \in Nat /\ counter["scaleUp"] \in Nat /\ counter'["scaleUp"] \in Nat
      /\ Cardinality(Up) \in Nat /\ counter["scaleUp"] = Cardinality(Up) /\ IsFiniteSet(Up)
  <2>1. Up \in SUBSET Events
    BY DEF UpIsCounted, TypeOK
  <2>2. Cardinality(Up) \in Nat /\ IsFiniteSet(Up) /\ E \in Nat
    BY <2>1, Sizes
  <2>3. UpIsCounted' /\ TypeOK
    BY UpIsCountedStep
  <2>4. counter'["scaleUp"] \in Nat
    <3>1. CASE UNCHANGED counter
      BY <2>2, <3>1 DEF UpIsCounted
    <3>2. ASSUME NEW h \in Counters, NEW e \in Events, Delivered(h, e) PROVE counter'["scaleUp"] \in Nat
      <4>1. EC!Count(h, e)
        BY <3>2 DEF Delivered
      <4>2. EC!Stepped(h, counter[h]) \in Nat
        BY SteppedInRange DEF TypeOK
      <4>3. counter'["scaleUp"] \in {counter["scaleUp"], EC!Stepped(h, counter[h])}
        BY <4>1 DEF EC!Count, TypeOK, Counters
      <4> QED BY <2>2, <4>2, <4>3 DEF UpIsCounted
    <3> QED BY <3>1, <3>2, CountStep
            DEF ScaleUp, ScaleDown, LimitReached, Emit, EC!Occur
  <2> QED BY <2>2, <2>4 DEF UpIsCounted
<1>3. CASE External
  BY <1>1, <1>2, <1>3, ExternalLeavesSpec
<1>4. ASSUME NEW g \in Groups,
             CreateMachineAutoscaler(g) \/ DeleteMachineAutoscaler(g) \/ DeleteMachineSet(g)
      PROVE  UpIsKnown'
  BY <1>4 DEF CreateMachineAutoscaler, DeleteMachineAutoscaler, DeleteMachineSet
<1>5. CASE CreateClusterAutoscaler \/ CreateWorkload \/ DeleteWorkload \/ DeleteClusterAutoscaler
  BY <1>5 DEF CreateClusterAutoscaler, CreateWorkload, DeleteWorkload, DeleteClusterAutoscaler
<1>6. CASE CountScaleUps \/ CountLimit \/ CountScaleDowns
  BY <1>6 DEF CountScaleUps, CountLimit, CountScaleDowns, NewCounter
<1>7. CASE AwaitScaleUps
  BY <1>2, <1>7 DEF AwaitScaleUps
<1>8. CASE AwaitLimit
  BY <1>2, <1>8 DEF AwaitLimit, Up
<1>9. CASE AwaitScaleDowns \/ AwaitPods \/ Timeout
  BY <1>9 DEF AwaitScaleDowns, AwaitPods, Timeout
<1>10. CASE HoldPoll
  <2>1. pc = "hold" /\ counter["scaleUp"] = E - 1
    BY <1>10 DEF HoldPoll, Holds
  <2>2. early \in SUBSET Up
    BY <2>1
  <2>3. Cardinality(early) <= Cardinality(Up) /\ Cardinality(early) \in Nat
    BY <1>2, <2>2, FS_Subset, FS_CardinalityType
  <2>4. Cardinality(early) = E - 1
    BY <1>2, <2>1, <2>3
  <2> QED BY <1>10, <2>1, <2>4 DEF HoldPoll, Up
<1>11. CASE HoldBroken \/ HoldOver
  BY <1>11 DEF HoldBroken, HoldOver
<1>12. CASE UNCHANGED vars
  BY <1>12 DEF vars, Up
<1> QED BY <1>3, <1>4, <1>5, <1>6, <1>7, <1>8, <1>9, <1>10, <1>11, <1>12 DEF Next, Step
-----------------------------------------------------------------------------
(* What the cluster-autoscaler may have done so far. *)

LEMMA UpIsGrownStep ==
    ASSUME TypeOK, Targets, UpIsCounted, UpIsGrown, [Next]_vars PROVE UpIsGrown'
<1> USE DEF UpIsGrown, E, BeforeDelete, BeforeHold, countVars, clusterVars, specVars, objectVars,
            Go, Fail, Await
<1>1. /\ grown \in SUBSET Groups /\ UpEvents \cap occurred \in SUBSET Events
      /\ Cardinality(grown) \in Nat /\ E \in Nat /\ E >= 2 /\ Others \in Nat
  <2>1. grown \in SUBSET Groups /\ UpEvents \cap occurred \in SUBSET Events
    BY DEF TypeOK, Events
  <2> QED BY <2>1, Sizes, GroupsAssumption
<1>2. ASSUME NEW g \in Groups, ScaleUp(g), pc \in BeforeDelete PROVE UpIsGrown'
  <2>1. PICK e \in UpEvents \ occurred : occurred' = occurred \cup {e}
    BY <1>2 DEF ScaleUp, Emit, EC!Occur
  <2>2. /\ g \notin grown /\ grown' = grown \cup {g} /\ limit # NoCA /\ pods
        /\ faulty \/ TotalNodes < limit
        /\ UNCHANGED <<specVars, objectVars, pods, faulty>>
    BY <1>2 DEF ScaleUp, Pending
  <2>3. Cardinality(grown') = Cardinality(grown) + 1
    BY <1>1, <2>2, OneMore
  <2>4. Cardinality((UpEvents \cap occurred) \cup {e}) = Cardinality(UpEvents \cap occurred) + 1
    BY <1>1, <2>1, OneMore
  <2>5. UpEvents \cap occurred' = (UpEvents \cap occurred) \cup {e}
    BY <2>1
  <2>6. Cardinality(UpEvents \cap occurred') = Cardinality(grown')
    BY <1>2, <2>3, <2>4, <2>5
  <2>7. ~faulty => Cardinality(grown') <= E - 1
    <3>1. TotalNodes = Others + E + Cardinality(grown) /\ limit = Others + E + E - 1
      BY <1>2, <2>2 DEF TotalNodes, clusterExpansionSize
    <3> QED BY <1>1, <2>2, <2>3, <3>1
  <2> QED BY <1>2, <2>2, <2>6, <2>7
<1>3. ASSUME NEW g \in Groups, ScaleDown(g) PROVE UpIsGrown'
  BY <1>3 DEF ScaleDown
<1>4. CASE LimitReached
  <2>1. UpEvents \cap occurred' = UpEvents \cap occurred
    BY <1>4, EventsAssumption DEF LimitReached, Emit, EC!Occur
  <2> QED BY <1>4, <2>1 DEF LimitReached
<1>5. CASE PodsCreated \/ PodsDeleted
  BY <1>5 DEF PodsCreated, PodsDeleted
<1>6. ASSUME NEW h \in Counters, NEW e \in Events, Delivered(h, e) PROVE UpIsGrown'
  BY <1>6 DEF Delivered, EC!Count
<1>7. ASSUME NEW g \in Groups,
             CreateMachineAutoscaler(g) \/ DeleteMachineAutoscaler(g) \/ DeleteMachineSet(g)
      PROVE  UpIsGrown'
  BY <1>7 DEF CreateMachineAutoscaler, DeleteMachineAutoscaler, DeleteMachineSet
<1>8. CASE CreateClusterAutoscaler
  <2>1. machineSets = Groups /\ grown = {}
    BY <1>8 DEF CreateClusterAutoscaler
  <2>2. Cardinality(grown) = 0
    BY <2>1, FS_EmptySet
  <2>3. limit' = Others + E + E - 1
    BY <1>1, <1>8, <2>1, <2>2 DEF CreateClusterAutoscaler, maxNodesTotal, TotalNodes,
                                   clusterExpansionSize
  <2> QED BY <1>1, <1>8, <2>1, <2>2, <2>3 DEF CreateClusterAutoscaler
<1>9. CASE CreateWorkload \/ DeleteWorkload \/ DeleteClusterAutoscaler
  BY <1>9 DEF CreateWorkload, DeleteWorkload, DeleteClusterAutoscaler
<1>10. CASE CountScaleUps \/ CountLimit \/ CountScaleDowns
  BY <1>10 DEF CountScaleUps, CountLimit, CountScaleDowns, NewCounter, EC!Track
<1>11. CASE AwaitScaleUps \/ AwaitLimit \/ AwaitScaleDowns \/ AwaitPods \/ Timeout
  BY <1>11 DEF AwaitScaleUps, AwaitLimit, AwaitScaleDowns, AwaitPods, Timeout
<1>12. CASE HoldPoll \/ HoldBroken \/ HoldOver
  BY <1>12 DEF HoldPoll, HoldBroken, HoldOver
<1>13. CASE UNCHANGED vars
  BY <1>13 DEF vars
<1>14. ASSUME NEW g \in Groups, ScaleUp(g), pc \notin BeforeDelete PROVE UpIsGrown'
  BY <1>14 DEF ScaleUp
<1> QED BY <1>2, <1>3, <1>4, <1>5, <1>6, <1>7, <1>8, <1>9, <1>10, <1>11, <1>12, <1>13, <1>14
        DEF Next, External, Step
-----------------------------------------------------------------------------
(* The spec gives up on the autoscaler only after more scale-ups than the limit
   leaves room for; it never recovers from having done so. *)
LEMMA AssertMeansFaultyStep ==
    ASSUME TypeOK, Targets, UpIsCounted, UpIsKnown, UpIsGrown, AssertMeansFaulty, [Next]_vars
    PROVE  AssertMeansFaulty'
<1> USE DEF AssertMeansFaulty, specVars, clusterVars, Go, Await
<1>1. CASE External
  BY <1>1, ExternalLeavesSpec
<1>2. ASSUME NEW g \in Groups,
             CreateMachineAutoscaler(g) \/ DeleteMachineAutoscaler(g) \/ DeleteMachineSet(g)
      PROVE  AssertMeansFaulty'
  BY <1>2 DEF CreateMachineAutoscaler, DeleteMachineAutoscaler, DeleteMachineSet
<1>3. CASE CreateClusterAutoscaler \/ CreateWorkload \/ DeleteWorkload \/ DeleteClusterAutoscaler
  BY <1>3 DEF CreateClusterAutoscaler, CreateWorkload, DeleteWorkload, DeleteClusterAutoscaler
<1>4. CASE CountScaleUps \/ CountLimit \/ CountScaleDowns
  BY <1>4 DEF CountScaleUps, CountLimit, CountScaleDowns, NewCounter
<1>5. CASE AwaitScaleUps \/ AwaitLimit \/ AwaitScaleDowns \/ AwaitPods \/ Timeout
  BY <1>5 DEF AwaitScaleUps, AwaitLimit, AwaitScaleDowns, AwaitPods, Timeout, Fail
<1>6. CASE HoldPoll \/ HoldOver
  BY <1>6 DEF HoldPoll, HoldOver
<1>7. CASE HoldBroken
  <2>1. pc = "hold" /\ counter["scaleUp"] # E - 1 /\ UNCHANGED faulty
    BY <1>7 DEF HoldBroken, Holds, Fail, E
  <2>2. /\ Up \in SUBSET Events /\ UpEvents \cap occurred \in SUBSET Events
        /\ early \in SUBSET Up /\ Up \in SUBSET (UpEvents \cap occurred)
        /\ grown \in SUBSET Groups
    BY <2>1 DEF TypeOK, UpIsCounted, UpIsKnown, Events
  <2>3. IsFiniteSet(Up) /\ IsFiniteSet(UpEvents \cap occurred)
    BY <2>2, Sizes
  <2>4. /\ Cardinality(early) <= Cardinality(Up)
        /\ Cardinality(Up) <= Cardinality(UpEvents \cap occurred)
    BY <2>2, <2>3, FS_Subset
  <2>5. /\ Cardinality(early) \in Nat /\ Cardinality(Up) \in Nat /\ Cardinality(grown) \in Nat
        /\ E \in Nat
    <3>1. early \in SUBSET Events
      BY <2>2
    <3> QED BY <2>2, <3>1, Sizes
  <2>6. /\ E - 1 <= Cardinality(early) /\ counter["scaleUp"] = Cardinality(Up)
        /\ Cardinality(UpEvents \cap occurred) = Cardinality(grown)
        /\ ~faulty => Cardinality(grown) <= E - 1
    BY <2>1 DEF UpIsKnown, UpIsCounted, UpIsGrown, BeforeDelete
  <2>7. faulty
    BY <2>1, <2>4, <2>5, <2>6
  <2> QED BY <2>1, <2>7
<1>8. CASE UNCHANGED vars
  BY <1>8 DEF vars
<1> QED BY <1>1, <1>2, <1>3, <1>4, <1>5, <1>6, <1>7, <1>8 DEF Next, Step

LEMMA InitIInv == Init => IInv
<1> SUFFICES ASSUME Init PROVE IInv
  OBVIOUS
<1>1. /\ E \in Nat /\ E >= 2 /\ E <= MaxU32 /\ MaxU32 \in Nat
  BY GroupsAssumption DEF E, clusterExpansionSize
<1>2. InitVal \in [Counters -> 0..MaxU32] /\ InitVal["scaleUp"] = 0
  BY <1>1 DEF InitVal, Counters, E
<1>3. /\ counted = [h \in Counters |-> {}] /\ tracking = {} /\ counter = InitVal
      /\ occurred = {}
  BY DEF Init, EC!Init
<1>4. Up = {} /\ Cardinality(Up) = 0 /\ UpEvents \cap occurred = {}
  BY <1>3, FS_EmptySet DEF Up, Counters
<1>5. TypeOK
  BY <1>2, <1>3 DEF Init, TypeOK, BeforeHold
<1>6. UpIsCounted
  BY <1>2, <1>3, <1>4 DEF UpIsCounted
<1>7. Targets /\ UpIsKnown /\ AssertMeansFaulty
  BY DEF Init, Targets, UpIsKnown, OvershootCaught, AssertMeansFaulty, BeforeHold, AfterHold,
         AfterPods
<1>8. UpIsGrown
  BY <1>1, <1>4 DEF Init, UpIsGrown
<1> QED BY <1>5, <1>6, <1>7, <1>8 DEF IInv

(* The invariant: what was counted happened, what happened was grown, and what
   was grown fits the limit of an autoscaler that keeps it. *)
THEOREM ScaleTestInvariant == Spec => []IInv
<1>1. IInv /\ [Next]_vars => IInv'
  BY TypeOKStep, TargetsStep, UpIsCountedStep, UpIsKnownStep, UpIsGrownStep,
     AssertMeansFaultyStep DEF IInv
<1> QED BY <1>1, InitIInv, PTL DEF Spec

(* Every variable of the spec, the cluster and the counters keeps its type. *)
THEOREM ScaleTestTypeCorrect == Spec => []TypeOK
<1>1. IInv => TypeOK
  BY DEF IInv
<1> QED BY <1>1, ScaleTestInvariant, PTL

(* Past Consistently (autoscaler.go:395-401), no more scale-ups had been counted
   before it than maxNodesTotal leaves room for, for every number of groups. *)
THEOREM NoOvershootPasses == Spec => []OvershootCaught
<1>1. IInv => OvershootCaught
  BY DEF IInv, UpIsKnown
<1> QED BY <1>1, ScaleTestInvariant, PTL

(* Consistently fails only on an autoscaler that exceeded maxNodesTotal, however
   late the events of its scale-ups are delivered. *)
THEOREM NoCompliantBlamed == Spec => []AssertMeansFaulty
<1>1. IInv => AssertMeansFaulty
  BY DEF IInv
<1> QED BY <1>1, ScaleTestInvariant, PTL

(* A step of the composition is an occurrence, a registration or a count, or it
   leaves the counters alone. *)
LEMMA CountingStep == IInv /\ [Next]_vars => [EC!Next]_(EC!countVars)
<1> SUFFICES ASSUME IInv, [Next]_vars PROVE [EC!Next]_(EC!countVars)
  OBVIOUS
<1>1. ASSUME NEW S \in SUBSET Events, Emit(S) PROVE EC!Next
  BY <1>1 DEF Emit, EC!Next
<1>2. CASE External
  <2>1. ASSUME NEW g \in Groups, ScaleUp(g) \/ ScaleDown(g) PROVE EC!Next
    BY <1>1, <2>1 DEF ScaleUp, ScaleDown, Events
  <2>2. CASE LimitReached
    BY <1>1, <2>2 DEF LimitReached, Events
  <2>3. CASE PodsCreated \/ PodsDeleted
    BY <2>3 DEF PodsCreated, PodsDeleted, countVars, EC!countVars
  <2>4. ASSUME NEW h \in Counters, NEW e \in Events, Delivered(h, e) PROVE EC!Next
    BY <2>4 DEF Delivered, EC!Next
  <2> QED BY <1>2, <2>1, <2>2, <2>3, <2>4 DEF External
<1>3. CASE CountScaleUps \/ CountLimit \/ CountScaleDowns
  BY <1>3 DEF CountScaleUps, CountLimit, CountScaleDowns, NewCounter, Counters, EC!Next
<1>4. CASE UNCHANGED countVars
  BY <1>4 DEF countVars, EC!countVars
<1>5. CASE Step \/ Timeout
  <2>1. ASSUME NEW g \in Groups,
               CreateMachineAutoscaler(g) \/ DeleteMachineAutoscaler(g) \/ DeleteMachineSet(g)
        PROVE  UNCHANGED countVars
    BY <2>1 DEF CreateMachineAutoscaler, DeleteMachineAutoscaler, DeleteMachineSet
  <2>2. ASSUME CreateClusterAutoscaler \/ CreateWorkload \/ AwaitScaleUps \/ AwaitLimit \/ HoldPoll
        PROVE  UNCHANGED countVars
    BY <2>2 DEF CreateClusterAutoscaler, CreateWorkload, AwaitScaleUps, AwaitLimit, Await, HoldPoll
  <2>3. ASSUME \/ HoldBroken \/ HoldOver \/ DeleteWorkload \/ AwaitScaleDowns \/ AwaitPods
               \/ DeleteClusterAutoscaler \/ Timeout
        PROVE  UNCHANGED countVars
    BY <2>3 DEF HoldBroken, HoldOver, DeleteWorkload, AwaitScaleDowns, AwaitPods, Await,
                DeleteClusterAutoscaler, Timeout, Fail
  <2> QED BY <1>3, <1>4, <1>5, <2>1, <2>2, <2>3 DEF Step
<1> QED BY <1>2, <1>4, <1>5 DEF Next, vars

(* Whatever the spec and the cluster do, they use the counters (counter.go, enabled
   at autoscaler.go:370-372 and :408) as EventCounting allows: the watcher, which
   implements it, may stand in for them, and a counter is enabled at most once. *)
THEOREM ScaleTestCounts == Spec => EC!Spec
<1>1. Init => EC!Init
  BY DEF Init
<1>2. IInv /\ [Next]_vars => [EC!Next]_(EC!countVars)
  BY CountingStep
<1> QED BY <1>1, <1>2, ScaleTestInvariant, PTL DEF Spec, EC!Spec
-----------------------------------------------------------------------------
(* What a map keeps and takes on when another one is merged into it. *)
LEMMA MergedKeeps ==
    ASSUME NEW own, NEW additional, NEW k \in DOMAIN own
    PROVE  k \in DOMAIN Merged(own, additional) /\ Merged(own, additional)[k] = own[k]
BY DEF Merged

LEMMA MergedTakes ==
    ASSUME NEW own, NEW additional, NEW k \in DOMAIN additional, k \notin DOMAIN own
    PROVE  k \in DOMAIN Merged(own, additional)
           /\ Merged(own, additional)[k] = additional[k]
BY DEF Merged

(* A machineset modelled on one whose template its own selector selects (the API
   server stores no other) selects the machines made from its own template,
   whatever further labels the two maps of the target hold. *)
THEOREM NewSetSelectsItsMachines ==
    ASSUME NEW Keys, NEW target \in MachineSets(Keys), NEW name \in Values,
           Selects(target.selector, target.template)
    PROVE  Selects(NewMachineSet(target, name).selector, NewMachineSet(target, name).template)
<1> DEFINE pinned == Pinned(target.cluster, name)
           sel    == Merged(pinned, target.selector)
           tmpl   == Merged(pinned, target.template)
<1>1. NewMachineSet(target, name).selector = sel /\ NewMachineSet(target, name).template = tmpl
  BY DEF NewMachineSet
<1>2. ASSUME NEW k \in DOMAIN sel PROVE k \in DOMAIN tmpl /\ tmpl[k] = sel[k]
  <2>1. CASE k \in DOMAIN pinned
    <3>1. sel[k] = pinned[k]
      BY <2>1, MergedKeeps
    <3>2. k \in DOMAIN tmpl /\ tmpl[k] = pinned[k]
      BY <2>1, MergedKeeps
    <3> QED BY <3>1, <3>2
  <2>2. CASE k \notin DOMAIN pinned
    <3>1. k \in DOMAIN target.selector
      BY <1>2, <2>2 DEF Merged
    <3>2. sel[k] = target.selector[k]
      BY <2>2, <3>1, MergedTakes
    <3>3. k \in DOMAIN target.template /\ target.template[k] = target.selector[k]
      BY <3>1 DEF Selects
    <3>4. k \in DOMAIN tmpl /\ tmpl[k] = target.template[k]
      BY <2>2, <3>3, MergedTakes
    <3> QED BY <3>2, <3>3, <3>4
  <2> QED BY <2>1, <2>2
<1> HIDE DEF sel, tmpl
<1> QED BY <1>1, <1>2 DEF Selects

(* Two of the transient machinesets, whatever machinesets they are modelled on,
   never select the same machine: the count of one is not disturbed by another. *)
THEOREM NewSetsAreApart ==
    ASSUME NEW Keys, NEW t1 \in MachineSets(Keys), NEW t2 \in MachineSets(Keys),
           NEW n1 \in Values, NEW n2 \in Values, n1 # n2, NEW labels
    PROVE  ~(/\ Selects(NewMachineSet(t1, n1).selector, labels)
             /\ Selects(NewMachineSet(t2, n2).selector, labels))
<1>1. ASSUME NEW t \in MachineSets(Keys), NEW n \in Values,
             Selects(NewMachineSet(t, n).selector, labels)
      PROVE  labels[MachineSetKey] = n
  <2>1. MachineSetKey \in DOMAIN Pinned(t.cluster, n) /\ Pinned(t.cluster, n)[MachineSetKey] = n
    BY DEF Pinned
  <2>2. NewMachineSet(t, n).selector = Merged(Pinned(t.cluster, n), t.selector)
    BY DEF NewMachineSet
  <2>3. /\ MachineSetKey \in DOMAIN NewMachineSet(t, n).selector
        /\ NewMachineSet(t, n).selector[MachineSetKey] = n
    BY <2>1, <2>2, MergedKeeps
  <2> QED BY <1>1, <2>3 DEF Selects
<1> QED BY <1>1

(* The target does not select the machines of the new machineset, provided its own
   selector names it under MachineSetKey; that of CreateMachineSet does not. *)
THEOREM TargetKeepsItsMachines ==
    ASSUME NEW Keys, NEW target \in MachineSets(Keys), NEW own \in Values, NEW name \in Values,
           MachineSetKey \in DOMAIN target.selector, target.selector[MachineSetKey] = own,
           name # own
    PROVE  ~Selects(target.selector, NewMachineSet(target, name).template)
<1>1. /\ MachineSetKey \in DOMAIN Pinned(target.cluster, name)
      /\ Pinned(target.cluster, name)[MachineSetKey] = name
  BY DEF Pinned
<1>2. NewMachineSet(target, name).template[MachineSetKey] = name
  <2>1. NewMachineSet(target, name).template
          = Merged(Pinned(target.cluster, name), target.template)
    BY DEF NewMachineSet
  <2> QED BY <1>1, <2>1, MergedKeeps
<1> QED BY <1>2 DEF Selects
=============================================================================
