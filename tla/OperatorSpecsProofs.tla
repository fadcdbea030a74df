------------------------ MODULE OperatorSpecsProofs ------------------------
(***************************************************************************)
(* The safety properties of OperatorSpecs for every pair of timeouts and   *)
(* every number of deployments: how late a poll of polls may be, and which *)
(* deployment a spec that deletes one ends with.                           *)
(***************************************************************************)
EXTENDS OperatorSpecs, TLAPS

Nested == pc \in {"available", "again"}

\* When the innermost poll began: its timer starts at its first try, which takes no
\* time, so its deadline is WaitShort later.
InnerStart == IF inner.deadline = 0 THEN now ELSE inner.deadline - WaitShort

\* The innermost poll never runs past its deadline, and its last try is at it.
InnerInTime ==
    /\ InnerStart \in 0..now
    /\ inner.deadline = 0 => ~inner.last
    /\ inner.deadline # 0 => now <= inner.deadline
    /\ inner.last => now = inner.deadline

\* The outer timer starts after one whole inner poll at most; an inner poll begins
\* before it fires, or is the last one and begins a whole inner poll later at most.
OuterInTime ==
    IF Nested
    THEN IF outer.deadline = 0
         THEN InnerStart = 0 /\ ~outer.last
         ELSE /\ outer.deadline \in WaitLong..(WaitLong + WaitShort)
              /\ IF outer.last
                 THEN InnerStart \in outer.deadline..(outer.deadline + WaitShort)
                 ELSE InnerStart <= outer.deadline
    ELSE outer = NewPoll /\ InnerStart = 0

\* A spec that failed was at the last try of its outermost poll.
FailedAtLast ==
    verdict = "failed" /\ pc # "create" => IF Nested THEN outer.last ELSE inner.last

\* While its spec runs, the deployment is the last one created or gone; initial was
\* read before the first deletion; without a lost answer there is only one.
Lineage ==
    /\ uid \in {0, created}
    /\ it = "reconcile" =>
         /\ pc \in {"get", "available", "delete", "again"}
         /\ pc = "get" => initial = 0
         /\ pc # "get" => initial \in 1..created
         /\ pc = "again" => uid = 0 \/ uid > initial
         /\ verdict = "passed" => pc = "again" /\ seen > initial
         /\ ~lost /\ pc \in {"available", "delete"} => uid = initial /\ created = initial
         /\ ~lost /\ pc = "again" =>
              \/ uid = 0 /\ created = initial
              \/ uid = created /\ created = initial + 1

InTime == InnerInTime /\ OuterInTime /\ FailedAtLast
-----------------------------------------------------------------------------
(* What trying again does to the two polls. *)

(* The innermost poll goes on: it began when it began, and is still in time. *)
LEMMA GetAgainInTime ==
    ASSUME TypeOK, InnerInTime, ~inner.last, GetAgain
    PROVE  /\ now' \in Nat /\ inner' \in Polls
           /\ InnerInTime' /\ InnerStart' = InnerStart
<1> USE WaitsAssumption DEF Polls
<1>1. now \in Nat /\ inner \in Polls /\ now <= Deadline(inner, WaitShort)
      /\ Deadline(inner, WaitShort) \in Nat \ {0}
      /\ Deadline(inner, WaitShort) - WaitShort = InnerStart
  BY DEF TypeOK, InnerInTime, InnerStart, Deadline
<1> DEFINE d == Deadline(inner, WaitShort)
<1>2. /\ inner'.deadline = d /\ inner'.last \in BOOLEAN /\ inner' \in Polls
      /\ now' \in {now, now + 1} /\ now' <= d
      /\ inner'.last => now' = d
  <2>1. CASE now < d
    <3>1. PICK last \in BOOLEAN :
            /\ last => now + 1 = d
            /\ now' = now + 1 /\ inner' = [deadline |-> d, last |-> last]
      BY <2>1 DEF GetAgain, TryAgain
    <3> QED BY <1>1, <2>1, <3>1
  <2>2. CASE ~(now < d)
    <3>1. now' = now /\ inner' = [deadline |-> d, last |-> TRUE]
      BY <2>2 DEF GetAgain, TryAgain
    <3> QED BY <1>1, <2>2, <3>1
  <2> QED BY <2>1, <2>2
<1> HIDE DEF d
<1> QED BY <1>1, <1>2 DEF d, InnerInTime, InnerStart

(* The outer poll goes on with a new inner one. *)
LEMMA OuterAgainInTime ==
    ASSUME TypeOK, InTime, Nested, ~outer.last, TryAgain(outer, WaitLong),
           inner' = NewPoll, pc' = pc
    PROVE  /\ now' \in Nat /\ outer' \in Polls /\ inner' \in Polls
           /\ InnerInTime' /\ OuterInTime'
<1> USE WaitsAssumption DEF Polls, NewPoll
<1> DEFINE d == Deadline(outer, WaitLong)
<1>1. /\ now \in Nat /\ outer \in Polls /\ d \in WaitLong..(WaitLong + WaitShort)
      /\ now <= d + WaitShort
  BY DEF TypeOK, InTime, InnerInTime, OuterInTime, InnerStart, Deadline
<1>2. /\ outer'.deadline = d /\ outer'.last \in BOOLEAN /\ outer' \in Polls /\ now' \in Nat
      /\ ~outer'.last => now' <= d
      /\ outer'.last => now' \in d..(d + WaitShort)
  <2>1. CASE now < d
    <3>1. PICK last \in BOOLEAN :
            /\ last => now + 1 = d
            /\ now' = now + 1 /\ outer' = [deadline |-> d, last |-> last]
      BY <2>1 DEF TryAgain
    <3> QED BY <1>1, <2>1, <3>1
  <2>2. CASE ~(now < d)
    <3>1. now' = now /\ outer' = [deadline |-> d, last |-> TRUE]
      BY <2>2 DEF TryAgain
    <3> QED BY <1>1, <2>2, <3>1
  <2> QED BY <2>1, <2>2
<1> HIDE DEF d
<1>3. InnerStart' = now' /\ inner' \in Polls
  BY DEF InnerStart
<1>4. d # 0
  BY <1>1
<1>5. Nested'
  BY DEF Nested
<1> QED BY <1>1, <1>2, <1>3, <1>4, <1>5 DEF InnerInTime, OuterInTime
-----------------------------------------------------------------------------
(* The poll variables after each way a helper can go on. *)

LEMMA FinishInTime ==
    ASSUME TypeOK, InTime, NEW v \in {"passed", "failed"}, Finish(v),
           v = "failed" /\ pc # "create" => IF Nested THEN outer.last ELSE inner.last
    PROVE  /\ now' \in Nat /\ outer' \in Polls /\ inner' \in Polls
           /\ verdict' \in {"running", "passed", "failed"} /\ pc' = pc /\ InTime'
BY DEF TypeOK, InTime, Finish, InnerInTime, OuterInTime, FailedAtLast, InnerStart, Nested

LEMMA CallInTime ==
    ASSUME TypeOK, verdict = "running", NEW helper, Call(helper)
    PROVE  /\ now' \in Nat /\ outer' \in Polls /\ inner' \in Polls
           /\ verdict' = "running" /\ InTime'
BY DEF TypeOK, InTime, Call, InnerInTime, OuterInTime, FailedAtLast, InnerStart, Nested,
       NewPoll, Polls

LEMMA TryFailsInTime ==
    ASSUME TypeOK, InTime, verdict = "running", ~Nested, TryFails
    PROVE  /\ now' \in Nat /\ outer' \in Polls /\ inner' \in Polls
           /\ verdict' \in {"running", "failed"} /\ pc' = pc /\ InTime'
<1>1. CASE inner.last /\ Finish("failed")
  BY <1>1, FinishInTime DEF Finish
<1>2. CASE ~inner.last /\ GetAgain /\ UNCHANGED <<pc, verdict, outer>>
  <2>1. now' \in Nat /\ inner' \in Polls /\ InnerInTime' /\ InnerStart' = InnerStart
    BY <1>2, GetAgainInTime DEF InTime
  <2> QED BY <1>2, <2>1 DEF TypeOK, InTime, OuterInTime, FailedAtLast, Nested
<1> QED BY <1>1, <1>2 DEF TryFails

(* A try of IsDeploymentAvailable that fails. *)
LEMMA OuterTryFailsInTime ==
    ASSUME TypeOK, InTime, verdict = "running", Nested, OuterTryFails
    PROVE  /\ now' \in Nat /\ outer' \in Polls /\ inner' \in Polls
           /\ verdict' \in {"running", "failed"} /\ pc' = pc /\ InTime'
<1>1. CASE outer.last
  BY <1>1, FinishInTime DEF OuterTryFails, Finish
<1>2. CASE ~outer.last
  <2>1. TryAgain(outer, WaitLong) /\ inner' = NewPoll /\ UNCHANGED <<pc, verdict>>
    BY <1>2 DEF OuterTryFails
  <2>2. /\ now' \in Nat /\ outer' \in Polls /\ inner' \in Polls
        /\ InnerInTime' /\ OuterInTime'
    BY <1>2, <2>1, OuterAgainInTime
  <2> QED BY <2>1, <2>2 DEF InTime, FailedAtLast, TypeOK
<1> QED BY <1>1, <1>2

(* And the first disjunct of it: the nested Get fails. *)
LEMMA NestedGetInTime ==
    ASSUME TypeOK, InTime, verdict = "running", Nested, ~inner.last, GetAgain,
           UNCHANGED <<pc, verdict, outer>>
    PROVE  now' \in Nat /\ outer' \in Polls /\ inner' \in Polls /\ InTime'
<1>1. now' \in Nat /\ inner' \in Polls /\ InnerInTime' /\ InnerStart' = InnerStart
  BY GetAgainInTime DEF InTime
<1> QED BY <1>1 DEF TypeOK, InTime, OuterInTime, FailedAtLast, Nested
-----------------------------------------------------------------------------
IInv == TypeOK /\ InTime /\ Lineage

LEMMA InitIInv == Init => IInv
<1> SUFFICES ASSUME Init PROVE IInv
  OBVIOUS
<1> USE WaitsAssumption, UIDAssumption DEF Init, Its, FirstCall, NewPoll, Polls
<1>1. TypeOK
  <2>1. condition \in [ConditionTypes -> Statuses \cup {"NoObject"}]
    BY DEF Unreported
  <2>2. pc \in {"get", "available", "delete", "again", "status", "webhook", "create"}
    OBVIOUS
  <2>3. outer \in Polls /\ inner \in Polls
    OBVIOUS
  <2>4. uid \in 0..created /\ initial \in 0..created /\ seen \in 0..created
        /\ created \in 0..MaxUID
    OBVIOUS
  <2> QED BY <2>1, <2>2, <2>3, <2>4 DEF TypeOK
<1>2. InTime
  BY DEF InTime, InnerInTime, OuterInTime, FailedAtLast, InnerStart, Nested
<1>3. Lineage
  BY DEF Lineage
<1> QED BY <1>1, <1>2, <1>3 DEF IInv

(* The helpers' steps, by what each leaves of the deployment it deals with. *)
LEMMA IInvStep == IInv /\ [Next]_vars => IInv'
<1> SUFFICES ASSUME IInv, [Next]_vars PROVE IInv'
  OBVIOUS
<1> USE WaitsAssumption, UIDAssumption DEF IInv, At
<1>1. CASE GetDeployment
  <2> USE <1>1 DEF GetDeployment, clusterVars
  <2>1. CASE uid # 0 /\ initial' = uid /\ Call("available")
    <3>1. /\ now' \in Nat /\ outer' \in Polls /\ inner' \in Polls
          /\ verdict' = "running" /\ InTime' /\ pc' = "available"
      BY <2>1, CallInTime DEF Call
    <3> QED BY <2>1, <3>1 DEF TypeOK, Lineage
  <2>2. CASE TryFails /\ UNCHANGED initial
    <3>1. /\ now' \in Nat /\ outer' \in Polls /\ inner' \in Polls
          /\ verdict' \in {"running", "failed"} /\ pc' = pc /\ InTime'
      BY <2>2, TryFailsInTime DEF Nested
    <3> QED BY <2>2, <3>1 DEF TypeOK, Lineage
  <2> QED BY <2>1, <2>2
<1>2. CASE IsDeploymentAvailable
  <2> USE <1>2 DEF IsDeploymentAvailable, clusterVars
  <2>0. Nested /\ verdict = "running"
    BY DEF Nested
  <2>1. CASE \/ ~inner.last /\ GetAgain /\ UNCHANGED <<pc, verdict, outer, seen>>
             \/ OuterTryFails /\ UNCHANGED seen
    <3>1. /\ now' \in Nat /\ outer' \in Polls /\ inner' \in Polls
          /\ verdict' \in {"running", "failed"} /\ pc' = pc /\ InTime'
      BY <2>0, <2>1, NestedGetInTime, OuterTryFailsInTime
    <3> QED BY <2>1, <3>1 DEF TypeOK, Lineage
  <2>2. CASE uid # 0 /\ seen' = uid /\ it = "reconcile" /\ pc = "available" /\ Call("delete")
    <3>1. /\ now' \in Nat /\ outer' \in Polls /\ inner' \in Polls
          /\ verdict' = "running" /\ InTime' /\ pc' = "delete"
      BY <2>0, <2>2, CallInTime DEF Call
    <3> QED BY <2>2, <3>1 DEF TypeOK, Lineage
  <2>3. CASE uid # 0 /\ seen' = uid /\ ~(it = "reconcile" /\ pc = "available") /\ Finish("passed")
    <3>1. /\ now' \in Nat /\ outer' \in Polls /\ inner' \in Polls
          /\ verdict' = "passed" /\ pc' = pc /\ InTime'
      BY <2>3, FinishInTime DEF Finish
    <3>t. TypeOK'
      BY <2>0, <2>3, <3>1 DEF TypeOK
    <3>l. Lineage'
      BY <2>0, <2>3, <3>1 DEF TypeOK, Lineage
    <3> QED BY <2>0, <2>3, <3>1, <3>t, <3>l
  <2> QED BY <2>1, <2>2, <2>3
<1>3. CASE DeleteDeployment
  <2> USE <1>3 DEF DeleteDeployment, Removed
  <2>1. CASE Removed /\ Call("again") /\ UNCHANGED lost
    <3>1. /\ now' \in Nat /\ outer' \in Polls /\ inner' \in Polls
          /\ verdict' = "running" /\ InTime' /\ pc' = "again"
      BY <2>1, CallInTime DEF Call
    <3>t. TypeOK'
      <4>0. uid' \in 0..created'
        BY <2>1 DEF TypeOK
      <4>1. available' \in BOOLEAN /\ lost' \in BOOLEAN
        BY <2>1, Zenon DEF TypeOK
      <4>2. UNCHANGED <<it, initial, seen, created, condition, hook, stored>>
        OBVIOUS
      <4> QED BY <3>1, <4>0, <4>1, <4>2 DEF TypeOK
    <3>l. Lineage'
      BY <2>1, <3>1 DEF TypeOK, Lineage
    <3> QED BY <2>1, <3>1, <3>t, <3>l
  <2>2. CASE TryFails /\ ((Removed /\ lost' = TRUE) \/ UNCHANGED <<uid, available, lost>>)
    <3>1. /\ now' \in Nat /\ outer' \in Polls /\ inner' \in Polls
          /\ verdict' \in {"running", "failed"} /\ pc' = pc /\ InTime'
      BY <2>2, TryFailsInTime DEF Nested
    <3>t. TypeOK'
      <4>0. uid' \in 0..created'
        BY <2>2 DEF TypeOK
      <4>1. available' \in BOOLEAN /\ lost' \in BOOLEAN
        BY <2>2, Zenon DEF TypeOK
      <4>2. UNCHANGED <<it, initial, seen, created, condition, hook, stored>>
        OBVIOUS
      <4> QED BY <3>1, <4>0, <4>1, <4>2 DEF TypeOK
    <3>l. Lineage'
      BY <2>2, <3>1 DEF TypeOK, Lineage
    <3> QED BY <2>2, <3>1, <3>t, <3>l
  <2> QED BY <2>1, <2>2
<1>4. CASE IsStatusAvailable \/ WaitForValidatingWebhook
  <2>1. /\ now' \in Nat /\ outer' \in Polls /\ inner' \in Polls /\ InTime'
        /\ \/ verdict' \in {"running", "failed"} /\ pc' = pc
           \/ verdict' = "passed" /\ pc' = "status"
           \/ verdict' = "running" /\ pc' = "create"
    <3>1. CASE IsStatusAvailable /\ Finish("passed")
      BY <3>1, FinishInTime DEF IsStatusAvailable, Finish
    <3>2. CASE WaitForValidatingWebhook /\ Call("create")
      BY <3>2, CallInTime DEF WaitForValidatingWebhook, Call
    <3>3. CASE (IsStatusAvailable \/ WaitForValidatingWebhook) /\ TryFails
      BY <3>3, TryFailsInTime DEF Nested, IsStatusAvailable, WaitForValidatingWebhook
    <3> QED BY <1>4, <3>1, <3>2, <3>3 DEF IsStatusAvailable, WaitForValidatingWebhook
  <2>2. pc \in {"status", "webhook"} /\ verdict = "running"
        /\ UNCHANGED <<it, initial, seen, clusterVars, lost>>
    BY <1>4 DEF IsStatusAvailable, WaitForValidatingWebhook
  <2>t. TypeOK'
    BY <2>1, <2>2 DEF TypeOK, clusterVars
  <2>l. Lineage'
    BY <2>1, <2>2 DEF TypeOK, Lineage, clusterVars
  <2> QED BY <2>1, <2>2, <2>t, <2>l DEF clusterVars
<1>5. CASE CreateInvalid
  <2>1. /\ now' \in Nat /\ outer' \in Polls /\ inner' \in Polls
        /\ verdict' \in {"passed", "failed"} /\ pc' = pc /\ InTime'
    BY <1>5, FinishInTime DEF CreateInvalid, Finish
  <2>t. TypeOK'
    BY <1>5, <2>1 DEF TypeOK, CreateInvalid
  <2>l. Lineage'
    BY <1>5, <2>1 DEF CreateInvalid, TypeOK, Lineage
  <2> QED BY <2>1, <2>t, <2>l
<1>6. CASE Recreate \/ RollOut \/ Report \/ Webhook \/ UNCHANGED vars
  <2>1. UNCHANGED specVars
    BY <1>6 DEF Recreate, RollOut, Report, Webhook, vars
  <2>2. InTime'
    BY <2>1 DEF specVars, InTime, InnerInTime, OuterInTime, FailedAtLast, InnerStart, Nested
  <2>3. UNCHANGED <<stored, lost>>
    BY <1>6 DEF Recreate, RollOut, Report, Webhook, vars, clusterVars
  <2>4. \/ UNCHANGED <<uid, created>>
        \/ uid = 0 /\ created' = created + 1 /\ uid' = created' /\ created < MaxUID
    BY <1>6 DEF Recreate, RollOut, Report, Webhook, vars, clusterVars
  <2>5. /\ available' \in BOOLEAN /\ hook' \in {"absent", "registered", "serving"}
        /\ condition' \in [ConditionTypes -> Statuses \cup {"NoObject"}]
    BY <1>6 DEF TypeOK, Recreate, RollOut, Report, Webhook, vars, clusterVars, Statuses
  <2>6. TypeOK'
    BY <2>1, <2>3, <2>4, <2>5 DEF TypeOK, specVars
  <2> QED BY <2>1, <2>2, <2>3, <2>4, <2>6 DEF specVars, TypeOK, Lineage
<1> QED
  BY <1>1, <1>2, <1>3, <1>4, <1>5, <1>6 DEF Next, SpecStep

(* Where each poll stands in its timeout, and which deployment the spec has met, stays *)
(* so in every step: the invariant the theorems below follow from.                     *)
THEOREM OperatorsInvariant == Spec => []IInv
<1> QED BY InitIInv, IInvStep, PTL DEF Spec

(* Every variable keeps its type, for all timeouts and any number of deployments. *)
THEOREM OperatorsTypeCorrect == Spec => []TypeOK
<1>1. IInv => TypeOK
  BY DEF IInv
<1> QED BY <1>1, OperatorsInvariant, PTL

(* However the two timeouts compare, IsDeploymentAvailable fails neither before *)
(* WaitLong nor later than three polls of GetDeployment after it.               *)
THEOREM TimesOutInBounds == Spec => []TimeoutInBounds
<1>1. IInv => TimeoutInBounds
  <2> SUFFICES ASSUME IInv, verdict = "failed", pc # "create"
               PROVE  IF pc \in {"available", "again"}
                      THEN now \in WaitLong..(WaitLong + 3 * WaitShort)
                      ELSE now = WaitShort
    BY DEF TimeoutInBounds
  <2> USE WaitsAssumption DEF IInv, InTime, InnerInTime, OuterInTime, FailedAtLast,
          InnerStart, TypeOK, Polls, NewPoll
  <2>1. CASE Nested
    <3>1. outer.last /\ outer.deadline # 0
      BY <2>1
    <3>2. now <= InnerStart + WaitShort /\ InnerStart <= now
      OBVIOUS
    <3> QED BY <2>1, <3>1, <3>2 DEF Nested
  <2>2. CASE ~Nested
    BY <2>2 DEF Nested
  <2> QED BY <2>1, <2>2
<1> QED BY <1>1, OperatorsInvariant, PTL

(* Whatever deletions are retried, the deployment the reconcile spec passes on was *)
(* created after the one it deleted.                                               *)
THEOREM PassesOnARecreatedDeployment == Spec => []AvailableAgainMeansRecreated
<1>1. IInv => AvailableAgainMeansRecreated
  BY DEF IInv, TypeOK, Lineage, AvailableAgainMeansRecreated
<1> QED BY <1>1, OperatorsInvariant, PTL

(* If no answer is lost, one deployment is deleted, and only an untouched one blamed. *)
THEOREM DeletesOnce == Spec => []DeletedOnce
<1>1. IInv => DeletedOnce
  BY DEF IInv, TypeOK, Lineage, DeletedOnce
<1> QED BY <1>1, OperatorsInvariant, PTL

=============================================================================
