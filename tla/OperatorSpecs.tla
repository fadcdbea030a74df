--------------------------- MODULE OperatorSpecs ---------------------------
(***************************************************************************)
(* The specs of pkg/operators and the polls they are made of, in           *)
(* pkg/framework/deployment.go and framework.go: GetDeployment,            *)
(* DeleteDeployment, IsDeploymentAvailable (a poll of polls),              *)
(* IsStatusAvailable and WaitForValidatingWebhook, against the operators   *)
(* that recreate, roll out and report, and against API calls that fail or  *)
(* whose answer is lost.                                                   *)
(*                                                                         *)
(* wait.PollImmediate tries once before it starts its timer, then at every *)
(* tick, and once more after the timer has fired.  A call takes no time    *)
(* here; time is counted in ticks from the beginning of the helper's call. *)
(***************************************************************************)
EXTENDS Integers

CONSTANTS
    WaitShort, WaitLong,  \* the timeouts, in ticks of a second
    MaxUID                \* bound: how often the operator creates the deployment

ASSUME WaitsAssumption == WaitShort \in Nat \ {0} /\ WaitLong \in Nat \ {0}
ASSUME UIDAssumption   == MaxUID \in Nat \ {0}

VARIABLES
    it,         \* the running spec
    pc,         \* the helper it is in
    verdict,    \* "running", "passed" or "failed"
    now,        \* ticks since that helper was called
    outer,      \* the poll of IsDeploymentAvailable
    inner,      \* the innermost poll
    initial,    \* the uid of initialDeployment, 0 before it is read
    seen,       \* the uid of the deployment IsDeploymentAvailable returned for
    uid,        \* the deployment in the cluster, 0: none
    created,    \* how many deployments the operator has created
    available,  \* the deployment has an available replica
    condition,  \* the conditions of the ClusterOperator; Unreported: no such object
    hook,       \* the validating webhook: "absent", "registered" or "serving"
    stored,     \* an invalid resource of the spec is stored: "no", from "before", "now"
    lost        \* history: an answer was lost

specVars    == <<it, pc, verdict, now, outer, inner, initial, seen>>
clusterVars == <<uid, created, available, condition, hook, stored>>
vars == <<specVars, clusterVars, lost>>

Its == {"available", "reconcile", "status", "invalidCA", "invalidMA"}
ConditionTypes == {"Available", "Progressing", "Degraded"}
\* A condition that is absent or Unknown is neither.
Statuses == {"True", "False", "Unknown"}
Unreported == [t \in ConditionTypes |-> "NoObject"]

\* No timer yet: the deadline is set when the first try has failed.
NewPoll == [deadline |-> 0, last |-> FALSE]
Polls   == [deadline : Nat, last : BOOLEAN]

FirstCall == [available |-> "available", reconcile |-> "get", status |-> "status",
              invalidCA |-> "webhook", invalidMA |-> "webhook"]

Init ==
    /\ it \in Its
    /\ pc = FirstCall[it]
    /\ verdict = "running"
    /\ now = 0
    /\ outer = NewPoll /\ inner = NewPoll
    /\ initial = 0 /\ seen = 0
    /\ uid \in {0, 1} /\ created = uid
    /\ available = FALSE
    /\ condition = Unreported
    /\ hook = "absent"
    /\ stored \in {"no", "before"}
    /\ lost = FALSE

-----------------------------------------------------------------------------
\* A bug the checks must find: the timeout is subtracted.
DeadlineBefore(poll, timeout) == IF poll.deadline = 0 THEN now - timeout ELSE poll.deadline
Deadline(poll, timeout)       == IF poll.deadline = 0 THEN now + timeout ELSE poll.deadline

\* wait.PollImmediate, after a try that failed and was not its last: the next one is at
\* the next tick, or at once and for the last time if the timer has fired meanwhile.
TryAgain(poll, timeout) ==
    LET deadline == Deadline(poll, timeout)
    IN  IF now < deadline
        THEN /\ now' = now + 1
             /\ \E last \in BOOLEAN :
                    /\ last => now + 1 = deadline
                    /\ poll' = [deadline |-> deadline, last |-> last]
        ELSE /\ now' = now
             /\ poll' = [deadline |-> deadline, last |-> TRUE]

Finish(v) ==
    /\ verdict' = v
    /\ UNCHANGED <<pc, now, outer, inner>>

Call(helper) ==
    /\ pc' = helper
    /\ now' = 0
    /\ outer' = NewPoll /\ inner' = NewPoll
    /\ UNCHANGED verdict

At(helper) == verdict = "running" /\ pc = helper

\* A bug the checks must find: the poll of a Get has the timeout of the outer one.
GetAgainLong == TryAgain(inner, WaitLong)
GetAgain     == TryAgain(inner, WaitShort)

\* A bug the checks must find: no timeout is returned after the last try.
TryFailsForever == GetAgain /\ UNCHANGED <<pc, verdict, outer>>
\* A try of a poll that is not nested: the last one that fails fails the spec.
TryFails ==
    \/ ~inner.last /\ GetAgain /\ UNCHANGED <<pc, verdict, outer>>
    \/ inner.last /\ Finish("failed")

\* GetDeployment in It("reconcile controllers deployment"): any error is retried.
GetDeployment ==
    /\ At("get")
    /\ \/ uid # 0 /\ initial' = uid /\ Call("available")
       \/ TryFails /\ UNCHANGED initial
    /\ UNCHANGED <<it, seen, clusterVars, lost>>

\* IsDeploymentAvailable: each try is a poll of GetDeployment, and fails when that
\* times out or the deployment it returns has no available replica.
OuterTryFails ==
    IF outer.last
    THEN Finish("failed")
    ELSE TryAgain(outer, WaitLong) /\ inner' = NewPoll /\ UNCHANGED <<pc, verdict>>

IsDeploymentAvailable ==
    /\ At("available") \/ At("again")
    /\ \/ ~inner.last /\ GetAgain /\ UNCHANGED <<pc, verdict, outer, seen>>
       \/ (inner.last \/ (uid # 0 /\ ~available)) /\ OuterTryFails /\ UNCHANGED seen
       \/ /\ uid # 0 /\ available
          /\ seen' = uid
          /\ IF it = "reconcile" /\ pc = "available"
             THEN Call("delete") ELSE Finish("passed")
    /\ UNCHANGED <<it, initial, clusterVars, lost>>

\* The API server deletes the deployment of that name, whatever its uid.
Removed ==
    /\ uid # 0
    /\ uid' = 0 /\ available' = FALSE

\* A bug the checks must find: NotFound or any other error is taken for success.
DeleteDeploymentIgnoringErrors ==
    /\ At("delete")
    /\ Removed \/ UNCHANGED <<uid, available>>
    /\ Call("again") /\ UNCHANGED lost
    /\ UNCHANGED <<it, initial, seen, created, condition, hook, stored>>
\* A bug the checks must find: the deletion is tried again although it was answered.
DeleteDeploymentTwice ==
    /\ At("delete")
    /\ \/ Removed /\ (Call("again") \/ TryFails) /\ UNCHANGED lost
       \/ Removed /\ lost' = TRUE /\ TryFails
       \/ TryFails /\ UNCHANGED <<uid, available, lost>>
    /\ UNCHANGED <<it, initial, seen, created, condition, hook, stored>>
\* DeleteDeployment: an error, NotFound included, is retried; a deletion whose
\* answer is lost is done again, to whatever deployment has the name by then.
DeleteDeployment ==
    /\ At("delete")
    /\ \/ Removed /\ Call("again") /\ UNCHANGED lost
       \/ Removed /\ lost' = TRUE /\ TryFails
       \/ TryFails /\ UNCHANGED <<uid, available, lost>>
    /\ UNCHANGED <<it, initial, seen, created, condition, hook, stored>>

\* IsStatusAvailable rejects what is reported bad; what is not reported passes.
IsStatusAvailable ==
    /\ At("status")
    /\ \/ /\ condition # Unreported
          /\ condition["Available"] # "False"
          /\ condition["Progressing"] # "True" /\ condition["Degraded"] # "True"
          /\ Finish("passed")
       \/ TryFails
    /\ UNCHANGED <<it, initial, seen, clusterVars, lost>>

\* WaitForValidatingWebhook waits for the configuration, not for its server.
WaitForValidatingWebhook ==
    /\ At("webhook")
    /\ \/ hook # "absent" /\ Call("create")
       \/ TryFails
    /\ UNCHANGED <<it, initial, seen, clusterVars, lost>>

\* client.Create of an invalid resource: any error satisfies HaveOccurred(), the
\* webhook's refusal, a call that fails before or after its effect, or the name
\* being taken by what an earlier run stored (ClusterAutoscaler "invalid-name"; the
\* MachineAutoscaler has a name of its own).
CreateInvalid ==
    /\ At("create")
    /\ \/ Finish("passed") /\ UNCHANGED <<stored, lost>>
       \/ /\ hook # "serving"
          /\ it = "invalidCA" => stored = "no"
          /\ stored' = "now"
          /\ \/ Finish("failed") /\ UNCHANGED lost
             \/ Finish("passed") /\ lost' = TRUE
    /\ UNCHANGED <<it, initial, seen, uid, created, available, condition, hook>>

-----------------------------------------------------------------------------
\* The operators and the deployment controller.
Recreate ==
    /\ uid = 0 /\ created < MaxUID
    /\ created' = created + 1 /\ uid' = created'
    /\ UNCHANGED <<specVars, available, condition, hook, stored, lost>>

RollOut ==
    /\ uid # 0 /\ available' = ~available
    /\ UNCHANGED <<specVars, uid, created, condition, hook, stored, lost>>

\* The ClusterOperator is created without conditions and reported on later.
Report ==
    /\ it = "status" /\ verdict = "running"
    /\ IF condition = Unreported
       THEN condition' = [t \in ConditionTypes |-> "Unknown"]
       ELSE \E t \in ConditionTypes, s \in Statuses : condition' = [condition EXCEPT ![t] = s]
    /\ UNCHANGED <<specVars, uid, created, available, hook, stored, lost>>

Webhook ==
    /\ it \in {"invalidCA", "invalidMA"} /\ verdict = "running"
    /\ hook' \in {"registered", "serving"}
    /\ UNCHANGED <<specVars, uid, created, available, condition, stored, lost>>

SpecStep ==
    \/ GetDeployment \/ IsDeploymentAvailable \/ DeleteDeployment
    \/ IsStatusAvailable \/ WaitForValidatingWebhook \/ CreateInvalid

Next == SpecStep \/ Recreate \/ RollOut \/ Report \/ Webhook

\* The spec's goroutine runs; nobody else has to move.
Spec == Init /\ [][Next]_vars /\ WF_vars(SpecStep)
-----------------------------------------------------------------------------
TypeOK ==
    /\ it \in Its
    /\ pc \in {"get", "available", "delete", "again", "status", "webhook", "create"}
    /\ verdict \in {"running", "passed", "failed"}
    /\ now \in Nat
    /\ outer \in Polls /\ inner \in Polls
    /\ created \in 0..MaxUID
    /\ uid \in 0..created /\ initial \in 0..created /\ seen \in 0..created
    /\ available \in BOOLEAN
    /\ condition \in [ConditionTypes -> Statuses \cup {"NoObject"}]
    /\ hook \in {"absent", "registered", "serving"}
    /\ stored \in {"no", "before", "now"}
    /\ lost \in BOOLEAN

\* A helper that times out has waited its whole timeout.  IsDeploymentAvailable only
\* looks at its deadline between polls of GetDeployment: it may take three more of
\* those, one before its timer starts, one over the deadline and the last try.
TimeoutInBounds ==
    verdict = "failed" /\ pc # "create" =>
        IF pc \in {"available", "again"}
        THEN now \in WaitLong..(WaitLong + 3 * WaitShort)
        ELSE now = WaitShort

\* "checking deployment is available again": the deployment the spec ends with is not
\* the one it began with, whatever was retried in between.
AvailableAgainMeansRecreated ==
    it = "reconcile" /\ verdict = "passed" => initial # 0 /\ seen > initial

\* Unless an answer was lost, DeleteDeployment makes the operator create a single new
\* deployment, and times out only with the initial one untouched.
DeletedOnce ==
    it = "reconcile" /\ ~lost /\ initial # 0 =>
        /\ created <= initial + 1
        /\ verdict = "failed" /\ pc = "delete" => uid = initial

\* Every spec ends, whatever fails and whoever stops: no nesting of polls is endless.
SpecEnds == <>(verdict # "running")
=============================================================================
