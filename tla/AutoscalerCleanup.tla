------------------------- MODULE AutoscalerCleanup -------------------------
(***************************************************************************)
(* The cluster objects the two specs of pkg/autoscaler/autoscaler.go       *)
(* create, track in cleanupObjects, delete and leave behind, when API      *)
(* calls fail and waits time out: BeforeEach, the bodies reduced to their  *)
(* steps on objects, and AfterEach.  The ClusterAutoscaler and the Job     *)
(* have the same names in both specs; every other name is fresh.           *)
(*                                                                         *)
(* A deletion is a foreground deletion: the API server accepts it and the  *)
(* object stays, deleting, until the garbage collector is done with it.    *)
(***************************************************************************)
EXTENDS Integers, Sequences

CONSTANTS
    N,          \* the number of transient machinesets of the first spec
    FaultyCalls,\* the kinds of calls that may fail: those of BeforeEach, Create, Create
                \* whose answer is lost, Delete, Get
    MaxFaults   \* bound: how many calls fail

ASSUME NAssumption      == N \in Nat \ {0}
ASSUME FaultsAssumption ==
    FaultyCalls \subseteq {"before", "create", "lost", "delete", "get"} /\ MaxFaults \in Nat

VARIABLES
    failFast,   \* Ginkgo was given --failFast, as by hack/ci-integration.sh
    obj,        \* obj[o]: "absent", "present" or "deleting"
    spec,       \* which It is running
    mode,       \* "before" it, in its "body", in "afterEach", or all "ended"
    ip,         \* the next step of the body
    cleanup,    \* cleanupObjects
    todo,       \* what AfterEach has yet to delete
    verdict,    \* of the current spec: "running", "passed", "failed", "skipped"
    faults,     \* how many calls failed
    hurt,       \* history: one of them in the current spec
    excused,    \* history: the objects whose creation went unanswered, or that the
                \* AfterEach of a spec in which a call failed had not deleted at its end
    stranded,   \* history: those that another AfterEach had not deleted at its end
    refused,    \* history: Create of a tracked object was refused, its name taken
    misread,    \* history: a Get that failed was taken for the absence of its object
    owned       \* history: created by the current spec, by what it was told, and not deleted

vars == <<failFast, obj, spec, mode, ip, cleanup, todo, verdict, faults, hurt, excused,
          stranded, refused, misread, owned>>

\* What only AfterEach and a Create that is refused change.
blame == <<stranded, refused>>

MachineSet(i)        == <<"MachineSet", i>>
MachineAutoscaler(i) == <<"MachineAutoscaler", i>>
ClusterAutoscaler    == <<"ClusterAutoscaler", 0>>
Workload             == <<"Job", 0>>
NoObject             == <<"none", 0>>

\* Number 0 belongs to the second spec.
Objects == {MachineSet(i) : i \in 0..N} \cup {MachineAutoscaler(i) : i \in 0..N}
             \cup {ClusterAutoscaler, Workload}

Op(op, o) == <<[op |-> op, object |-> o]>>
Create(o)     == Op("create", o) \o Op("track", o)
TrackCreate(o) == Op("track", o) \o Op("create", o)
\* A bug the checks must find: an object is forgotten before it is deleted.
ForgetFirst(o) == Op("untrack", o) \o Op("delete", o)
Delete(o)     == Op("delete", o) \o Op("untrack", o)
Scaling       == Op("await", NoObject)
Gone(o)       == Op("awaitGone", o)

\* for i := ...: the same calls for each of the N objects of a kind.
Each(kind, calls) ==
    [j \in 1..(N * Len(calls)) |->
        [op     |-> calls[((j - 1) % Len(calls)) + 1],
         object |-> <<kind, ((j - 1) \div Len(calls)) + 1>>]]

\* It("scale up and down").
ScaleUpAndDown ==
    Each("MachineSet", <<"create", "track">>) \o Scaling
    \o Each("MachineAutoscaler", <<"create", "track">>)
    \o Create(ClusterAutoscaler) \o Create(Workload) \o Scaling
    \o Delete(Workload) \o Scaling
    \o Each("MachineAutoscaler", <<"delete", "untrack">>)
    \o Each("MachineSet", <<"delete", "untrack", "awaitGone">>)
    \o Delete(ClusterAutoscaler) \o Gone(ClusterAutoscaler)

\* A bug the checks must find: the machineset is never tracked.
ScalesFromToZeroUntracked ==
    Op("skip", NoObject) \o Op("create", MachineSet(0)) \o Scaling
    \o Create(ClusterAutoscaler) \o Create(MachineAutoscaler(0))
    \o TrackCreate(Workload) \o Scaling
    \o Delete(Workload) \o Scaling
    \o Delete(ClusterAutoscaler) \o Gone(ClusterAutoscaler)
\* It("It scales from/to zero"): the Job is tracked before it is created, the
\* machineset and the machineautoscaler are left to AfterEach.
ScalesFromToZero ==
    Op("skip", NoObject) \o Create(MachineSet(0)) \o Scaling
    \o Create(ClusterAutoscaler) \o Create(MachineAutoscaler(0))
    \o TrackCreate(Workload) \o Scaling
    \o Delete(Workload) \o Scaling
    \o Delete(ClusterAutoscaler) \o Gone(ClusterAutoscaler)

Specs == <<ScaleUpAndDown, ScalesFromToZero>>

Init ==
    /\ failFast \in BOOLEAN
    /\ obj = [o \in Objects |-> "absent"]
    /\ spec = 1
    /\ mode = "before"
    /\ ip = 1
    /\ cleanup = {}
    /\ todo = {}
    /\ verdict = "running"
    /\ faults = 0 /\ hurt = FALSE
    /\ excused = {} /\ stranded = {} /\ refused = FALSE
    /\ misread = FALSE
    /\ owned = {}

-----------------------------------------------------------------------------
Fault(call) ==
    /\ call \in FaultyCalls
    /\ faults < MaxFaults
    /\ faults' = faults + 1
    /\ hurt' = TRUE

\* A failed assertion, a skip or the end of the body: AfterEach runs.
Leave(v) ==
    /\ verdict' = v
    /\ mode' = "afterEach"
    /\ todo' = cleanup
    /\ UNCHANGED <<failFast, spec, ip, cleanup>>

Continue ==
    /\ ip' = ip + 1
    /\ UNCHANGED <<failFast, spec, mode, todo, verdict>>

\* BeforeEach makes a new cleanupObjects as its last step; an assertion that
\* fails before leaves the map of the spec before.
BeforeEach ==
    /\ mode = "before"
    /\ \/ /\ mode' = "body"
          /\ cleanup' = {}
          /\ UNCHANGED <<todo, verdict, faults, hurt>>
       \/ /\ Fault("before")
          /\ mode' = "afterEach"
          /\ todo' = cleanup
          /\ verdict' = "failed"
          /\ UNCHANGED cleanup
    /\ UNCHANGED <<failFast, obj, spec, ip, excused, blame, misread, owned>>

At(op) ==
    /\ mode = "body" /\ ip <= Len(Specs[spec])
    /\ Specs[spec][ip].op = op
Object == Specs[spec][ip].object

\* client.Create: it succeeds, is refused because the name is taken, or fails
\* before or after the API server has created the object.
CreateObject ==
    /\ At("create")
    /\ \/ /\ obj[Object] = "absent"
          /\ obj' = [obj EXCEPT ![Object] = "present"]
          /\ owned' = owned \cup {Object}
          /\ Continue
          /\ UNCHANGED <<cleanup, faults, hurt, excused, refused>>
       \/ /\ \/ /\ obj[Object] # "absent"
                /\ refused' = (refused \/ Object \in cleanup)
                /\ UNCHANGED <<obj, faults, hurt, excused>>
             \/ Fault("create") /\ UNCHANGED <<obj, excused, refused>>
             \/ /\ Fault("lost") /\ obj[Object] = "absent"
                /\ obj' = [obj EXCEPT ![Object] = "present"]
                /\ excused' = excused \cup {Object}
                /\ UNCHANGED refused
          /\ Leave("failed")
          /\ UNCHANGED owned
    /\ UNCHANGED <<stranded, misread>>

\* What a call of client.Delete does to the object when it succeeds.
Accepted(o) ==
    /\ obj[o] # "absent"
    /\ obj' = [obj EXCEPT ![o] = "deleting"]
    /\ owned' = owned \ {o}

\* And when it does not: the object is not found, or the call fails before or
\* after the API server has accepted it.
Rejected(o) ==
    \/ /\ obj[o] = "absent"
       /\ UNCHANGED <<obj, owned, faults, hurt>>
    \/ /\ Fault("delete")
       /\ Accepted(o) \/ UNCHANGED <<obj, owned>>

DeleteObject ==
    /\ At("delete")
    /\ \/ Accepted(Object) /\ Continue /\ UNCHANGED <<cleanup, faults, hurt>>
       \/ Rejected(Object) /\ Leave("failed")
    /\ UNCHANGED <<excused, blame, misread>>

Track ==
    /\ At("track")
    /\ cleanup' = cleanup \cup {Object}
    /\ Continue
    /\ UNCHANGED <<obj, faults, hurt, excused, blame, misread, owned>>

Untrack ==
    /\ At("untrack")
    /\ cleanup' = cleanup \ {Object}
    /\ Continue
    /\ UNCHANGED <<obj, faults, hurt, excused, blame, misread, owned>>

\* A wait for the autoscaler, the machines or the pods.
Await ==
    /\ At("await")
    /\ (Continue /\ UNCHANGED cleanup) \/ Leave("failed")
    /\ UNCHANGED <<obj, faults, hurt, excused, blame, misread, owned>>

\* A bug the checks must find: the wait is over once the deletion is accepted.
AwaitDeleting ==
    /\ At("awaitGone")
    /\ \/ /\ obj[Object] # "present"
          /\ Continue /\ UNCHANGED <<cleanup, faults, hurt>>
       \/ /\ Leave("failed") /\ UNCHANGED <<faults, hurt>>
    /\ UNCHANGED <<obj, excused, blame, misread, owned>>
\* The wait for a deleted object.  That for the ClusterAutoscaler takes any
\* error of Get for its absence.
AwaitGone ==
    /\ At("awaitGone")
    /\ \/ /\ obj[Object] = "absent"
          /\ Continue /\ UNCHANGED <<cleanup, faults, hurt, misread>>
       \/ /\ Object = ClusterAutoscaler
          /\ Fault("get")
          /\ misread' = TRUE
          /\ Continue /\ UNCHANGED cleanup
       \/ /\ Leave("failed") /\ UNCHANGED <<faults, hurt, misread>>
    /\ UNCHANGED <<obj, excused, blame, owned>>

\* The platform switch: on some platforms the second spec is skipped.
Skip ==
    /\ At("skip")
    /\ (Continue /\ UNCHANGED cleanup) \/ Leave("skipped")
    /\ UNCHANGED <<obj, faults, hurt, excused, blame, misread, owned>>

BodyEnds ==
    /\ mode = "body" /\ ip > Len(Specs[spec])
    /\ Leave("passed")
    /\ UNCHANGED <<obj, faults, hurt, excused, blame, misread, owned>>

\* AfterEach deletes the tracked objects in the order of a map iteration; the
\* first call that fails ends it.
AfterEach(o) ==
    /\ mode = "afterEach"
    /\ o \in todo
    /\ \/ /\ Accepted(o)
          /\ todo' = todo \ {o}
          /\ UNCHANGED <<verdict, faults, hurt, excused, stranded>>
       \/ /\ Rejected(o)
          /\ IF hurt' THEN excused' = excused \cup todo /\ UNCHANGED stranded
                      ELSE stranded' = stranded \cup todo /\ UNCHANGED excused
          /\ todo' = {}
          /\ verdict' = "failed"
    /\ UNCHANGED <<failFast, spec, mode, ip, cleanup, refused, misread>>

LastSpec == spec = Len(Specs) \/ (failFast /\ verdict = "failed")

\* A bug the checks must find: a spec does not begin at its first step.
NextSpecNoReset ==
    /\ mode = "afterEach" /\ todo = {}
    /\ IF LastSpec
       THEN mode' = "ended" /\ UNCHANGED <<spec, ip, verdict>>
       ELSE mode' = "before" /\ spec' = spec + 1 /\ verdict' = "running" /\ UNCHANGED ip
    /\ owned' = {} /\ hurt' = FALSE
    /\ UNCHANGED <<failFast, obj, cleanup, todo, faults, excused, blame, misread>>
NextSpec ==
    /\ mode = "afterEach" /\ todo = {}
    /\ IF LastSpec
       THEN mode' = "ended" /\ UNCHANGED <<spec, ip, verdict>>
       ELSE mode' = "before" /\ spec' = spec + 1 /\ ip' = 1 /\ verdict' = "running"
    /\ owned' = {} /\ hurt' = FALSE
    /\ UNCHANGED <<failFast, obj, cleanup, todo, faults, excused, blame, misread>>

\* The garbage collector finishes a deletion.
Collect(o) ==
    /\ obj[o] = "deleting"
    /\ obj' = [obj EXCEPT ![o] = "absent"]
    /\ UNCHANGED <<failFast, spec, mode, ip, cleanup, todo, verdict, faults, hurt,
                   excused, blame, misread, owned>>

Next ==
    \/ BeforeEach \/ CreateObject \/ DeleteObject \/ Track \/ Untrack
    \/ Await \/ AwaitGone \/ Skip \/ BodyEnds \/ NextSpec
    \/ \E o \in Objects : AfterEach(o) \/ Collect(o)

Spec == Init /\ [][Next]_vars
-----------------------------------------------------------------------------
TypeOK ==
    /\ failFast \in BOOLEAN
    /\ obj \in [Objects -> {"absent", "present", "deleting"}]
    /\ spec \in 1..Len(Specs)
    /\ mode \in {"before", "body", "afterEach", "ended"}
    /\ ip \in 1..(Len(Specs[spec]) + 1)
    /\ cleanup \subseteq Objects /\ todo \subseteq cleanup
    /\ verdict \in {"running", "passed", "failed", "skipped"}
    /\ faults \in 0..MaxFaults
    /\ excused \subseteq Objects /\ stranded \subseteq Objects /\ owned \subseteq Objects
    /\ hurt \in BOOLEAN /\ refused \in BOOLEAN /\ misread \in BOOLEAN

\* Whatever call fails or wait times out, a spec ends with all that it was told
\* exists, and has not deleted, in cleanupObjects.
OwnedIsTracked == mode = "afterEach" /\ todo = cleanup => owned \subseteq cleanup

\* "Anything we create we must cleanup", and what becomes of it: an object is left
\* at the end, with no deletion asked for, only if its creation went unanswered, if
\* AfterEach was ended before it in a spec in which a call failed, or if AfterEach
\* was ended by the NotFound of an object that was tracked before its creation was
\* refused.  A wait that times out or a skip never loses one.
LeftBehindOnlyByFailure ==
    mode = "ended" => \A o \in Objects : obj[o] = "present" =>
        o \in excused \/ (o \in stranded /\ refused)

\* "Anything we create we must cleanup", taken at its word: in a suite in which no
\* call fails nothing is left without a deletion asked for.
NothingLeftBehind ==
    mode = "ended" /\ faults = 0 => \A o \in Objects : obj[o] # "present"

\* A spec that passes leaves no ClusterAutoscaler to the next one, which needs
\* its name ("singleton deployments of the ClusterAutoscaler"), unless its wait
\* took the error of a Get that failed for the absence.
PassedMeansCAGone ==
    mode = "afterEach" /\ verdict = "passed" /\ ~misread =>
        obj[ClusterAutoscaler] = "absent"

\* With --failFast no spec finds the ClusterAutoscaler of another in its way, unless
\* a Get was misread.  AfterEach does not wait for its deletion: without --failFast
\* the spec after one that failed may be refused the name.
SingletonCA ==
    [][CreateObject /\ Object = ClusterAutoscaler /\ failFast /\ ~misread
         => obj[ClusterAutoscaler] = "absent"]_vars
=============================================================================
