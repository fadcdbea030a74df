---------------------------- MODULE InfraCleanup ----------------------------
(***************************************************************************)
(* What the specs of pkg/infra and pkg/machinehealthcheck create and leave *)
(* behind over several runs of the suite, when API calls fail and waits    *)
(* time out: BeforeEach, the bodies reduced to their steps on objects,     *)
(* what they defer, and AfterEach with the variables it finds.  The body   *)
(* of "reject invalid machinesets" is here in full, with the controller it *)
(* tests.                                                                  *)
(*                                                                         *)
(* A run is one Ginkgo process: it runs some of the specs, in the order of *)
(* the source, and with --failFast ends after a failure.  RC, PDB and the  *)
(* invalid machineset have fixed names, every other name is fresh.         *)
(***************************************************************************)
EXTENDS Integers, Sequences

CONSTANTS
    FaultyCalls, \* the kinds of calls that may fail: LoadClient, reads of BeforeEach and
                 \* BuildMachineSetParams, Create, Create whose answer is lost, Delete
    MaxFaults,   \* bound: how many calls fail
    MaxRuns      \* bound: how often the suite runs

ASSUME FaultsAssumption ==
    FaultyCalls \subseteq {"load", "read", "create", "lost", "delete"} /\ MaxFaults \in Nat
ASSUME RunsAssumption == MaxRuns \in Nat \ {0}

VARIABLES
    run, spec,  \* the run, and its current spec
    mode,       \* "body" (with BeforeEach), "deferred", "afterEach", "awaitGone", "over"
    ip,         \* the next step of the body
    verdict,    \* of the spec: "running", "passed", "failed", "skipped"
    held,       \* the variable machineSet: "nil", the "set" of this spec or an "old" one
    tracked,    \* delObjects; of "grow", machineSet2 once its deletion is deferred
    todo,       \* what is yet to be deleted by the deferred call or AfterEach
    obj,        \* obj[o]: "absent", "present" or "deleting"
    faults,     \* how many calls failed
    excused,    \* history: the objects whose creation went unanswered, that a call of
                \* Delete that failed did not delete, nor those it came before, or that
                \* an earlier spec has left behind
    faulty,     \* the machineset controller creates machines for an invalid machineset
    machines,   \* it has, and they exist
    event,      \* a ReconcileError event of "invalid-machineset": "none", or the newest is
                \* of an "old" machineset or of the "new" one
    misled      \* history: the wait for the event took an old one

specVars == <<run, spec, mode, ip, verdict, held, tracked, todo>>
vars == <<specVars, obj, faults, excused, faulty, machines, event, misled>>

Fresh   == {"set", "set2", "mhc"}
Objects == Fresh \cup {"old", "rc", "pdb", "invalid"}

Create(o)       == <<[op |-> "create", object |-> o]>>
Track(o)        == <<[op |-> "track", object |-> o]>>
CreateTrack(o)  == Create(o) \o Track(o)
Delete(o)       == <<[op |-> "delete", object |-> o]>>
Do(op)          == <<[op |-> op]>>

BeforeEach     == Do("load") \o Do("build") \o Create("set") \o Do("await")
SpotBeforeEach == Do("load") \o Do("skip") \o Do("build") \o CreateTrack("set") \o Do("await")

\* "plain": a spec that creates nothing itself.
Plain   == BeforeEach \o Do("await")
Grow    == BeforeEach \o Do("build") \o CreateTrack("set2") \o Do("await")
\* A bug the checks must find: the RC is deleted anyway, the PDB only after the drain.
DrainTracksLate ==
    BeforeEach \o CreateTrack("rc") \o Create("pdb") \o Do("await") \o Track("pdb")
Drain   ==
    BeforeEach \o Do("await") \o CreateTrack("rc") \o CreateTrack("pdb") \o Do("await")
\* A bug the checks must find: the machines are looked for before the event is seen.
InvalidListsFirst ==
    BeforeEach \o Create("invalid") \o Do("list") \o Do("awaitEvent") \o Delete("invalid")
Invalid == BeforeEach \o Create("invalid") \o Do("awaitEvent") \o Do("list") \o Delete("invalid")
Health  == BeforeEach \o Do("await") \o Create("mhc") \o Do("await") \o Delete("mhc")
Spot    == SpotBeforeEach \o Do("await")

\* The first four share a Describe, and the variables it declares.
Specs   == <<Plain, Grow, Drain, Invalid, Health, Spot>>
TheSpot == Len(Specs)
Shared  == 1..4

Init ==
    /\ run = 1 /\ spec \in 1..Len(Specs)
    /\ mode = "body" /\ ip = 1
    /\ verdict = "running"
    /\ held = "nil"
    /\ tracked = {} /\ todo = {}
    /\ obj = [o \in Objects |-> "absent"]
    /\ faults = 0
    /\ excused = {}
    /\ faulty \in BOOLEAN
    /\ machines = FALSE
    /\ event = "none"
    /\ misled = FALSE

-----------------------------------------------------------------------------
Fault(call) ==
    /\ call \in FaultyCalls
    /\ faults < MaxFaults
    /\ faults' = faults + 1

Step   == Specs[spec][ip]
Object == Step.object
At(op) == mode = "body" /\ ip <= Len(Specs[spec]) /\ Step.op = op

Continue ==
    /\ ip' = ip + 1
    /\ UNCHANGED <<run, spec, mode, verdict, todo>>

\* A failed assertion, a skip or the end of the body: what it deferred runs, if any.
Leave(v) ==
    /\ verdict' = v
    /\ mode' = "deferred"
    /\ todo' = IF spec = TheSpot THEN {} ELSE tracked
    /\ UNCHANGED <<run, spec, ip>>

\* LoadClient: where it fails, AfterEach calls a nil client, but in the spot specs,
\* whose AfterEach has nothing to delete.
LoadClient ==
    /\ At("load")
    /\ \/ Continue /\ UNCHANGED faults
       \/ Fault("load") /\ verdict' = "failed" /\ mode' = "over"
            /\ UNCHANGED <<run, spec, ip, todo>>
    /\ UNCHANGED <<held, tracked, obj, excused, faulty, machines, event, misled>>

BuildMachineSetParams ==
    /\ At("build")
    /\ (Continue /\ UNCHANGED faults) \/ (Fault("read") /\ Leave("failed"))
    /\ UNCHANGED <<held, tracked, obj, excused, faulty, machines, event, misled>>

\* The spot specs are skipped on all platforms but one.
Skip ==
    /\ At("skip")
    /\ \/ Continue /\ UNCHANGED faults
       \/ Fault("read") /\ Leave("failed")
       \/ Leave("skipped") /\ UNCHANGED faults
    /\ UNCHANGED <<held, tracked, obj, excused, faulty, machines, event, misled>>

\* Bugs the checks must find: := declares another machineSet, or = assigns machineSet2
\* to it.
AssignShadow(m) == UNCHANGED held
AssignAny(m)    == held' = Object
Assign(m)       == held' = IF Object = "set" THEN m ELSE held

\* CreateMachineSet or client.Create; the former returns nil with an error.
CreateObject ==
    /\ At("create")
    /\ \/ /\ obj[Object] = "absent"
          /\ obj' = [obj EXCEPT ![Object] = "present"]
          /\ Assign("set") /\ Continue
          /\ UNCHANGED <<faults, excused>>
       \/ /\ \/ obj[Object] # "absent" /\ UNCHANGED <<obj, faults, excused>>
             \/ Fault("create") /\ UNCHANGED <<obj, excused>>
             \/ /\ Fault("lost") /\ obj[Object] = "absent"
                /\ obj' = [obj EXCEPT ![Object] = "present"]
                /\ excused' = excused \cup {Object}
          /\ Assign("nil") /\ Leave("failed")
    /\ event' = IF Object = "invalid" /\ event = "new" THEN "old" ELSE event
    /\ UNCHANGED <<tracked, faulty, machines, misled>>

TrackObject ==
    /\ At("track")
    /\ tracked' = tracked \cup {Object}
    /\ Continue
    /\ UNCHANGED <<held, obj, faults, excused, faulty, machines, event, misled>>

\* A wait or an assertion of the body.
Await ==
    /\ At("await")
    /\ Continue \/ Leave("failed")
    /\ UNCHANGED <<held, tracked, obj, faults, excused, faulty, machines, event, misled>>

\* The event is matched by its reason and the kind and name of its object.
AwaitEvent ==
    /\ At("awaitEvent")
    /\ (event # "none" /\ Continue) \/ Leave("failed")
    /\ misled' = (event = "old")
    /\ UNCHANGED <<held, tracked, obj, faults, excused, faulty, machines, event>>

ListMachines ==
    /\ At("list")
    /\ (~machines /\ Continue) \/ Leave("failed")
    /\ UNCHANGED <<held, tracked, obj, faults, excused, faulty, machines, event, misled>>

\* What client.Delete does when it succeeds: MHC and machinesets of AfterEach are gone
\* at once, what is deleted in the foreground when the garbage collector is done.
Accepted(o, gone) ==
    /\ obj[o] # "absent"
    /\ obj' = [obj EXCEPT ![o] = gone]

\* And when it does not: not found, or the call fails before or after its effect.
Rejected(o, gone) ==
    \/ obj[o] = "absent" /\ UNCHANGED <<obj, faults>>
    \/ Fault("delete") /\ (Accepted(o, gone) \/ UNCHANGED obj)

\* Deletion at the end of the body, without which nothing deletes the object.
DeleteObject ==
    /\ At("delete")
    /\ \/ Accepted(Object, "absent") /\ Continue /\ UNCHANGED faults
       \/ Rejected(Object, "absent") /\ Leave("failed")
    /\ UNCHANGED <<held, tracked, excused, faulty, machines, event, misled>>

BodyEnds ==
    /\ mode = "body" /\ ip > Len(Specs[spec])
    /\ Leave("passed")
    /\ UNCHANGED <<held, tracked, obj, faults, excused, faulty, machines, event, misled>>

\* deleteObjects, deferred by "drain" and in AfterEach of the spot specs, in the order
\* of a map iteration, and what "grow" defers.  The first call that fails ends it.
DeleteTracked(o) ==
    /\ mode = "deferred" \/ (mode = "afterEach" /\ spec = TheSpot)
    /\ o \in todo
    /\ \/ /\ Accepted(o, "deleting")
          /\ todo' = todo \ {o}
          /\ UNCHANGED <<verdict, faults, excused>>
       \/ /\ Rejected(o, "deleting")
          /\ excused' = excused \cup todo
          /\ todo' = {}
          /\ verdict' = "failed"
    /\ UNCHANGED <<run, spec, mode, ip, held, tracked, faulty, machines, event, misled>>

\* The end of what was deferred; "grow" waits for machineSet2 to go.
DeferredEnds ==
    /\ mode = "deferred" /\ todo = {}
    /\ mode' = "afterEach"
    /\ todo' = IF spec = TheSpot THEN tracked ELSE {held}
    /\ \/ obj["set2"] # "deleting" /\ UNCHANGED verdict
       \/ obj["set2"] = "deleting" /\ verdict' = "failed"
    /\ UNCHANGED <<run, spec, ip, held, tracked, obj, faults, excused, faulty, machines,
                   event, misled>>

\* AfterEach deletes the machineset its variable holds, whichever that is; a nil one
\* makes it panic.
AfterEach ==
    /\ mode = "afterEach" /\ spec # TheSpot
    /\ IF held = "nil"
       THEN verdict' = "failed" /\ mode' = "over" /\ UNCHANGED <<obj, faults, excused>>
       ELSE \/ /\ Accepted(held, "absent")
               /\ mode' = "awaitGone"
               /\ UNCHANGED <<verdict, faults, excused>>
            \/ /\ Rejected(held, "absent")
               /\ excused' = excused \cup {held}
               /\ verdict' = "failed" /\ mode' = "over"
    /\ todo' = {}
    /\ UNCHANGED <<run, spec, ip, held, tracked, faulty, machines, event, misled>>

\* WaitForMachineSetDelete, or the end of deleteObjects, which waits for nothing.
AwaitGone ==
    /\ mode = "awaitGone" \/ (mode = "afterEach" /\ spec = TheSpot /\ todo = {})
    /\ mode' = "over"
    /\ verdict' = verdict \/ (mode = "awaitGone" /\ verdict' = "failed")
    /\ UNCHANGED <<run, spec, ip, held, tracked, todo, obj, faults, excused, faulty,
                   machines, event, misled>>

-----------------------------------------------------------------------------
\* The next spec of the run, or the first one of the next run.  The names of the last
\* spec do not come back; the variable of a Describe keeps what it holds.
NextSpec ==
    /\ mode = "over"
    /\ \E s \in 1..Len(Specs), kept \in {"nil", "old"} :
         /\ \/ s > spec /\ UNCHANGED run
                /\ kept = IF s \in Shared THEN (IF held = "nil" THEN "nil" ELSE "old") ELSE "nil"
            \/ run < MaxRuns /\ run' = run + 1 /\ kept = "nil"
         /\ spec' = s /\ held' = kept
         /\ LET last(o) == IF o = "old" /\ held = "set" THEN "set" ELSE o
            IN  /\ obj' = [o \in Objects |->
                             IF o \in Fresh \/ (o = "old" /\ kept = "nil") THEN "absent"
                             ELSE obj[last(o)]]
                /\ excused' = {o \in Objects : obj'[o] = "present"}
    /\ mode' = "body" /\ ip' = 1 /\ verdict' = "running"
    /\ tracked' = {} /\ todo' = {}
    /\ misled' = FALSE
    /\ UNCHANGED <<faults, faulty, machines, event>>

\* The machineset controller finds the machineset invalid and says so; one with a bug
\* has created its machines before.  As the spec assumes, it does not come back later.
Reconcile ==
    /\ obj["invalid"] = "present" /\ event # "new"
    /\ \/ faulty /\ ~machines /\ machines' = TRUE /\ UNCHANGED event
       \/ (faulty => machines) /\ event' = "new" /\ UNCHANGED machines
    /\ UNCHANGED <<specVars, obj, faults, excused, faulty, misled>>

\* The garbage collector, and the expiry of events.
Collect ==
    /\ \/ \E o \in Objects : obj[o] = "deleting" /\ obj' = [obj EXCEPT ![o] = "absent"]
            /\ UNCHANGED <<machines, event>>
       \/ obj["invalid"] = "absent" /\ machines /\ machines' = FALSE
            /\ UNCHANGED <<obj, event>>
       \/ obj["invalid"] = "absent" /\ event # "none" /\ event' = "none"
            /\ UNCHANGED <<obj, machines>>
    /\ UNCHANGED <<specVars, faults, excused, faulty, misled>>

Next ==
    \/ LoadClient \/ BuildMachineSetParams \/ Skip \/ CreateObject \/ TrackObject
    \/ Await \/ AwaitEvent \/ ListMachines \/ DeleteObject \/ BodyEnds
    \/ (\E o \in Objects : DeleteTracked(o)) \/ DeferredEnds \/ AfterEach \/ AwaitGone
    \/ NextSpec \/ Reconcile \/ Collect

Spec == Init /\ [][Next]_vars
-----------------------------------------------------------------------------
TypeOK ==
    /\ run \in 1..MaxRuns /\ spec \in 1..Len(Specs)
    /\ mode \in {"body", "deferred", "afterEach", "awaitGone", "over"}
    /\ ip \in 1..(Len(Specs[spec]) + 1)
    /\ verdict \in {"running", "passed", "failed", "skipped"}
    /\ held \in {"nil", "set", "old"}
    /\ tracked \subseteq {"set", "set2", "rc", "pdb"}
    /\ todo \subseteq tracked \cup {held}
    /\ obj \in [Objects -> {"absent", "present", "deleting"}]
    /\ faults \in 0..MaxFaults
    /\ excused \subseteq Objects
    /\ faulty \in BOOLEAN /\ misled \in BOOLEAN
    /\ machines \in BOOLEAN /\ (machines => faulty)
    /\ event \in {"none", "old", "new"}

\* "Make sure RC and PDB get deleted anyway", and everything else: what a spec leaves
\* behind is an object whose creation went unanswered, one that a deletion that failed
\* has not reached, or, after a failure, the MachineHealthCheck or the invalid
\* machineset, which nothing but the last step of the body deletes.
LeftBehindOnlyByFailure ==
    mode = "over" => \A o \in Objects :
        obj[o] = "present" => o \in excused \/ (o \in {"mhc", "invalid"} /\ verdict = "failed")

\* The cleanup of a spec that has passed fails only by a call that fails or by a wait:
\* it never deletes what is not there, or with the variable of another spec.
CleanupFailsOnlyByFault ==
    [][verdict = "passed" /\ verdict' = "failed" =>
         faults' > faults \/ mode = "awaitGone" \/ obj["set2"] = "deleting"]_vars

\* "Verify no machine from %q machineset were created": a controller that creates them
\* does not pass, unless the event is one an earlier run has left.
FaultyControllerCaught ==
    Specs[spec] = Invalid /\ verdict = "passed" /\ faulty => misled
=============================================================================
