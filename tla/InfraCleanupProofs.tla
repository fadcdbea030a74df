------------------------- MODULE InfraCleanupProofs -------------------------
(***************************************************************************)
(* The safety properties of InfraCleanup for every choice of calls that    *)
(* may fail, every number of failures and of runs of the suite: first what *)
(* the bodies of the specs have in common, then what it gives the runs.    *)
(***************************************************************************)
EXTENDS InfraCleanup, TLAPS

\* A call of this kind on this object.
Is(step, op, o) == step.op = op /\ step.object = o

Trackable == {"set", "set2", "rc", "pdb"}

\* Where a body creates the machineset.
SetAt(n) == IF n = TheSpot THEN 4 ELSE 3

\* Each step of a body: an object is created just before it is tracked, or is
\* deleted by the last step, or is the machineset in the variable of the Describe.
StepOK(n, i) ==
    LET s == Specs[n] IN
    /\ s[i].op \in {"create", "track", "delete"} => s[i].object \in Objects
    /\ s[i].op = "create" =>
          /\ s[i].object = "set" <=> i = SetAt(n)
          /\ \/ s[i].object = "set" /\ n # TheSpot
             \/ i < Len(s) /\ Is(s[i + 1], "track", s[i].object)
             \/ i < Len(s) /\ Is(s[Len(s)], "delete", s[i].object)
    /\ i = SetAt(n) => Is(s[i], "create", "set")
    /\ s[i].op = "track" => /\ s[i].object \in Trackable /\ i > 1
                            /\ Is(s[i - 1], "create", s[i].object)
                            /\ s[i].object = "set" => n = TheSpot
    /\ s[i].op = "delete" => i = Len(s) /\ s[i].object \in {"mhc", "invalid"} /\ n # TheSpot
    /\ s[i].op = "load" => i = 1
    /\ s[i].op = "skip" => n = TheSpot
    /\ s[i].op = "awaitEvent" => n = 4 /\ i = 6
    /\ s[i].op = "list" => n = 4 /\ i = 7
    /\ n = 4 => /\ Len(s) = 8
                /\ i = 5 => Is(s[i], "create", "invalid")
                /\ i = 6 => s[i].op = "awaitEvent"
                /\ i = 7 => s[i].op = "list"
                /\ i = 8 => Is(s[i], "delete", "invalid")

LEMMA Scripts ==
    /\ Len(Specs) = 6
    /\ \A n \in 1..6 : Len(Specs[n]) \in 5..10 /\ \A i \in 1..Len(Specs[n]) : StepOK(n, i)
    /\ \A n \in 1..6 : Specs[n] = Invalid => n = 4
<1> USE DEF Specs, Create, Track, CreateTrack, Delete, Do, BeforeEach, SpotBeforeEach, TheSpot
<1>1. Len(Specs) = 6
  OBVIOUS
<1>2. ASSUME NEW n \in 1..6
      PROVE  Len(Specs[n]) \in 5..10 /\ \A i \in 1..Len(Specs[n]) : StepOK(n, i)
  <2> USE DEF StepOK, Is, SetAt, Objects, Fresh, Trackable
  <2>1. CASE n = 1
    BY <2>1 DEF Plain
  <2>2. CASE n = 2
    BY <2>2 DEF Grow
  <2>3. CASE n = 3
    BY <2>3 DEF Drain
  <2>4. CASE n = 4
    BY <2>4 DEF Invalid
  <2>5. CASE n = 5
    BY <2>5 DEF Health
  <2>6. CASE n = 6
    BY <2>6 DEF Spot
  <2> HIDE DEF StepOK, Specs
  <2> QED BY <2>1, <2>2, <2>3, <2>4, <2>5, <2>6
<1>3. ASSUME NEW n \in 1..6, Specs[n] = Invalid PROVE n = 4
  <2>1. Len(Specs[1]) = 5 /\ Len(Specs[3]) = 10 /\ Len(Specs[6]) = 7 /\ Len(Invalid) = 8
    BY DEF Plain, Drain, Invalid, Spot
  <2>2. Specs[2][5].op = "build" /\ Specs[5][5].op = "await" /\ Invalid[5].op = "create"
    BY DEF Grow, Health, Invalid
  <2> HIDE DEF Specs
  <2> QED BY <1>3, <2>1, <2>2
<1> HIDE DEF Specs, StepOK
<1> QED BY <1>1, <1>2, <1>3
-----------------------------------------------------------------------------
(* The inductive invariant. *)

\* The step before the one a body is at, and the last one.
Before == Specs[spec][ip - 1]
Last   == Specs[spec][Len(Specs[spec])]

\* What the mode says of the other variables.
Phases ==
    /\ mode = "body" => verdict = "running" /\ todo = {} /\ (ip = 1 => tracked = {})
    /\ mode # "body" => verdict # "running"
    /\ verdict = "skipped" => spec = TheSpot
    /\ mode = "deferred" => todo \subseteq tracked /\ (spec = TheSpot => todo = {})
    /\ mode = "afterEach" => IF spec = TheSpot THEN todo \subseteq tracked ELSE todo = {held}
    /\ "set" \in tracked => spec = TheSpot

\* What a body has created is there, until its last step deletes it.
Made ==
    mode = "body" =>
        /\ ip > 1 /\ Before.op = "create" => obj[Before.object] = "present"
        /\ \A o \in tracked : obj[o] = "present"
        /\ held = "set" <=> ip > SetAt(spec)
        /\ held = "set" => obj["set"] = "present"
        /\ spec = 4 /\ ip \in 6..8 => obj["invalid"] = "present"

\* Every object present is excused, or somebody will delete it, or nobody can.
Accounted ==
    \A o \in Objects : obj[o] = "present" =>
        \/ o \in excused
        \/ mode \in {"body", "deferred"} /\ o = "set" /\ held = "set" /\ spec # TheSpot
        \/ mode \in {"body", "deferred"} /\ o \in tracked /\ (spec = TheSpot \/ mode = "body")
        \/ mode = "body" /\ ip <= Len(Specs[spec]) /\ Is(Step, "track", o)
        \/ mode = "body" /\ ip <= Len(Specs[spec]) /\ Is(Last, "delete", o)
        \/ mode \in {"deferred", "afterEach"} /\ o \in todo
        \/ mode # "body" /\ o \in {"mhc", "invalid"} /\ verdict = "failed"

\* What is left to do after a body that has passed can be done.
CanBeDeleted ==
    verdict = "passed" /\ mode \in {"deferred", "afterEach"} =>
        /\ \A o \in todo : obj[o] = "present"
        /\ spec # TheSpot => held = "set" /\ obj["set"] = "present"
        /\ spec = TheSpot /\ mode = "deferred" => \A o \in tracked : obj[o] = "present"

\* A faulty controller that has said that the machineset is invalid has created its
\* machines, and where the spec looks for them it finds them.
EventIsTrue == event = "new" /\ faulty /\ obj["invalid"] # "absent" => machines
NotMissed ==
    mode = "body" /\ spec = 4 /\ faulty =>
        /\ ip = 7 => machines \/ misled
        /\ ip > 7 => misled

IInv ==
    /\ TypeOK /\ Phases /\ Made /\ Accounted /\ CanBeDeleted
    /\ EventIsTrue /\ NotMissed /\ FaultyControllerCaught

LEMMA Here ==
    ASSUME TypeOK
    PROVE  /\ spec \in 1..6 /\ Len(Specs[spec]) \in 5..10 /\ ip \in 1..(Len(Specs[spec]) + 1)
           /\ ip <= Len(Specs[spec]) => StepOK(spec, ip)
           /\ StepOK(spec, Len(Specs[spec]))
           /\ spec = 4 => Len(Specs[spec]) = 8
<1>1. spec \in 1..6 /\ ip \in 1..(Len(Specs[spec]) + 1)
  BY Scripts DEF TypeOK
<1>2. /\ Len(Specs[spec]) \in 5..10
      /\ \A i \in 1..Len(Specs[spec]) : StepOK(spec, i)
  BY <1>1, Scripts
<1>3. StepOK(spec, Len(Specs[spec])) /\ (ip <= Len(Specs[spec]) => StepOK(spec, ip))
  <2>1. Len(Specs[spec]) \in 1..Len(Specs[spec])
    <3> DEFINE l == Len(Specs[spec])
    <3>1. l \in 5..10
      BY <1>2
    <3> HIDE DEF l
    <3>2. l \in 1..l
      BY <3>1
    <3> QED BY <3>2 DEF l
  <2>2. ip <= Len(Specs[spec]) => ip \in 1..Len(Specs[spec])
    BY <1>1, <1>2
  <2> QED BY ONLY <1>2, <2>1, <2>2
<1> QED BY <1>1, <1>2, <1>3 DEF StepOK

LEMMA FaultInBounds ==
    ASSUME TypeOK, NEW call, Fault(call) PROVE faults' \in 0..MaxFaults
BY FaultsAssumption DEF TypeOK, Fault

\* The values of what the API server and the controllers keep.
OthersType ==
    /\ obj \in [Objects -> {"absent", "present", "deleting"}]
    /\ faults \in 0..MaxFaults
    /\ excused \subseteq Objects
    /\ faulty \in BOOLEAN /\ misled \in BOOLEAN
    /\ machines \in BOOLEAN /\ (machines => faulty)
    /\ event \in {"none", "old", "new"}

\* A step of a body that leaves it.
LEMMA LeaveStep ==
    ASSUME IInv, mode = "body", ip <= Len(Specs[spec]) => Step.op # "track",
           NEW v \in {"passed", "failed", "skipped"}, Leave(v),
           v = "skipped" => spec = TheSpot,
           v = "passed" => ip > Len(Specs[spec]) /\ UNCHANGED <<obj, misled>>,
           tracked' = tracked, faulty' = faulty, OthersType', EventIsTrue',
           held' = held \/ (held # "set" /\ held' = "nil" /\ v = "failed"),
           excused \subseteq excused',
           \A o \in Objects : obj'[o] = "present" => obj[o] = "present" \/ o \in excused'
    PROVE  IInv'
<1>1. /\ spec' = spec /\ ip' = ip /\ run' = run /\ verdict' = v /\ mode' = "deferred"
      /\ todo' = IF spec = TheSpot THEN {} ELSE tracked
  BY DEF Leave
<1>2. /\ spec \in 1..6 /\ Len(Specs[spec]) \in 5..10 /\ ip \in 1..(Len(Specs[spec]) + 1)
      /\ StepOK(spec, Len(Specs[spec])) /\ (spec = 4 => Len(Specs[spec]) = 8)
  BY Here DEF IInv
<1>3. TypeOK'
  BY <1>1 DEF IInv, TypeOK, OthersType
<1>4. Phases'
  BY <1>1 DEF IInv, Phases
<1>5. Made' /\ NotMissed'
  BY <1>1 DEF Made, NotMissed
<1>6. Accounted'
  <2> SUFFICES ASSUME NEW o \in Objects, obj'[o] = "present", o \notin excused'
               PROVE  \/ o = "set" /\ held' = "set" /\ spec # TheSpot
                      \/ o \in tracked' /\ spec = TheSpot
                      \/ o \in todo'
                      \/ o \in {"mhc", "invalid"} /\ verdict' = "failed"
    BY <1>1 DEF Accounted
  <2>1. \/ o = "set" /\ held = "set" /\ spec # TheSpot
        \/ o \in tracked
        \/ ip <= Len(Specs[spec]) /\ Is(Last, "delete", o)
    BY DEF IInv, Accounted, Is
  <2>2. CASE ip <= Len(Specs[spec]) /\ Is(Last, "delete", o)
    <3>1. o \in {"mhc", "invalid"} /\ spec # TheSpot
      BY <1>2, <2>2 DEF StepOK, Last, Is
    <3>2. v = "failed"
      BY <1>2, <2>2, <3>1
    <3> QED BY <1>1, <3>1, <3>2
  <2> QED BY <1>1, <2>1, <2>2
<1>7. CanBeDeleted'
  <2> SUFFICES ASSUME v = "passed"
               PROVE  /\ \A o \in todo' : obj'[o] = "present"
                      /\ spec # TheSpot => held' = "set" /\ obj'["set"] = "present"
                      /\ \A o \in tracked' : obj'[o] = "present"
    BY <1>1 DEF CanBeDeleted
  <2>1. ip > Len(Specs[spec])
    OBVIOUS
  <2>2. ip > SetAt(spec)
    <3>1. ip \in Int /\ Len(Specs[spec]) \in 5..10
      BY <1>2
    <3> QED BY <2>1, <3>1 DEF SetAt
  <2>3. held = "set"
    BY <2>2 DEF IInv, Made
  <2> QED BY <1>1, <2>3 DEF IInv, Made
<1>8. FaultyControllerCaught'
  <2> SUFFICES ASSUME Specs[spec] = Invalid, v = "passed", faulty PROVE misled'
    BY <1>1 DEF FaultyControllerCaught
  <2>1. spec = 4
    BY <1>2, Scripts
  <2>2. ip > Len(Specs[spec]) /\ Len(Specs[spec]) = 8
    BY <1>2, <2>1
  <2>3. ip > 7
    BY <1>2, <2>2
  <2> QED BY <2>1, <2>3 DEF IInv, NotMissed
<1> QED BY <1>3, <1>4, <1>5, <1>6, <1>7, <1>8 DEF IInv

\* A step of a body that goes on to the next one.
LEMMA ContinueStep ==
    ASSUME IInv, mode = "body", ip <= Len(Specs[spec]), Continue,
           faulty' = faulty, OthersType', EventIsTrue',
           tracked' \subseteq Trackable, "set" \in tracked' => spec = TheSpot,
           held' = IF ip = SetAt(spec) THEN "set" ELSE held,
           Step.op = "create" => obj'[Step.object] = "present",
           \A o \in tracked' : obj'[o] = "present",
           held' = "set" => obj'["set"] = "present",
           spec = 4 /\ ip \in 5..7 => obj'["invalid"] = "present",
           \A o \in Objects : obj'[o] = "present" =>
               \/ o \in excused' \/ o \in tracked'
               \/ o = "set" /\ held' = "set" /\ spec # TheSpot
               \/ ip < Len(Specs[spec]) /\ Is(Specs[spec][ip + 1], "track", o)
               \/ ip < Len(Specs[spec]) /\ Is(Last, "delete", o),
           spec = 4 /\ faulty => /\ ip = 6 => machines' \/ misled'
                                 /\ ip > 6 => misled'
    PROVE  IInv'
<1>1. /\ run' = run /\ spec' = spec /\ mode' = "body" /\ verdict' = verdict /\ todo' = todo
      /\ ip' = ip + 1
  BY DEF Continue
<1>2. /\ spec \in 1..6 /\ Len(Specs[spec]) \in 5..10 /\ ip \in 1..(Len(Specs[spec]) + 1)
      /\ verdict = "running" /\ todo = {}
  BY Here DEF IInv, Phases
<1>3. ip' \in 1..(Len(Specs[spec]) + 1) /\ ip' - 1 = ip /\ Before' = Step
  <2>1. ip' \in 1..(Len(Specs[spec]) + 1) /\ ip' - 1 = ip
    BY <1>1, <1>2
  <2> QED BY <1>1, <2>1 DEF Before, Step
<1>4. TypeOK'
  BY <1>1, <1>2, <1>3 DEF IInv, TypeOK, OthersType, Trackable
<1>5. Phases'
  BY <1>1, <1>2 DEF IInv, Phases
<1>6. Made'
  <2>1. (held' = "set" <=> ip' > SetAt(spec)) /\ (ip' \in 6..8 <=> ip \in 5..7)
    BY <1>1, <1>2 DEF IInv, Made, SetAt
  <2> QED BY <1>1, <1>3, <2>1 DEF Made
<1>7. Accounted'
  <2>1. Step' = Specs[spec][ip + 1] /\ Last' = Last
        /\ (ip' <= Len(Specs[spec]) <=> ip < Len(Specs[spec]))
    BY <1>1, <1>2 DEF Step, Last
  <2> QED BY <1>1, <2>1 DEF Accounted
<1>8. CanBeDeleted' /\ FaultyControllerCaught'
  BY <1>1, <1>2 DEF CanBeDeleted, FaultyControllerCaught
<1>9. NotMissed'
  BY <1>1, <1>2 DEF NotMissed
<1> QED BY <1>4, <1>5, <1>6, <1>7, <1>8, <1>9 DEF IInv

LEMMA InitIInv == Init => IInv
<1> SUFFICES ASSUME Init PROVE IInv
  OBVIOUS
<1>1. spec \in 1..6 /\ Len(Specs) = 6 /\ Len(Specs[spec]) \in 5..10
  BY Scripts DEF Init
<1> USE DEF Init
<1>2. TypeOK
  <2>1. run \in 1..MaxRuns /\ ip \in 1..(Len(Specs[spec]) + 1) /\ faults \in 0..MaxFaults
    BY <1>1, RunsAssumption, FaultsAssumption
  <2>2. /\ faulty \in BOOLEAN /\ misled \in BOOLEAN
        /\ machines \in BOOLEAN /\ (machines => faulty)
    OBVIOUS
  <2> QED BY <1>1, <2>1, <2>2 DEF TypeOK
<1>3. Phases /\ CanBeDeleted /\ EventIsTrue /\ FaultyControllerCaught /\ NotMissed
  BY DEF Phases, CanBeDeleted, EventIsTrue, FaultyControllerCaught, NotMissed
<1>4. Made
  BY DEF Made, SetAt
<1>5. Accounted
  BY DEF Accounted
<1> QED BY <1>2, <1>3, <1>4, <1>5 DEF IInv

-----------------------------------------------------------------------------
(* One lemma per action. *)

\* Steps of a body that touch no object.
LEMMA OtherContinue ==
    ASSUME IInv, mode = "body", ip <= Len(Specs[spec]), Continue,
           Step.op \notin {"create", "track", "delete"},
           UNCHANGED <<held, tracked, obj, excused, faulty, machines, event>>,
           faults' \in 0..MaxFaults, misled' \in BOOLEAN,
           spec = 4 /\ faulty => /\ ip = 6 => machines \/ misled'
                                 /\ ip > 6 => misled'
    PROVE  IInv'
<1>1. /\ spec \in 1..6 /\ Len(Specs[spec]) \in 5..10 /\ ip \in 1..(Len(Specs[spec]) + 1)
      /\ StepOK(spec, ip)
  BY Here DEF IInv
<1>2. ip # SetAt(spec) /\ (spec = 4 => ip # 5)
  BY <1>1 DEF StepOK, Step, Is
<1>3. OthersType' /\ EventIsTrue' /\ tracked' \subseteq Trackable
      /\ ("set" \in tracked' => spec = TheSpot)
  BY DEF IInv, TypeOK, OthersType, EventIsTrue, Trackable, Phases
<1>4. /\ \A o \in tracked' : obj'[o] = "present"
      /\ held' = "set" => obj'["set"] = "present"
      /\ spec = 4 /\ ip \in 5..7 => obj'["invalid"] = "present"
  BY <1>1, <1>2 DEF IInv, Made
<1>5. \A o \in Objects : obj'[o] = "present" =>
               \/ o \in excused' \/ o \in tracked'
               \/ o = "set" /\ held' = "set" /\ spec # TheSpot
               \/ ip < Len(Specs[spec]) /\ Is(Last, "delete", o)
  <2>1. Is(Last, "delete", "mhc") \/ Is(Last, "delete", "invalid") => ip # Len(Specs[spec])
    BY DEF Last, Step, Is
  <2>2. ASSUME NEW o \in Objects, Is(Last, "delete", o) PROVE ip < Len(Specs[spec])
    <3>1. ip # Len(Specs[spec])
      BY <2>2 DEF Last, Step, Is
    <3> QED BY <1>1, <3>1
  <2> QED BY <2>2 DEF IInv, Accounted, Is
<1> QED BY <1>2, <1>3, <1>4, <1>5, ContinueStep

LEMMA OtherLeave ==
    ASSUME IInv, mode = "body", ip <= Len(Specs[spec]), Step.op # "track",
           NEW v \in {"failed", "skipped"}, Leave(v), v = "skipped" => spec = TheSpot,
           UNCHANGED <<held, tracked, obj, excused, faulty, machines, event>>,
           faults' \in 0..MaxFaults, misled' \in BOOLEAN
    PROVE  IInv'
<1>1. OthersType' /\ EventIsTrue'
  BY DEF IInv, TypeOK, OthersType, EventIsTrue
<1> QED BY <1>1, LeaveStep

\* The steps at which the invalid machineset is looked for are no others.
LEMMA ElsewhereThanInvalid ==
    ASSUME IInv, ip <= Len(Specs[spec]),
           Step.op \notin {"awaitEvent", "list", "delete"}
    PROVE  spec = 4 => ip < 6
<1>1. ip \in 1..(Len(Specs[spec]) + 1) /\ StepOK(spec, ip) /\ (spec = 4 => Len(Specs[spec]) = 8)
  BY Here DEF IInv
<1> QED BY <1>1 DEF StepOK, Step, Is

LEMMA LoadStep == IInv /\ LoadClient => IInv'
<1> SUFFICES ASSUME IInv, LoadClient PROVE IInv'
  OBVIOUS
<1>1. /\ TypeOK /\ mode = "body" /\ ip <= Len(Specs[spec]) /\ Step.op = "load"
      /\ UNCHANGED <<held, tracked, obj, excused, faulty, machines, event, misled>>
  BY DEF LoadClient, At, IInv
<1>2. faults' \in 0..MaxFaults /\ misled' \in BOOLEAN
  BY <1>1, FaultInBounds DEF LoadClient, TypeOK
<1>3. CASE Continue
  BY <1>1, <1>2, <1>3, ElsewhereThanInvalid, OtherContinue, Here
<1>4. ASSUME verdict' = "failed", mode' = "over", UNCHANGED <<run, spec, ip, todo>>
      PROVE  IInv'
  <2>1. ip = 1 /\ spec \in 1..6 /\ StepOK(spec, Len(Specs[spec]))
    BY <1>1, Here DEF StepOK, Step
  <2>2. held # "set" /\ tracked = {} /\ todo = {}
    BY <1>1, <2>1 DEF IInv, Made, Phases, SetAt
  <2>3. TypeOK'
    BY <1>1, <1>2, <1>4 DEF TypeOK
  <2>4. Phases' /\ Made' /\ CanBeDeleted' /\ NotMissed' /\ FaultyControllerCaught'
    BY <1>1, <1>4, <2>2 DEF Phases, Made, CanBeDeleted, NotMissed, FaultyControllerCaught
  <2>5. EventIsTrue'
    BY <1>1 DEF IInv, EventIsTrue
  <2>6. Accounted'
    <3> SUFFICES ASSUME NEW o \in Objects, obj[o] = "present"
                 PROVE  o \in excused \/ o \in {"mhc", "invalid"}
      BY <1>1, <1>4 DEF Accounted
    <3>1. o \in excused \/ Is(Last, "delete", o)
      BY <1>1, <2>2 DEF IInv, Accounted, Is
    <3> QED BY <2>1, <3>1 DEF StepOK, Last, Is
  <2> QED BY <2>3, <2>4, <2>5, <2>6 DEF IInv
<1> QED BY <1>3, <1>4 DEF LoadClient

LEMMA ReadStep == IInv /\ (BuildMachineSetParams \/ Skip \/ Await) => IInv'
<1> SUFFICES ASSUME IInv, BuildMachineSetParams \/ Skip \/ Await PROVE IInv'
  OBVIOUS
<1>1. /\ TypeOK /\ mode = "body" /\ ip <= Len(Specs[spec]) /\ Step.op \in {"build", "skip", "await"}
      /\ UNCHANGED <<held, tracked, obj, excused, faulty, machines, event, misled>>
  BY DEF BuildMachineSetParams, Skip, Await, At, IInv
<1>2. faults' \in 0..MaxFaults /\ misled' \in BOOLEAN
  BY <1>1, FaultInBounds DEF BuildMachineSetParams, Skip, Await, TypeOK
<1>3. CASE Continue
  <2>1. spec = 4 => ip < 6
    BY <1>1, ElsewhereThanInvalid
  <2>2. ip \in Int
    BY <1>1 DEF TypeOK
  <2> QED BY <1>1, <1>2, <1>3, <2>1, <2>2, OtherContinue
<1>4. CASE Leave("failed")
  BY <1>1, <1>2, <1>4, OtherLeave
<1>5. CASE Skip /\ Leave("skipped")
  <2>1. spec = TheSpot
    BY <1>1, <1>5, Here DEF Skip, At, Step, StepOK
  <2> QED BY <1>1, <1>2, <1>5, <2>1, OtherLeave
<1> QED BY <1>3, <1>4, <1>5 DEF BuildMachineSetParams, Skip, Await

LEMMA AwaitEventStep == IInv /\ AwaitEvent => IInv'
<1> SUFFICES ASSUME IInv, AwaitEvent PROVE IInv'
  OBVIOUS
<1>1. /\ TypeOK /\ mode = "body" /\ ip <= Len(Specs[spec]) /\ Step.op = "awaitEvent"
      /\ misled' = (event = "old")
      /\ UNCHANGED <<held, tracked, obj, faults, excused, faulty, machines, event>>
  BY DEF AwaitEvent, At, IInv
<1>2. spec = 4 /\ ip = 6
  BY <1>1, Here DEF StepOK, Step
<1>3. faults' \in 0..MaxFaults
  BY <1>1 DEF TypeOK
<1>4. misled' \in BOOLEAN
  BY <1>1
<1>5. CASE event # "none" /\ Continue
  <2>1. faulty => machines \/ misled'
    <3>1. CASE event = "old"
      BY <1>1, <3>1
    <3>2. CASE event = "new"
      <4>1. obj["invalid"] = "present"
        BY <1>1, <1>2 DEF IInv, Made
      <4> QED BY <3>2, <4>1 DEF IInv, EventIsTrue
    <3> QED BY <1>1, <1>5, <3>1, <3>2 DEF TypeOK
  <2> QED BY <1>1, <1>2, <1>3, <1>4, <1>5, <2>1, OtherContinue
<1>6. CASE Leave("failed")
  BY <1>1, <1>3, <1>4, <1>6, OtherLeave
<1> QED BY <1>5, <1>6 DEF AwaitEvent

LEMMA ListStep == IInv /\ ListMachines => IInv'
<1> SUFFICES ASSUME IInv, ListMachines PROVE IInv'
  OBVIOUS
<1>1. /\ TypeOK /\ mode = "body" /\ ip <= Len(Specs[spec]) /\ Step.op = "list"
      /\ UNCHANGED <<held, tracked, obj, faults, excused, faulty, machines, event, misled>>
  BY DEF ListMachines, At, IInv
<1>2. spec = 4 /\ ip = 7
  BY <1>1, Here DEF StepOK, Step
<1>3. faults' \in 0..MaxFaults
  BY <1>1 DEF TypeOK
<1>4. misled' \in BOOLEAN
  BY <1>1 DEF TypeOK
<1>5. CASE ~machines /\ Continue
  <2>1. faulty => misled'
    BY <1>1, <1>2, <1>5 DEF IInv, NotMissed
  <2> QED BY <1>1, <1>2, <1>3, <1>4, <1>5, <2>1, OtherContinue
<1>6. CASE Leave("failed")
  BY <1>1, <1>3, <1>4, <1>6, OtherLeave
<1> QED BY <1>5, <1>6 DEF ListMachines

LEMMA CreateStep == IInv /\ CreateObject => IInv'
<1> SUFFICES ASSUME IInv, CreateObject PROVE IInv'
  OBVIOUS
<1>1. /\ TypeOK /\ mode = "body" /\ ip <= Len(Specs[spec]) /\ Step.op = "create"
      /\ Object = Step.object /\ UNCHANGED <<tracked, faulty, machines, misled>>
      /\ event' = IF Object = "invalid" /\ event = "new" THEN "old" ELSE event
  BY DEF CreateObject, At, Object, IInv
<1>2. /\ spec \in 1..6 /\ Len(Specs[spec]) \in 5..10 /\ ip \in 1..(Len(Specs[spec]) + 1)
      /\ Object \in Objects /\ (Object = "set" <=> ip = SetAt(spec))
      /\ \/ Object = "set" /\ spec # TheSpot
         \/ ip < Len(Specs[spec]) /\ Is(Specs[spec][ip + 1], "track", Object)
         \/ ip < Len(Specs[spec]) /\ Is(Last, "delete", Object)
      /\ (spec = 4 => ip < 6) /\ (spec = 4 /\ ip = 5 => Object = "invalid")
      /\ ip = Len(Specs[spec]) => ~Is(Last, "delete", Object)
  <2>1. StepOK(spec, ip) /\ spec \in 1..6 /\ Len(Specs[spec]) \in 5..10
        /\ ip \in 1..(Len(Specs[spec]) + 1)
    BY <1>1, Here
  <2>2. spec = 4 => ip < 6
    BY <1>1, ElsewhereThanInvalid
  <2> QED BY <1>1, <2>1, <2>2 DEF StepOK, Step, Is, Last
<1>3. faulty' \in BOOLEAN /\ misled' \in BOOLEAN /\ machines' \in BOOLEAN
      /\ (machines' => faulty') /\ event' \in {"none", "old", "new"}
  BY <1>1 DEF TypeOK
<1>4. ASSUME obj[Object] = "absent", obj' = [obj EXCEPT ![Object] = "present"],
             Assign("set"), Continue, UNCHANGED <<faults, excused>>
      PROVE  IInv'
  <2>1. OthersType'
    BY <1>1, <1>2, <1>3, <1>4 DEF TypeOK, OthersType
  <2>2. EventIsTrue'
    BY <1>1, <1>2, <1>4 DEF IInv, EventIsTrue, TypeOK, Objects
  <2>3. held' = IF ip = SetAt(spec) THEN "set" ELSE held
    BY <1>2, <1>4 DEF Assign
  <2>4. \A o \in Objects : obj[o] = "present" \/ o = Object <=> obj'[o] = "present"
    BY <1>1, <1>2, <1>4 DEF TypeOK
  <2>5. "set" \in Objects /\ "invalid" \in Objects /\ Trackable \subseteq Objects
    BY DEF Objects, Fresh, Trackable
  <2>6. tracked' \subseteq Trackable /\ ("set" \in tracked' => spec = TheSpot)
    BY <1>1 DEF IInv, TypeOK, Phases, Trackable
  <2>7. \A o \in tracked' : obj'[o] = "present"
    BY <1>1, <2>4, <2>5, <2>6 DEF IInv, Made
  <2>8. held' = "set" => obj'["set"] = "present"
    BY <1>1, <1>2, <2>3, <2>4, <2>5 DEF IInv, Made
  <2>9. spec = 4 /\ ip \in 5..7 => obj'["invalid"] = "present"
    BY <1>2, <2>4
  <2>10. \A o \in Objects : obj'[o] = "present" =>
               \/ o \in excused' \/ o \in tracked'
               \/ o = "set" /\ held' = "set" /\ spec # TheSpot
               \/ ip < Len(Specs[spec]) /\ Is(Specs[spec][ip + 1], "track", o)
               \/ ip < Len(Specs[spec]) /\ Is(Last, "delete", o)
    <3>1. \A o \in Objects : obj[o] = "present" =>
               \/ o \in excused \/ o \in tracked
               \/ o = "set" /\ held = "set" /\ spec # TheSpot
               \/ Is(Last, "delete", o)
      BY <1>1 DEF IInv, Accounted, Is
    <3>2. \A o \in Objects : Is(Last, "delete", o) => ip < Len(Specs[spec])
      <4>1. \A o \in Objects : Is(Last, "delete", o) => ip # Len(Specs[spec])
        BY <1>1 DEF Last, Step, Is
      <4> QED BY <1>1, <1>2, <4>1
    <3>3. held = "set" => held' = "set"
      BY <2>3
    <3>4. Object = "set" => held' = "set"
      BY <1>2, <2>3
    <3> QED BY <1>1, <1>2, <1>4, <2>4, <3>1, <3>2, <3>3, <3>4
  <2>11. Step.op = "create" => obj'[Step.object] = "present"
    BY <1>1, <1>2, <2>4
  <2>12. spec = 4 /\ faulty => (ip = 6 => machines' \/ misled') /\ (ip > 6 => misled')
    BY <1>2
  <2> QED BY <1>1, <1>4, <2>1, <2>2, <2>3, <2>6, <2>7, <2>8, <2>9, <2>10, <2>11, <2>12,
             ContinueStep
<1>5. ASSUME \/ obj[Object] # "absent" /\ UNCHANGED <<obj, faults, excused>>
             \/ Fault("create") /\ UNCHANGED <<obj, excused>>
             \/ /\ Fault("lost") /\ obj[Object] = "absent"
                /\ obj' = [obj EXCEPT ![Object] = "present"]
                /\ excused' = excused \cup {Object},
             Assign("nil"), Leave("failed")
      PROVE  IInv'
  <2>1. faults' \in 0..MaxFaults
    BY <1>1, <1>5, FaultInBounds DEF TypeOK
  <2>2. OthersType'
    BY <1>1, <1>2, <1>3, <1>5, <2>1 DEF TypeOK, OthersType
  <2>3. EventIsTrue'
    BY <1>1, <1>2, <1>5 DEF IInv, EventIsTrue, TypeOK, Objects
  <2>4. held' = held \/ (held # "set" /\ held' = "nil")
    BY <1>1, <1>2, <1>5 DEF IInv, Made, Assign, SetAt
  <2>5. excused \subseteq excused' /\ \A o \in Objects : obj'[o] = "present" =>
            obj[o] = "present" \/ o \in excused'
    BY <1>1, <1>2, <1>5 DEF TypeOK
  <2> QED BY <1>1, <1>5, <2>2, <2>3, <2>4, <2>5, LeaveStep
<1> QED BY <1>4, <1>5 DEF CreateObject

LEMMA TrackStep == IInv /\ TrackObject => IInv'
<1> SUFFICES ASSUME IInv, TrackObject PROVE IInv'
  OBVIOUS
<1>1. /\ TypeOK /\ mode = "body" /\ ip <= Len(Specs[spec]) /\ Step.op = "track" /\ Continue
      /\ tracked' = tracked \cup {Step.object}
      /\ UNCHANGED <<held, obj, faults, excused, faulty, machines, event, misled>>
  BY DEF TrackObject, At, Object, IInv
<1>2. /\ Step.object \in Trackable /\ (Step.object = "set" => spec = TheSpot) /\ ip > 1
      /\ Is(Before, "create", Step.object) /\ ip # SetAt(spec) /\ (spec = 4 => ip < 5)
      /\ ip \in 1..(Len(Specs[spec]) + 1) /\ Len(Specs[spec]) \in 5..10
  <2>1. /\ StepOK(spec, ip) /\ ip \in 1..(Len(Specs[spec]) + 1)
        /\ Len(Specs[spec]) \in 5..10
    BY <1>1, Here
  <2>2. spec = 4 => ip < 6 /\ ip # 5
    BY <1>1, <2>1, ElsewhereThanInvalid DEF StepOK, Step, Is
  <2> QED BY <1>1, <2>1, <2>2 DEF StepOK, Step, Is, Before
<1>3. OthersType' /\ EventIsTrue'
  BY <1>1 DEF IInv, TypeOK, OthersType, EventIsTrue
<1>4. tracked' \subseteq Trackable /\ ("set" \in tracked' => spec = TheSpot)
  BY <1>1, <1>2 DEF IInv, TypeOK, Phases, Trackable
<1>5. /\ \A o \in tracked' : obj'[o] = "present"
      /\ held' = "set" => obj'["set"] = "present"
  BY <1>1, <1>2 DEF IInv, Made, Is
<1>6. \A o \in Objects : obj'[o] = "present" =>
               \/ o \in excused' \/ o \in tracked'
               \/ o = "set" /\ held' = "set" /\ spec # TheSpot
               \/ ip < Len(Specs[spec]) /\ Is(Last, "delete", o)
  <2>1. \A o \in Objects : Is(Last, "delete", o) => ip < Len(Specs[spec])
    <3>1. \A o \in Objects : Is(Last, "delete", o) => ip # Len(Specs[spec])
      BY <1>1 DEF Last, Step, Is
    <3> QED BY <1>1, <1>2, <3>1
  <2> QED BY <1>1, <2>1 DEF IInv, Accounted, Is
<1>7. Step.op # "create" /\ ~(spec = 4 /\ ip \in 5..7)
      /\ (spec = 4 /\ faulty => (ip = 6 => machines' \/ misled') /\ (ip > 6 => misled'))
      /\ held' = IF ip = SetAt(spec) THEN "set" ELSE held
  BY <1>1, <1>2
<1> QED BY <1>1, <1>3, <1>4, <1>5, <1>6, <1>7, ContinueStep

\* A call of client.Delete; a foreground deletion is over when the object is gone.
LEMMA AcceptedStep ==
    ASSUME IInv, NEW o \in Objects, NEW gone \in {"absent", "deleting"}, Accepted(o, gone)
    PROVE  /\ obj' \in [Objects -> {"absent", "present", "deleting"}]
           /\ \A u \in Objects : obj'[u] = "present" <=> obj[u] = "present" /\ u # o
           /\ \A u \in Objects : obj'[u] # "absent" => obj[u] # "absent"
BY DEF IInv, TypeOK, Accepted

LEMMA RejectedStep ==
    ASSUME IInv, NEW o \in Objects, NEW gone \in {"absent", "deleting"}, Rejected(o, gone)
    PROVE  /\ obj' \in [Objects -> {"absent", "present", "deleting"}]
           /\ faults' \in 0..MaxFaults
           /\ \A u \in Objects : obj'[u] = "present" => obj[u] = "present"
           /\ \A u \in Objects : obj'[u] # "absent" => obj[u] # "absent"
           /\ obj[o] # "absent" => faults' > faults
<1>1. CASE obj[o] = "absent" /\ UNCHANGED <<obj, faults>>
  BY <1>1 DEF IInv, TypeOK
<1>2. CASE Fault("delete") /\ Accepted(o, gone)
  <2>1. faults' \in 0..MaxFaults /\ faults' > faults
    BY <1>2, FaultInBounds DEF IInv, TypeOK, Fault
  <2> QED BY <1>2, <2>1, AcceptedStep
<1>3. CASE Fault("delete") /\ UNCHANGED obj
  <2>1. faults' \in 0..MaxFaults /\ faults' > faults
    BY <1>3, FaultInBounds DEF IInv, TypeOK, Fault
  <2> QED BY <1>3, <2>1 DEF IInv, TypeOK
<1> QED BY <1>1, <1>2, <1>3 DEF Rejected

LEMMA Named == {"set", "set2", "old", "mhc", "invalid"} \subseteq Objects
            /\ Trackable \subseteq Objects /\ "nil" \notin Objects
BY DEF Objects, Fresh, Trackable

\* Nothing that does not make the invalid machineset come back makes the event lie.
LEMMA EventStays ==
    ASSUME IInv, obj'["invalid"] # "absent" => obj["invalid"] # "absent",
           UNCHANGED <<faulty, machines, event>>
    PROVE  EventIsTrue'
BY DEF IInv, EventIsTrue

LEMMA DeleteStep == IInv /\ DeleteObject => IInv'
<1> SUFFICES ASSUME IInv, DeleteObject PROVE IInv'
  OBVIOUS
<1>1. /\ TypeOK /\ mode = "body" /\ ip <= Len(Specs[spec]) /\ Step.op = "delete"
      /\ Object = Step.object
      /\ UNCHANGED <<held, tracked, excused, faulty, machines, event, misled>>
  BY DEF DeleteObject, At, Object, IInv
<1>2. /\ ip = Len(Specs[spec]) /\ Object \in {"mhc", "invalid"} /\ ip # SetAt(spec)
      /\ (spec = 4 => ip = 8) /\ Is(Last, "delete", Object)
  <2>1. StepOK(spec, ip) /\ (spec = 4 => Len(Specs[spec]) = 8)
    BY <1>1, Here
  <2>2. ip = Len(Specs[spec]) /\ Object \in {"mhc", "invalid"} /\ ip # SetAt(spec)
    BY <1>1, <2>1 DEF StepOK, Step, Is
  <2>3. Is(Last, "delete", Object)
    BY <1>1, <2>2 DEF Step, Is, Last
  <2> QED BY <2>1, <2>2, <2>3
<1>3. Object \in Objects
  BY <1>2, Named
<1>4. ASSUME Accepted(Object, "absent"), Continue, UNCHANGED faults PROVE IInv'
  <2>1. /\ obj' \in [Objects -> {"absent", "present", "deleting"}]
        /\ \A u \in Objects : obj'[u] = "present" <=> obj[u] = "present" /\ u # Object
        /\ \A u \in Objects : obj'[u] # "absent" => obj[u] # "absent"
    BY <1>3, <1>4, AcceptedStep
  <2>2. OthersType' /\ EventIsTrue'
    BY <1>1, <1>4, <2>1, Named, EventStays DEF TypeOK, OthersType
  <2>3. tracked' \subseteq Trackable /\ ("set" \in tracked' => spec = TheSpot)
    BY <1>1 DEF IInv, TypeOK, Phases, Trackable
  <2>4. /\ \A o \in tracked' : obj'[o] = "present"
        /\ held' = "set" => obj'["set"] = "present"
    <3>1. "mhc" \notin tracked' /\ "invalid" \notin tracked'
      BY <2>3 DEF Trackable
    <3> QED BY <1>1, <1>2, <2>1, <2>3, <3>1, Named DEF IInv, Made
  <2>5. \A o \in Objects : obj'[o] = "present" =>
               \/ o \in excused' \/ o \in tracked'
               \/ o = "set" /\ held' = "set" /\ spec # TheSpot
    BY <1>1, <1>2, <2>1 DEF IInv, Accounted, Is
  <2>6. Step.op # "create" /\ ~(spec = 4 /\ ip \in 5..7)
        /\ (spec = 4 /\ faulty => (ip = 6 => machines' \/ misled') /\ (ip > 6 => misled'))
        /\ held' = IF ip = SetAt(spec) THEN "set" ELSE held
    <3>1. spec = 4 => ip = 8
      BY <1>2
    <3>2. spec = 4 /\ faulty => misled'
      BY <1>1, <3>1 DEF IInv, NotMissed
    <3>3. ~(spec = 4 /\ ip \in 5..7)
      BY ONLY <3>1
    <3> QED BY <1>1, <1>2, <3>2, <3>3
  <2> QED BY <1>1, <1>4, <2>2, <2>3, <2>4, <2>5, <2>6, ContinueStep
<1>5. ASSUME Rejected(Object, "absent"), Leave("failed") PROVE IInv'
  <2>1. /\ obj' \in [Objects -> {"absent", "present", "deleting"}]
        /\ faults' \in 0..MaxFaults
        /\ \A u \in Objects : obj'[u] = "present" => obj[u] = "present"
        /\ \A u \in Objects : obj'[u] # "absent" => obj[u] # "absent"
    BY <1>3, <1>5, RejectedStep
  <2>2. OthersType' /\ EventIsTrue'
    BY <1>1, <2>1, Named, EventStays DEF TypeOK, OthersType
  <2> QED BY <1>1, <1>5, <2>1, <2>2, LeaveStep
<1> QED BY <1>4, <1>5 DEF DeleteObject

LEMMA BodyEndsStep == IInv /\ BodyEnds => IInv'
<1> SUFFICES ASSUME IInv, BodyEnds PROVE IInv'
  OBVIOUS
<1>1. /\ mode = "body" /\ ip > Len(Specs[spec]) /\ Leave("passed")
      /\ UNCHANGED <<held, tracked, obj, faults, excused, faulty, machines, event, misled>>
  BY DEF BodyEnds
<1>2. ~(ip <= Len(Specs[spec]))
  <2>1. ip \in 1..(Len(Specs[spec]) + 1) /\ Len(Specs[spec]) \in 5..10
    BY Here DEF IInv
  <2> QED BY <1>1, <2>1
<1>3. OthersType' /\ EventIsTrue'
  BY <1>1 DEF IInv, TypeOK, OthersType, EventIsTrue
<1> QED BY <1>1, <1>2, <1>3, LeaveStep

LEMMA DeleteTrackedStep ==
    ASSUME IInv, NEW o \in Objects, DeleteTracked(o)
    PROVE  /\ IInv'
           /\ verdict = "passed" /\ verdict' = "failed" => faults' > faults
<1>1. /\ TypeOK /\ o \in todo /\ (mode = "deferred" \/ (mode = "afterEach" /\ spec = TheSpot))
      /\ UNCHANGED <<run, spec, mode, ip, held, tracked, faulty, machines, event, misled>>
  BY DEF DeleteTracked, IInv
<1>2. todo \subseteq tracked /\ ("set" \in tracked => spec = TheSpot) /\ verdict # "running"
      /\ tracked \subseteq Objects /\ ~(mode = "deferred" /\ spec = TheSpot)
  BY <1>1, Named DEF IInv, Phases, TypeOK, Trackable
<1>3. ASSUME Accepted(o, "deleting"), todo' = todo \ {o}, UNCHANGED <<verdict, faults, excused>>
      PROVE  IInv'
  <2>1. /\ obj' \in [Objects -> {"absent", "present", "deleting"}]
        /\ \A u \in Objects : obj'[u] = "present" <=> obj[u] = "present" /\ u # o
        /\ \A u \in Objects : obj'[u] # "absent" => obj[u] # "absent"
    BY <1>3, AcceptedStep
  <2>2. TypeOK'
    BY <1>1, <1>3, <2>1 DEF TypeOK
  <2>3. EventIsTrue'
    BY <1>1, <2>1, Named, EventStays
  <2>4. Phases' /\ Made' /\ NotMissed' /\ FaultyControllerCaught'
    BY <1>1, <1>2, <1>3 DEF IInv, Phases, Made, NotMissed, FaultyControllerCaught
  <2>5. Accounted'
    BY <1>1, <1>3, <2>1 DEF IInv, Accounted
  <2>6. CanBeDeleted'
    <3> SUFFICES ASSUME verdict = "passed"
                 PROVE  /\ \A u \in todo' : obj'[u] = "present"
                        /\ spec # TheSpot => held = "set" /\ obj'["set"] = "present"
      BY <1>1, <1>2, <1>3 DEF CanBeDeleted
    <3> QED BY <1>1, <1>2, <1>3, <2>1, Named DEF IInv, CanBeDeleted
  <2> QED BY <2>2, <2>3, <2>4, <2>5, <2>6 DEF IInv
<1>4. ASSUME Rejected(o, "deleting"), excused' = excused \cup todo, todo' = {}, verdict' = "failed"
      PROVE  IInv' /\ (verdict = "passed" => faults' > faults)
  <2>1. /\ obj' \in [Objects -> {"absent", "present", "deleting"}] /\ faults' \in 0..MaxFaults
        /\ \A u \in Objects : obj'[u] = "present" => obj[u] = "present"
        /\ \A u \in Objects : obj'[u] # "absent" => obj[u] # "absent"
        /\ obj[o] # "absent" => faults' > faults
    BY <1>4, RejectedStep
  <2>2. TypeOK'
    BY <1>1, <1>2, <1>4, <2>1 DEF TypeOK
  <2>3. EventIsTrue'
    BY <1>1, <2>1, Named, EventStays
  <2>4. Phases' /\ Made' /\ NotMissed' /\ FaultyControllerCaught' /\ CanBeDeleted'
    BY <1>1, <1>2, <1>4 DEF IInv, Phases, Made, NotMissed, FaultyControllerCaught, CanBeDeleted
  <2>5. Accounted'
    BY <1>1, <1>4, <2>1 DEF IInv, Accounted
  <2>6. verdict = "passed" => faults' > faults
    BY <1>1, <2>1 DEF IInv, CanBeDeleted
  <2> QED BY <2>2, <2>3, <2>4, <2>5, <2>6 DEF IInv
<1> QED BY <1>3, <1>4 DEF DeleteTracked

LEMMA DeferredEndsStep == IInv /\ DeferredEnds => IInv'
<1> SUFFICES ASSUME IInv, DeferredEnds PROVE IInv'
  OBVIOUS
<1>1. /\ TypeOK /\ mode = "deferred" /\ todo = {} /\ mode' = "afterEach"
      /\ todo' = (IF spec = TheSpot THEN tracked ELSE {held})
      /\ verdict' \in {verdict, "failed"} /\ verdict # "running"
      /\ UNCHANGED <<run, spec, ip, held, tracked, obj, faults, excused, faulty, machines,
                     event, misled>>
  BY DEF DeferredEnds, IInv, Phases
<1>2. TypeOK' /\ Phases'
  BY <1>1 DEF IInv, TypeOK, Phases
<1>3. Made' /\ NotMissed' /\ EventIsTrue' /\ FaultyControllerCaught'
  BY <1>1 DEF IInv, Made, NotMissed, EventIsTrue, FaultyControllerCaught
<1>4. Accounted'
  BY <1>1 DEF IInv, Accounted
<1>5. CanBeDeleted'
  BY <1>1 DEF IInv, CanBeDeleted
<1> QED BY <1>2, <1>3, <1>4, <1>5 DEF IInv

LEMMA AfterEachStep ==
    IInv /\ AfterEach => /\ IInv'
                         /\ verdict = "passed" /\ verdict' = "failed" => faults' > faults
<1> SUFFICES ASSUME IInv, AfterEach
             PROVE  /\ IInv'
                    /\ verdict = "passed" /\ verdict' = "failed" => faults' > faults
  OBVIOUS
<1>1. /\ TypeOK /\ mode = "afterEach" /\ spec # TheSpot /\ todo = {held} /\ todo' = {}
      /\ UNCHANGED <<run, spec, ip, held, tracked, faulty, machines, event, misled>>
      /\ verdict # "running" /\ ("set" \notin tracked) /\ held \in {"nil", "set", "old"}
  BY DEF AfterEach, IInv, Phases, TypeOK
<1>2. CASE held = "nil" /\ verdict' = "failed" /\ mode' = "over" /\ UNCHANGED <<obj, faults, excused>>
  <2>1. TypeOK' /\ Phases' /\ Made' /\ CanBeDeleted' /\ NotMissed' /\ FaultyControllerCaught'
    BY <1>1, <1>2 DEF TypeOK, Phases, Made, CanBeDeleted, NotMissed, FaultyControllerCaught
  <2>2. EventIsTrue'
    BY <1>1, <1>2 DEF IInv, EventIsTrue
  <2>3. Accounted'
    BY <1>1, <1>2, Named DEF IInv, Accounted
  <2>4. verdict # "passed"
    BY <1>1, <1>2 DEF IInv, CanBeDeleted
  <2> QED BY <2>1, <2>2, <2>3, <2>4 DEF IInv
<1>3. ASSUME held # "nil", Accepted(held, "absent"), mode' = "awaitGone",
             UNCHANGED <<verdict, faults, excused>>
      PROVE  IInv'
  <2>1. held \in Objects
    BY <1>1, <1>3, Named
  <2>2. /\ obj' \in [Objects -> {"absent", "present", "deleting"}]
        /\ \A u \in Objects : obj'[u] = "present" <=> obj[u] = "present" /\ u # held
        /\ \A u \in Objects : obj'[u] # "absent" => obj[u] # "absent"
    BY <1>3, <2>1, AcceptedStep
  <2>3. TypeOK' /\ Phases' /\ Made' /\ CanBeDeleted' /\ NotMissed'
    BY <1>1, <1>3, <2>2 DEF IInv, TypeOK, Phases, Made, CanBeDeleted, NotMissed
  <2>4. EventIsTrue' /\ FaultyControllerCaught'
    BY <1>1, <1>3, <2>2, Named, EventStays DEF IInv, FaultyControllerCaught
  <2>5. Accounted'
    BY <1>1, <1>3, <2>2 DEF IInv, Accounted
  <2> QED BY <2>3, <2>4, <2>5 DEF IInv
<1>4. ASSUME held # "nil", Rejected(held, "absent"), excused' = excused \cup {held},
             verdict' = "failed", mode' = "over"
      PROVE  IInv' /\ (verdict = "passed" => faults' > faults)
  <2>1. held \in Objects
    BY <1>1, <1>4, Named
  <2>2. /\ obj' \in [Objects -> {"absent", "present", "deleting"}] /\ faults' \in 0..MaxFaults
        /\ \A u \in Objects : obj'[u] = "present" => obj[u] = "present"
        /\ \A u \in Objects : obj'[u] # "absent" => obj[u] # "absent"
        /\ obj[held] # "absent" => faults' > faults
    BY <1>4, <2>1, RejectedStep
  <2>3. TypeOK' /\ Phases' /\ Made' /\ CanBeDeleted' /\ NotMissed'
    BY <1>1, <1>4, <2>1, <2>2 DEF IInv, TypeOK, Phases, Made, CanBeDeleted, NotMissed
  <2>4. EventIsTrue' /\ FaultyControllerCaught'
    BY <1>1, <1>4, <2>2, Named, EventStays DEF FaultyControllerCaught
  <2>5. Accounted'
    BY <1>1, <1>4, <2>2 DEF IInv, Accounted
  <2>6. verdict = "passed" => faults' > faults
    BY <1>1, <2>2 DEF IInv, CanBeDeleted
  <2> QED BY <2>3, <2>4, <2>5, <2>6 DEF IInv
<1> QED BY <1>2, <1>3, <1>4 DEF AfterEach

LEMMA AwaitGoneStep == IInv /\ AwaitGone => IInv'
<1> SUFFICES ASSUME IInv, AwaitGone PROVE IInv'
  OBVIOUS
<1>1. /\ TypeOK /\ mode' = "over" /\ verdict' \in {verdict, "failed"} /\ verdict # "running"
      /\ mode = "awaitGone" \/ (mode = "afterEach" /\ todo = {})
      /\ UNCHANGED <<run, spec, ip, held, tracked, todo, obj, faults, excused, faulty,
                     machines, event, misled>>
  BY DEF AwaitGone, IInv, Phases
<1>2. TypeOK' /\ Phases' /\ Made' /\ CanBeDeleted' /\ NotMissed'
  BY <1>1 DEF IInv, TypeOK, Phases, Made, CanBeDeleted, NotMissed
<1>3. EventIsTrue' /\ FaultyControllerCaught' /\ Accounted'
  BY <1>1 DEF IInv, EventIsTrue, FaultyControllerCaught, Accounted
<1> QED BY <1>2, <1>3 DEF IInv

LEMMA NextSpecStep == IInv /\ NextSpec => IInv'
<1> SUFFICES ASSUME IInv, NextSpec PROVE IInv'
  OBVIOUS
<1>1. /\ TypeOK /\ mode' = "body" /\ ip' = 1 /\ verdict' = "running" /\ tracked' = {}
      /\ todo' = {} /\ misled' = FALSE /\ UNCHANGED <<faults, faulty, machines, event>>
  BY DEF NextSpec, IInv
<1>2. PICK s \in 1..Len(Specs), kept \in {"nil", "old"} :
        /\ UNCHANGED run \/ (run < MaxRuns /\ run' = run + 1)
        /\ spec' = s /\ held' = kept
        /\ obj' = [o \in Objects |->
                      IF o \in Fresh \/ (o = "old" /\ kept = "nil") THEN "absent"
                      ELSE obj[IF o = "old" /\ held = "set" THEN "set" ELSE o]]
        /\ excused' = {o \in Objects : obj'[o] = "present"}
  BY DEF NextSpec
<1>3. OthersType'
  <2>1. obj' \in [Objects -> {"absent", "present", "deleting"}]
    BY <1>1, <1>2, Named DEF TypeOK
  <2>2. excused' \subseteq Objects /\ misled' \in BOOLEAN
    BY <1>1, <1>2
  <2> QED BY <1>1, <2>1, <2>2 DEF TypeOK, OthersType
<1>4. TypeOK'
  <2>1. run' \in 1..MaxRuns
    BY <1>1, <1>2, RunsAssumption DEF TypeOK
  <2>2. spec' \in 1..Len(Specs) /\ ip' \in 1..(Len(Specs[spec']) + 1)
    <3>1. Len(Specs[spec']) \in 5..10
      BY <1>2, Scripts
    <3> QED BY <1>1, <1>2, <3>1
  <2> QED BY <1>1, <1>2, <1>3, <2>1, <2>2 DEF TypeOK, OthersType
<1>5. Phases' /\ CanBeDeleted' /\ NotMissed' /\ FaultyControllerCaught'
  BY <1>1 DEF Phases, CanBeDeleted, NotMissed, FaultyControllerCaught
<1>6. Made'
  BY <1>1, <1>2 DEF Made, SetAt
<1>7. Accounted'
  BY <1>2 DEF Accounted
<1>8. EventIsTrue'
  <2>1. obj'["invalid"] = obj["invalid"]
    BY <1>2, Named DEF Fresh
  <2> QED BY <1>1, <2>1, EventStays
<1> QED BY <1>4, <1>5, <1>6, <1>7, <1>8 DEF IInv

LEMMA ReconcileStep == IInv /\ Reconcile => IInv'
<1> SUFFICES ASSUME IInv, Reconcile PROVE IInv'
  OBVIOUS
<1>1. /\ TypeOK /\ UNCHANGED <<run, spec, mode, ip, verdict, held, tracked, todo, obj, faults,
                               excused, faulty, misled>>
      /\ \/ faulty /\ machines' = TRUE /\ UNCHANGED event
         \/ (faulty => machines) /\ event' = "new" /\ UNCHANGED machines
  BY DEF Reconcile, specVars, IInv
<1>2. TypeOK'
  <2>1. machines' \in BOOLEAN /\ (machines' => faulty')
    <3>1. machines \in BOOLEAN /\ (machines => faulty) /\ faulty \in BOOLEAN
      BY <1>1 DEF TypeOK
    <3>2. machines' \in BOOLEAN
      BY <1>1, <3>1
    <3> QED BY <1>1, <3>1, <3>2
  <2>2. event' \in {"none", "old", "new"}
    BY <1>1 DEF TypeOK
  <2> QED BY <1>1, <2>1, <2>2 DEF TypeOK
<1>3. Phases' /\ Made' /\ CanBeDeleted'
  BY <1>1 DEF IInv, Phases, Made, CanBeDeleted, Before
<1>4. Accounted'
  BY <1>1 DEF IInv, Accounted, Step, Last
<1>5. EventIsTrue' /\ NotMissed' /\ FaultyControllerCaught'
  BY <1>1 DEF IInv, EventIsTrue, NotMissed, FaultyControllerCaught
<1> QED BY <1>2, <1>3, <1>4, <1>5 DEF IInv

LEMMA CollectStep == IInv /\ Collect => IInv'
<1> SUFFICES ASSUME IInv, Collect PROVE IInv'
  OBVIOUS
<1>1. /\ TypeOK /\ UNCHANGED <<run, spec, mode, ip, verdict, held, tracked, todo, faults,
                               excused, faulty, misled>>
      /\ \/ /\ \E o \in Objects : obj[o] = "deleting" /\ obj' = [obj EXCEPT ![o] = "absent"]
            /\ UNCHANGED <<machines, event>>
         \/ obj["invalid"] = "absent" /\ machines' = FALSE /\ UNCHANGED <<obj, event>>
         \/ obj["invalid"] = "absent" /\ event' = "none" /\ UNCHANGED <<obj, machines>>
  BY DEF Collect, specVars, IInv
<1>2. /\ obj' \in [Objects -> {"absent", "present", "deleting"}]
      /\ \A u \in Objects : obj'[u] = "present" <=> obj[u] = "present"
      /\ \A u \in Objects : obj'[u] # "absent" => obj[u] # "absent"
  BY <1>1 DEF TypeOK
<1>3. TypeOK'
  <2>1. machines' \in BOOLEAN /\ (machines' => faulty')
    <3>1. machines \in BOOLEAN /\ (machines => faulty) /\ faulty \in BOOLEAN
      BY <1>1 DEF TypeOK
    <3>2. machines' \in BOOLEAN
      BY <1>1, <3>1
    <3> QED BY <1>1, <3>1, <3>2
  <2>2. event' \in {"none", "old", "new"}
    BY <1>1 DEF TypeOK
  <2> QED BY <1>1, <1>2, <2>1, <2>2 DEF TypeOK
<1>4. /\ spec \in 1..6 /\ (ip <= Len(Specs[spec]) => StepOK(spec, ip))
      /\ ip \in 1..(Len(Specs[spec]) + 1) /\ Len(Specs[spec]) \in 5..10
  BY <1>1, Here
<1>5. mode = "body" /\ ip > 1 /\ Before.op = "create" => Before.object \in Objects
  <2> SUFFICES ASSUME ip > 1, Before.op = "create" PROVE Before.object \in Objects
    OBVIOUS
  <2>1. ip - 1 \in 1..Len(Specs[spec])
    BY <1>4
  <2>2. StepOK(spec, ip - 1)
    BY <1>4, <2>1, Scripts
  <2> QED BY <2>2 DEF StepOK, Before
<1>6. tracked \subseteq Objects /\ todo \subseteq Objects \cup {"nil"}
  BY <1>1, Named DEF TypeOK, Trackable
<1>7. Made'
  BY <1>1, <1>2, <1>5, <1>6, Named DEF IInv, Made, Before
<1>8. Phases'
  BY <1>1 DEF IInv, Phases
<1>9. CanBeDeleted'
  BY <1>1, <1>2, <1>6, Named DEF IInv, CanBeDeleted, Phases
<1>10. Accounted'
  BY <1>1, <1>2 DEF IInv, Accounted, Step, Last
<1>11. EventIsTrue' /\ FaultyControllerCaught'
  BY <1>1, <1>2, Named DEF IInv, EventIsTrue, FaultyControllerCaught
<1>12. NotMissed'
  <2> SUFFICES ASSUME mode = "body", spec = 4, faulty, ip = 7 PROVE machines' \/ misled
    BY <1>1 DEF IInv, NotMissed
  <2>1. obj["invalid"] = "present"
    BY DEF IInv, Made
  <2>2. machines \/ misled
    BY DEF IInv, NotMissed
  <2> QED BY <1>1, <2>1, <2>2
<1> QED BY <1>3, <1>7, <1>8, <1>9, <1>10, <1>11, <1>12 DEF IInv

LEMMA NextIInv == IInv /\ [Next]_vars => IInv'
<1> SUFFICES ASSUME IInv, [Next]_vars PROVE IInv'
  OBVIOUS
<1>1. CASE UNCHANGED vars
  BY <1>1 DEF vars, specVars, IInv, TypeOK, Phases, Made, Accounted, CanBeDeleted, EventIsTrue,
              NotMissed, FaultyControllerCaught, Step, Before, Last
<1>2. CASE \E o \in Objects : DeleteTracked(o)
  BY <1>2, DeleteTrackedStep
<1> QED BY <1>1, <1>2, LoadStep, ReadStep, CreateStep, TrackStep, AwaitEventStep, ListStep,
           DeleteStep, BodyEndsStep, DeferredEndsStep, AfterEachStep, AwaitGoneStep,
           NextSpecStep, ReconcileStep, CollectStep DEF Next

(* All that the theorems below state follows from one inductive invariant: every
   object present is excused, or is where the rest of the spec deletes it, or is one
   that nothing but the last step of the body deletes; what a spec that has passed
   deletes is there; and an event of the machineset that is there tells the truth. *)
THEOREM InfraInvariant == Spec => []IInv
BY InitIInv, NextIInv, PTL DEF Spec

(* The values of all variables: the variable machineSet and what is deferred name
   objects of the spec or of an earlier one. *)
THEOREM InfraTypeCorrect == Spec => []TypeOK
<1>1. IInv => TypeOK
  BY DEF IInv
<1> QED BY <1>1, InfraInvariant, PTL

(* A spec leaves nothing behind but what a failure accounts for, and, of a failed one,
   the MachineHealthCheck or the invalid machineset. *)
THEOREM OnlyFailedSpecsLeaveBehind == Spec => []LeftBehindOnlyByFailure
<1>1. IInv => LeftBehindOnlyByFailure
  BY DEF IInv, Accounted, LeftBehindOnlyByFailure
<1> QED BY <1>1, InfraInvariant, PTL

(* "reject invalid machinesets" does not pass with a controller that creates machines
   for one, unless it took an old event for that of its own machineset. *)
THEOREM FaultyDoesNotPass == Spec => []FaultyControllerCaught
<1>1. IInv => FaultyControllerCaught
  BY DEF IInv
<1> QED BY <1>1, InfraInvariant, PTL

(* The cleanup of a spec that has passed fails only by a call that fails or by a wait:
   it never deletes what is not there, nor with a variable that holds nothing. *)
THEOREM CleanupFailsByFaultOnly == Spec => CleanupFailsOnlyByFault
<1> DEFINE A == verdict = "passed" /\ verdict' = "failed" =>
                  faults' > faults \/ mode = "awaitGone" \/ obj["set2"] = "deleting"
<1>1. IInv /\ [Next]_vars => [A]_vars
  <2> SUFFICES ASSUME IInv, Next, verdict = "passed", verdict' = "failed"
               PROVE  faults' > faults \/ mode = "awaitGone" \/ obj["set2"] = "deleting"
    OBVIOUS
  <2>1. mode # "body"
    BY DEF IInv, Phases
  <2>2. CASE \E o \in Objects : DeleteTracked(o)
    BY <2>2, DeleteTrackedStep
  <2>3. CASE DeferredEnds \/ AwaitGone
    BY <2>3 DEF DeferredEnds, AwaitGone
  <2>4. CASE AfterEach
    BY <2>4, AfterEachStep
  <2>5. CASE NextSpec \/ Reconcile \/ Collect
    BY <2>5 DEF NextSpec, Reconcile, Collect, specVars
  <2>6. ~(\/ LoadClient \/ BuildMachineSetParams \/ Skip \/ CreateObject \/ TrackObject
          \/ Await \/ AwaitEvent \/ ListMachines \/ DeleteObject \/ BodyEnds)
    BY <2>1 DEF LoadClient, BuildMachineSetParams, Skip, CreateObject, TrackObject, Await,
                AwaitEvent, ListMachines, DeleteObject, BodyEnds, At
  <2> QED BY <2>2, <2>3, <2>4, <2>5, <2>6 DEF Next
<1> HIDE DEF A
<1>2. Spec => [][A]_vars
  BY <1>1, InfraInvariant, PTL DEF Spec
<1> QED BY <1>2 DEF A, CleanupFailsOnlyByFault
=============================================================================
