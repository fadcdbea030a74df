---------------------- MODULE AutoscalerCleanupProofs ----------------------
(***************************************************************************)
(* The safety properties of AutoscalerCleanup for every number of          *)
(* machinesets, every choice of calls that may fail and every number of    *)
(* failures: first what the bodies of the specs guarantee as sequences of  *)
(* calls, then what that gives the interpreter that runs them.             *)
(***************************************************************************)
EXTENDS AutoscalerCleanup, SequenceTheorems, TLAPS

Calls == {"create", "track", "delete", "untrack", "await", "awaitGone", "skip"}
Ops   == [op : Calls, object : Objects \cup {NoObject}]

\* A call of this kind on this object.
Is(step, op, o) == step.op = op /\ step.object = o

(* What is asked of a body, or of a part of one. *)

\* Each object is tracked right after or right before it is created, and
\* forgotten right after its deletion, and at no other place.
Tidy(s) == \A i \in 1..Len(s) :
    /\ s[i].op \notin {"await", "skip"} => s[i].object \in Objects
    /\ s[i].op = "create" => \/ i < Len(s) /\ Is(s[i + 1], "track", s[i].object)
                             \/ i > 1 /\ Is(s[i - 1], "track", s[i].object)
    /\ s[i].op = "untrack" => i > 1 /\ Is(s[i - 1], "delete", s[i].object)
    /\ s[i].op = "track" => \/ i < Len(s) /\ Is(s[i + 1], "create", s[i].object)
                            \/ i > 1 /\ Is(s[i - 1], "create", s[i].object)
    /\ s[i].op = "delete" => i < Len(s) /\ Is(s[i + 1], "untrack", s[i].object)

Part(s)   == s \in Seq(Ops) /\ Tidy(s)
NoCA(s)   == \A i \in 1..Len(s) : ~Is(s[i], "create", ClusterAutoscaler)
OneCA(s)  == \A i, j \in 1..Len(s) :
    Is(s[i], "create", ClusterAutoscaler) /\ Is(s[j], "create", ClusterAutoscaler) => i = j
NoSkip(s) == \A i \in 1..Len(s) : s[i].op # "skip"

\* A part that neither creates the ClusterAutoscaler nor skips.
Plain(s)  == Part(s) /\ NoCA(s) /\ NoSkip(s)

LEMMA Joined ==
    ASSUME NEW s, NEW t, Part(s), Part(t)
    PROVE  /\ Part(s \o t)
           /\ NoCA(s) /\ NoCA(t) => NoCA(s \o t)
           /\ OneCA(s) /\ NoCA(t) => OneCA(s \o t)
           /\ NoCA(s) /\ OneCA(t) => OneCA(s \o t)
           /\ NoSkip(s) /\ NoSkip(t) => NoSkip(s \o t)
<1> DEFINE st == s \o t
<1>1. /\ s \in Seq(Ops) /\ t \in Seq(Ops) /\ Len(s) \in Nat /\ Len(t) \in Nat
      /\ Tidy(s) /\ Tidy(t)
  BY LenProperties DEF Part
<1>2. /\ st \in Seq(Ops) /\ Len(st) = Len(s) + Len(t)
      /\ \A i \in 1..(Len(s) + Len(t)) : st[i] = IF i <= Len(s) THEN s[i] ELSE t[i - Len(s)]
  BY <1>1, ConcatProperties
<1> HIDE DEF st
<1>3. \A i \in 1..Len(s) : i \in 1..Len(st) /\ st[i] = s[i]
  BY <1>1, <1>2
<1>4. \A i \in 1..Len(t) : Len(s) + i \in 1..Len(st) /\ st[Len(s) + i] = t[i]
  BY <1>1, <1>2
<1>5. \A i \in 1..Len(st) : i \in 1..Len(s) \/ \E j \in 1..Len(t) : i = Len(s) + j
  <2>1. ASSUME NEW i \in 1..Len(st), i \notin 1..Len(s)
        PROVE  \E j \in 1..Len(t) : i = Len(s) + j
    <3>1. i - Len(s) \in 1..Len(t) /\ i = Len(s) + (i - Len(s))
      BY <1>1, <1>2, <2>1
    <3> QED BY <3>1
  <2> QED BY <2>1
<1>6. Tidy(st)
  <2> SUFFICES ASSUME NEW i \in 1..Len(st)
               PROVE  /\ st[i].op \notin {"await", "skip"} => st[i].object \in Objects
                      /\ st[i].op = "create" =>
                            \/ i < Len(st) /\ Is(st[i + 1], "track", st[i].object)
                            \/ i > 1 /\ Is(st[i - 1], "track", st[i].object)
                      /\ st[i].op = "untrack" => i > 1 /\ Is(st[i - 1], "delete", st[i].object)
                      /\ st[i].op = "track" =>
                            \/ i < Len(st) /\ Is(st[i + 1], "create", st[i].object)
                            \/ i > 1 /\ Is(st[i - 1], "create", st[i].object)
                      /\ st[i].op = "delete" =>
                            i < Len(st) /\ Is(st[i + 1], "untrack", st[i].object)
    BY DEF Tidy
  <2>1. CASE i \in 1..Len(s)
    <3>1. st[i] = s[i] /\ (i < Len(s) => i + 1 \in 1..Len(s) /\ st[i + 1] = s[i + 1])
          /\ (i > 1 => i - 1 \in 1..Len(s) /\ st[i - 1] = s[i - 1])
      BY <1>1, <1>3, <2>1
    <3>2. i < Len(s) => i < Len(st)
      BY <1>1, <1>2, <2>1
    <3> QED BY <1>1, <2>1, <3>1, <3>2 DEF Tidy
  <2>2. CASE \E j \in 1..Len(t) : i = Len(s) + j
    <3>1. PICK j \in 1..Len(t) : i = Len(s) + j
      BY <2>2
    <3>2. /\ st[i] = t[j]
          /\ j < Len(t) => i < Len(st) /\ st[i + 1] = t[j + 1]
          /\ j > 1 => i > 1 /\ st[i - 1] = t[j - 1]
      <4>1. st[i] = t[j]
        BY <1>4, <3>1
      <4>2. ASSUME j < Len(t) PROVE i < Len(st) /\ st[i + 1] = t[j + 1]
        <5>1. j + 1 \in 1..Len(t) /\ i + 1 = Len(s) + (j + 1)
          BY <1>1, <3>1, <4>2
        <5> QED BY <1>1, <1>2, <1>4, <3>1, <4>2, <5>1
      <4>3. ASSUME j > 1 PROVE i > 1 /\ st[i - 1] = t[j - 1]
        <5>1. j - 1 \in 1..Len(t) /\ i - 1 = Len(s) + (j - 1) /\ i > 1
          BY <1>1, <3>1, <4>3
        <5> QED BY <1>4, <5>1
      <4> QED BY <4>1, <4>2, <4>3
    <3> QED BY <1>1, <3>1, <3>2 DEF Tidy
  <2> QED BY <1>5, <2>1, <2>2
<1>7. NoCA(s) /\ NoCA(t) => NoCA(st)
  BY <1>3, <1>4, <1>5 DEF NoCA
<1>8. ASSUME NoSkip(s), NoSkip(t) PROVE NoSkip(st)
  <2>1. ASSUME NEW i \in 1..Len(st) PROVE st[i].op # "skip"
    <3>1. CASE i \in 1..Len(s)
      BY <1>3, <1>8, <3>1 DEF NoSkip
    <3>2. ASSUME NEW j \in 1..Len(t), i = Len(s) + j PROVE st[i].op # "skip"
      BY <1>4, <1>8, <3>2 DEF NoSkip
    <3> QED BY <1>5, <3>1, <3>2
  <2> QED BY <2>1 DEF NoSkip
<1>9. ASSUME OneCA(s), NoCA(t) PROVE OneCA(st)
  <2>1. \A i \in 1..Len(st) : Is(st[i], "create", ClusterAutoscaler) =>
            i \in 1..Len(s) /\ st[i] = s[i]
    BY <1>3, <1>4, <1>5, <1>9 DEF NoCA
  <2> QED BY <1>9, <2>1 DEF OneCA
<1>10. ASSUME NoCA(s), OneCA(t) PROVE OneCA(st)
  <2>1. \A i \in 1..Len(st) : Is(st[i], "create", ClusterAutoscaler) =>
            \E j \in 1..Len(t) : i = Len(s) + j /\ st[i] = t[j]
    BY <1>3, <1>4, <1>5, <1>10 DEF NoCA
  <2>2. ASSUME NEW i \in 1..Len(st), NEW j \in 1..Len(st),
               Is(st[i], "create", ClusterAutoscaler), Is(st[j], "create", ClusterAutoscaler)
        PROVE  i = j
    <3>1. PICK a \in 1..Len(t) : i = Len(s) + a /\ st[i] = t[a]
      BY <2>1, <2>2
    <3>2. PICK c \in 1..Len(t) : j = Len(s) + c /\ st[j] = t[c]
      BY <2>1, <2>2
    <3> QED BY <1>10, <2>2, <3>1, <3>2 DEF OneCA
  <2> QED BY <2>2 DEF OneCA
<1> QED BY <1>2, <1>6, <1>7, <1>8, <1>9, <1>10 DEF st, Part

LEMMA PlainJoined ==
    ASSUME NEW s, NEW t, Plain(s), Plain(t) PROVE Plain(s \o t)
BY Joined DEF Plain

(* The loops. *)
LEMMA Loop ==
    ASSUME NEW kind \in {"MachineSet", "MachineAutoscaler"},
           NEW calls \in {<<"create", "track">>, <<"delete", "untrack">>,
                          <<"delete", "untrack", "awaitGone">>}
    PROVE  Plain(Each(kind, calls))
<1> DEFINE k == Len(calls)
           s == Each(kind, calls)
           turn(j) == ((j - 1) \div k) + 1
           call(j) == ((j - 1) % k) + 1
<1>1. /\ k \in {2, 3}
      /\ \A i \in 1..k : /\ calls[i] \in Calls \ {"await", "skip"}
                         /\ calls[i] = "create" => i < k /\ calls[i + 1] = "track"
                         /\ calls[i] = "untrack" => i > 1 /\ calls[i - 1] = "delete"
                         /\ calls[i] = "track" => i > 1 /\ calls[i - 1] = "create"
                         /\ calls[i] = "delete" => i < k /\ calls[i + 1] = "untrack"
  <2>1. CASE calls = <<"create", "track">>
    BY <2>1 DEF Calls
  <2>2. CASE calls = <<"delete", "untrack">>
    BY <2>2 DEF Calls
  <2>3. CASE calls = <<"delete", "untrack", "awaitGone">>
    BY <2>3 DEF Calls
  <2> QED BY <2>1, <2>2, <2>3
<1>2. \A j \in 1..(N * k) : <<kind, turn(j)>> \in Objects \ {ClusterAutoscaler}
  <2>1. \A i \in 1..N : <<kind, i>> \in Objects \ {ClusterAutoscaler}
    BY NAssumption DEF Objects, MachineSet, MachineAutoscaler, ClusterAutoscaler
  <2>2. \A j \in 1..(N * k) : turn(j) \in 1..N
    <3>1. CASE k = 2
      BY <3>1, NAssumption
    <3>2. CASE k = 3
      BY <3>2, NAssumption
    <3> QED BY <1>1, <3>1, <3>2
  <2> QED BY <2>1, <2>2
<1>3. N * k \in Nat
  BY <1>1, NAssumption
<1>4. s = [j \in 1..(N * k) |-> [op |-> calls[call(j)], object |-> <<kind, turn(j)>>]]
  BY DEF Each
<1> HIDE DEF k, s
<1>5. \A j \in 1..(N * k) :
        /\ call(j) \in 1..k
        /\ call(j) < k => j < N * k /\ turn(j + 1) = turn(j) /\ call(j + 1) = call(j) + 1
        /\ call(j) > 1 => j > 1 /\ turn(j - 1) = turn(j) /\ call(j - 1) = call(j) - 1
  <2> SUFFICES ASSUME NEW j \in 1..(N * k)
               PROVE  /\ call(j) \in 1..k
                      /\ call(j) < k => /\ j < N * k /\ turn(j + 1) = turn(j)
                                        /\ call(j + 1) = call(j) + 1
                      /\ call(j) > 1 => /\ j > 1 /\ turn(j - 1) = turn(j)
                                        /\ call(j - 1) = call(j) - 1
    OBVIOUS
  <2>1. CASE k = 2
    BY <2>1, NAssumption
  <2>2. CASE k = 3
    BY <2>2, NAssumption
  <2> QED BY <1>1, <2>1, <2>2
<1> HIDE DEF turn, call
<1>6. \A j \in 1..(N * k) : /\ s[j] = [op |-> calls[call(j)], object |-> <<kind, turn(j)>>]
                            /\ s[j] \in Ops
  BY <1>1, <1>2, <1>4, <1>5 DEF Ops
<1>7. s \in Seq(Ops) /\ Len(s) = N * k
  BY <1>3, <1>4, <1>6
<1>8. \A j \in 1..(N * k) : /\ s[j].op = calls[call(j)] /\ s[j].object = <<kind, turn(j)>>
                            /\ s[j].object \in Objects
  <2> SUFFICES ASSUME NEW j \in 1..(N * k)
               PROVE  /\ s[j].op = calls[call(j)] /\ s[j].object = <<kind, turn(j)>>
                      /\ s[j].object \in Objects
    OBVIOUS
  <2>1. s[j] = [op |-> calls[call(j)], object |-> <<kind, turn(j)>>]
    BY <1>6
  <2>2. <<kind, turn(j)>> \in Objects
    BY <1>2
  <2> QED BY ONLY <2>1, <2>2
<1>9. Tidy(s)
  <2> SUFFICES ASSUME NEW j \in 1..(N * k)
               PROVE  /\ s[j].op \notin {"await", "skip"} => s[j].object \in Objects
                      /\ s[j].op = "create" =>
                            \/ j < N * k /\ Is(s[j + 1], "track", s[j].object)
                            \/ j > 1 /\ Is(s[j - 1], "track", s[j].object)
                      /\ s[j].op = "untrack" => j > 1 /\ Is(s[j - 1], "delete", s[j].object)
                      /\ s[j].op = "track" =>
                            \/ j < N * k /\ Is(s[j + 1], "create", s[j].object)
                            \/ j > 1 /\ Is(s[j - 1], "create", s[j].object)
                      /\ s[j].op = "delete" =>
                            j < N * k /\ Is(s[j + 1], "untrack", s[j].object)
    BY <1>7 DEF Tidy
  <2>1. s[j].op = calls[call(j)] /\ s[j].object = <<kind, turn(j)>> /\ s[j].object \in Objects
    BY ONLY <1>8, j \in 1..(N * k)
  <2>2. ASSUME NEW next, call(j) < k, calls[call(j) + 1] = next
        PROVE  j < N * k /\ Is(s[j + 1], next, s[j].object)
    <3>2. j < N * k /\ turn(j + 1) = turn(j) /\ call(j + 1) = call(j) + 1
      BY <1>5, <2>2
    <3>3. j + 1 \in 1..(N * k)
      BY <1>3, <3>2
    <3>4. s[j + 1].op = calls[call(j + 1)] /\ s[j + 1].object = <<kind, turn(j + 1)>>
      BY ONLY <1>8, <3>3
    <3> QED BY ONLY <2>1, <2>2, <3>2, <3>4 DEF Is
  <2>3. ASSUME NEW last, call(j) > 1, calls[call(j) - 1] = last
        PROVE  j > 1 /\ Is(s[j - 1], last, s[j].object)
    <3>2. j > 1 /\ turn(j - 1) = turn(j) /\ call(j - 1) = call(j) - 1
      BY <1>5, <2>3
    <3>3. j - 1 \in 1..(N * k)
      BY <1>3, <3>2
    <3>4. s[j - 1].op = calls[call(j - 1)] /\ s[j - 1].object = <<kind, turn(j - 1)>>
      BY ONLY <1>8, <3>3
    <3> QED BY ONLY <2>1, <2>3, <3>2, <3>4 DEF Is
  <2>4. /\ s[j].op = "create" => call(j) < k /\ calls[call(j) + 1] = "track"
        /\ s[j].op = "untrack" => call(j) > 1 /\ calls[call(j) - 1] = "delete"
        /\ s[j].op = "track" => call(j) > 1 /\ calls[call(j) - 1] = "create"
        /\ s[j].op = "delete" => call(j) < k /\ calls[call(j) + 1] = "untrack"
    BY <1>1, <1>5, <2>1
  <2> QED BY ONLY <2>1, <2>2, <2>3, <2>4
<1>10. NoCA(s)
  BY <1>2, <1>7, <1>8 DEF NoCA, Is
<1>11. NoSkip(s)
  BY <1>1, <1>5, <1>7, <1>8 DEF NoSkip
<1> QED BY <1>7, <1>9, <1>10, <1>11 DEF s, Plain, Part

(* Two calls for one object. *)
LEMMA Pair ==
    ASSUME NEW o \in Objects,
           NEW op \in Calls, NEW next \in Calls,
           <<op, next>> \in {<<"create", "track">>, <<"track", "create">>, <<"delete", "untrack">>}
    PROVE  LET s == Op(op, o) \o Op(next, o)
           IN  /\ Part(s) /\ NoSkip(s) /\ OneCA(s)
               /\ (op = "delete" \/ o # ClusterAutoscaler) => NoCA(s)
<1> DEFINE s == Op(op, o) \o Op(next, o)
<1>1. /\ s \in Seq(Ops) /\ Len(s) = 2
      /\ s[1] = [op |-> op, object |-> o] /\ s[2] = [op |-> next, object |-> o]
  BY DEF Op, Ops
<1> HIDE DEF s
<1>2. /\ s[1].op = op /\ s[1].object = o /\ s[2].op = next /\ s[2].object = o
      /\ \A i \in 1..Len(s) : i = 1 \/ i = 2
  BY <1>1
<1>3. \/ op = "create" /\ next = "track"
      \/ op = "track" /\ next = "create"
      \/ op = "delete" /\ next = "untrack"
  OBVIOUS
<1>4. Tidy(s)
  <2>1. 1 < Len(s) /\ 2 > 1 /\ s[1 + 1] = s[2] /\ s[2 - 1] = s[1]
    BY <1>1
  <2> QED BY <1>2, <1>3, <2>1 DEF Tidy, Is
<1>5. NoSkip(s) /\ OneCA(s) /\ ((op = "delete" \/ o # ClusterAutoscaler) => NoCA(s))
  BY <1>2, <1>3 DEF NoSkip, OneCA, NoCA, Is
<1> QED BY <1>1, <1>4, <1>5 DEF s, Part

(* The steps of one object. *)
LEMMA SomeObjects ==
    /\ ClusterAutoscaler \in Objects /\ Workload \in Objects /\ MachineSet(0) \in Objects
    /\ MachineAutoscaler(0) \in Objects /\ NoObject \notin Objects
    /\ Workload # ClusterAutoscaler /\ MachineSet(0) # ClusterAutoscaler
    /\ MachineAutoscaler(0) # ClusterAutoscaler
BY NAssumption DEF Objects, MachineSet, MachineAutoscaler, ClusterAutoscaler, Workload, NoObject

LEMMA Steps ==
    /\ Plain(Scaling)
    /\ \A o \in Objects : /\ Plain(Delete(o)) /\ Plain(Gone(o))
                          /\ Part(Create(o)) /\ OneCA(Create(o)) /\ NoSkip(Create(o))
                          /\ Plain(TrackCreate(o)) \/ o = ClusterAutoscaler
                          /\ Plain(Create(o)) \/ o = ClusterAutoscaler
    /\ Part(Op("skip", NoObject)) /\ NoCA(Op("skip", NoObject))
<1> USE SomeObjects DEF Plain, Part, Ops, Calls, Tidy, NoCA, OneCA, NoSkip, Is, Op
<1>1. Plain(Scaling)
  BY DEF Scaling
<1>2. ASSUME NEW o \in Objects
      PROVE  /\ Plain(Delete(o)) /\ Plain(Gone(o))
             /\ Part(Create(o)) /\ OneCA(Create(o)) /\ NoSkip(Create(o))
             /\ Plain(TrackCreate(o)) \/ o = ClusterAutoscaler
             /\ Plain(Create(o)) \/ o = ClusterAutoscaler
  <2>1. Plain(Delete(o))
    <3> HIDE DEF Plain, Part, Ops, Tidy, NoCA, OneCA, NoSkip, Is, Op
    <3> QED BY Pair DEF Delete, Plain
  <2>2. Plain(Gone(o))
    BY DEF Gone
  <2> HIDE DEF Part, Ops, Tidy, NoCA, OneCA, NoSkip, Is, Op
  <2>3. Part(Create(o)) /\ OneCA(Create(o)) /\ NoSkip(Create(o))
    BY Pair DEF Create
  <2>4. CASE o # ClusterAutoscaler
    <3>1. Plain(TrackCreate(o)) /\ Plain(Create(o))
      BY <2>4, Pair DEF TrackCreate, Create
    <3> HIDE DEF Plain
    <3> QED BY <2>1, <2>2, <2>3, <3>1
  <2> HIDE DEF Plain
  <2> QED BY <2>1, <2>2, <2>3, <2>4
<1>3. Part(Op("skip", NoObject)) /\ NoCA(Op("skip", NoObject))
  OBVIOUS
<1> HIDE DEF Plain, Part, Ops, Calls, Tidy, NoCA, OneCA, NoSkip, Is, Op
<1> QED BY <1>1, <1>2, <1>3

(* The bodies. *)
Body(s) == /\ Part(s) /\ OneCA(s)
           /\ Len(s) >= 1 /\ Is(s[Len(s)], "awaitGone", ClusterAutoscaler)

\* Up to the creation of the ClusterAutoscaler and beyond it.
LEMMA UpToCA ==
    ASSUME NEW s, Part(s), NoCA(s)
    PROVE  LET c == s \o Create(ClusterAutoscaler)
           IN  Part(c) /\ OneCA(c) /\ (NoSkip(s) => NoSkip(c))
BY Joined, Steps, SomeObjects

LEMMA Beyond ==
    ASSUME NEW s, NEW t, Part(s), OneCA(s), Plain(t)
    PROVE  Part(s \o t) /\ OneCA(s \o t) /\ (NoSkip(s) => NoSkip(s \o t))
BY Joined DEF Plain

\* What both bodies end with.
LEMMA Ending ==
    ASSUME NEW s, Part(s), OneCA(s)
    PROVE  LET e == s \o Delete(ClusterAutoscaler) \o Gone(ClusterAutoscaler)
           IN  Body(e) /\ (NoSkip(s) => NoSkip(e))
<1> DEFINE d == s \o Delete(ClusterAutoscaler)
           e == d \o Gone(ClusterAutoscaler)
<1>1. Part(d) /\ OneCA(d) /\ (NoSkip(s) => NoSkip(d))
  BY Beyond, Steps, SomeObjects
<1> HIDE DEF d
<1>2. Part(e) /\ OneCA(e) /\ (NoSkip(d) => NoSkip(e))
  BY <1>1, Beyond, Steps, SomeObjects
<1>3. Gone(ClusterAutoscaler) \in Seq(Ops) /\ d \in Seq(Ops)
  BY <1>1, Steps, SomeObjects DEF Plain, Part
<1>4. /\ Len(Gone(ClusterAutoscaler)) = 1
      /\ Is(Gone(ClusterAutoscaler)[1], "awaitGone", ClusterAutoscaler)
  BY DEF Gone, Op, Is
<1> HIDE DEF Gone
<1>5. Len(d) \in Nat /\ Len(e) = Len(d) + 1 /\ e[Len(d) + 1] = Gone(ClusterAutoscaler)[1]
  BY <1>3, <1>4, LenProperties, ConcatProperties
<1>6. Len(e) >= 1 /\ e[Len(e)] = Gone(ClusterAutoscaler)[1]
  BY <1>5
<1> HIDE DEF e
<1>7. Body(e) /\ (NoSkip(s) => NoSkip(e))
  BY <1>1, <1>2, <1>4, <1>6 DEF Body
<1> QED BY <1>7 DEF e, d

LEMMA Bodies ==
    Len(Specs) = 2 /\ (\A n \in 1..2 : Body(Specs[n])) /\ NoSkip(Specs[1])
<1>1. Body(ScaleUpAndDown) /\ NoSkip(ScaleUpAndDown)
  <2> DEFINE a == Each("MachineSet", <<"create", "track">>) \o Scaling
                    \o Each("MachineAutoscaler", <<"create", "track">>)
             c == a \o Create(ClusterAutoscaler)
             w == c \o Create(Workload) \o Scaling \o Delete(Workload) \o Scaling
             e == w \o Each("MachineAutoscaler", <<"delete", "untrack">>)
                    \o Each("MachineSet", <<"delete", "untrack", "awaitGone">>)
  <2>1. Plain(a)
    BY Loop, PlainJoined, Steps
  <2> HIDE DEF a
  <2>2. Part(c) /\ OneCA(c) /\ NoSkip(c)
    BY <2>1, UpToCA DEF Plain
  <2> HIDE DEF c
  <2>3. Part(w) /\ OneCA(w) /\ NoSkip(w)
    <3>1. Plain(Create(Workload)) /\ Plain(Delete(Workload)) /\ Plain(Scaling)
      BY Steps, SomeObjects
    <3> QED BY <2>2, <3>1, Beyond
  <2> HIDE DEF w
  <2>4. Part(e) /\ OneCA(e) /\ NoSkip(e)
    <3>1. /\ Plain(Each("MachineAutoscaler", <<"delete", "untrack">>))
          /\ Plain(Each("MachineSet", <<"delete", "untrack", "awaitGone">>))
      BY Loop
    <3> QED BY <2>3, <3>1, Beyond
  <2> HIDE DEF e
  <2>5. Body(e \o Delete(ClusterAutoscaler) \o Gone(ClusterAutoscaler))
        /\ NoSkip(e \o Delete(ClusterAutoscaler) \o Gone(ClusterAutoscaler))
    BY <2>4, Ending
  <2> QED BY <2>5 DEF ScaleUpAndDown, e, w, c, a
<1>2. Body(ScalesFromToZero)
  <2> DEFINE a == Op("skip", NoObject) \o Create(MachineSet(0)) \o Scaling
             c == a \o Create(ClusterAutoscaler)
             w == c \o Create(MachineAutoscaler(0)) \o TrackCreate(Workload) \o Scaling
                    \o Delete(Workload) \o Scaling
  <2>1. Part(a) /\ NoCA(a)
    <3>1. /\ Part(Create(MachineSet(0))) /\ NoCA(Create(MachineSet(0)))
          /\ Part(Scaling) /\ NoCA(Scaling)
          /\ Part(Op("skip", NoObject)) /\ NoCA(Op("skip", NoObject))
      BY Steps, SomeObjects DEF Plain
    <3> QED BY <3>1, Joined
  <2> HIDE DEF a
  <2>2. Part(c) /\ OneCA(c)
    BY <2>1, UpToCA
  <2> HIDE DEF c
  <2>3. Part(w) /\ OneCA(w)
    <3>1. /\ Plain(Create(MachineAutoscaler(0))) /\ Plain(TrackCreate(Workload))
          /\ Plain(Delete(Workload)) /\ Plain(Scaling)
      BY Steps, SomeObjects
    <3> QED BY <2>2, <3>1, Beyond
  <2> HIDE DEF w
  <2>4. Body(w \o Delete(ClusterAutoscaler) \o Gone(ClusterAutoscaler))
    BY <2>3, Ending
  <2> QED BY <2>4 DEF ScalesFromToZero, w, c, a
<1> HIDE DEF ScaleUpAndDown, ScalesFromToZero
<1> QED BY <1>1, <1>2 DEF Specs

-----------------------------------------------------------------------------
(* The inductive invariant. *)

\* The step a body is at, and the one before it.
Now    == Specs[spec][ip]
Before == Specs[spec][ip - 1]

\* What the mode says of the other variables.
Phases ==
    /\ mode = "before" => ip = 1
    /\ mode \in {"before", "body"} => todo = {}
    /\ mode \in {"before", "ended"} => owned = {}
    /\ mode = "afterEach" => verdict # "running"
    /\ verdict = "skipped" => spec = Len(Specs)

\* What a body has created and not deleted it has tracked, or is about to.
BodyTracks ==
    mode = "body" =>
        \A o \in owned : o \in cleanup \/ (ip <= Len(Specs[spec]) /\ Is(Now, "track", o))

\* What the step just taken has done.
JustDone ==
    mode = "body" /\ ip > 1 =>
        /\ Before.op = "track" => Before.object \in cleanup
        /\ Before.op = "create" => Before.object \in owned
        /\ Before.op = "delete" => Before.object \notin owned
        /\ Is(Before, "awaitGone", ClusterAutoscaler) /\ ~misread =>
               obj[ClusterAutoscaler] = "absent"

\* A body has tracked no more than it owns, is about to create or has just deleted.
TracksNoMore ==
    mode = "body" =>
        \A o \in cleanup : \/ o \in owned
                           \/ /\ ip <= Len(Specs[spec])
                              /\ Is(Now, "create", o) \/ Is(Now, "untrack", o)

\* What AfterEach has given up it has excused or stranded, and it finds all that
\* it deletes unless a call has failed or been refused.
AfterEachDeletes ==
    mode = "afterEach" => /\ owned \subseteq todo \cup excused \cup stranded
                          /\ hurt \/ refused \/ todo \subseteq owned

\* Every object is somebody's; a spec owns only what there is.
Accounted ==
    /\ \A o \in Objects : obj[o] = "present" => o \in owned \cup excused \cup stranded
    /\ \A o \in owned : obj[o] = "present"
    /\ stranded = {} \/ refused

\* With --failFast the name is free until the spec takes it.
NameIsFree ==
    failFast /\ ~misread =>
        \/ mode \in {"afterEach", "ended"}
        \/ obj[ClusterAutoscaler] = "absent"
        \/ mode = "body"
             /\ \E i \in 1..(ip - 1) : Is(Specs[spec][i], "create", ClusterAutoscaler)

IInv ==
    /\ TypeOK /\ Phases /\ BodyTracks /\ JustDone /\ TracksNoMore /\ AfterEachDeletes
    /\ Accounted /\ NameIsFree
    /\ OwnedIsTracked /\ PassedMeansCAGone

LEMMA Here ==
    ASSUME TypeOK, ip <= Len(Specs[spec])
    PROVE  /\ Now \in Ops
           /\ Now.op \notin {"await", "skip"} => Now.object \in Objects
           /\ Now.op = "create" =>
                 \/ ip < Len(Specs[spec]) /\ Is(Specs[spec][ip + 1], "track", Now.object)
                 \/ ip > 1 /\ Is(Before, "track", Now.object)
           /\ Now.op = "untrack" => ip > 1 /\ Is(Before, "delete", Now.object)
           /\ Now.op = "track" =>
                 \/ ip < Len(Specs[spec]) /\ Is(Specs[spec][ip + 1], "create", Now.object)
                 \/ ip > 1 /\ Is(Before, "create", Now.object)
           /\ Now.op = "delete" =>
                 ip < Len(Specs[spec]) /\ Is(Specs[spec][ip + 1], "untrack", Now.object)
           /\ ip < Len(Specs[spec]) => ip + 1 <= Len(Specs[spec])
           /\ Now.op = "skip" => spec = 2
           /\ \A i \in 1..(ip - 1) : ~(/\ Is(Specs[spec][i], "create", ClusterAutoscaler)
                                      /\ Is(Now, "create", ClusterAutoscaler))
<1> DEFINE s == Specs[spec]
<1>1. spec \in 1..2 /\ Body(s) /\ (spec = 1 => NoSkip(s))
  BY Bodies DEF TypeOK
<1>2. ip \in 1..(Len(s) + 1) /\ ip <= Len(s)
  BY DEF TypeOK
<1> HIDE DEF s
<1>3. s \in Seq(Ops) /\ Tidy(s) /\ OneCA(s) /\ Len(s) \in Nat
  BY <1>1 DEF Body, Part
<1>4. ip \in 1..Len(s) /\ \A i \in 1..(ip - 1) : i \in 1..Len(s) /\ i # ip
  BY <1>2, <1>3
<1>5. s[ip] \in Ops
  BY <1>3, <1>4
<1>6. /\ s[ip].op \notin {"await", "skip"} => s[ip].object \in Objects
      /\ s[ip].op = "create" => \/ ip < Len(s) /\ Is(s[ip + 1], "track", s[ip].object)
                                \/ ip > 1 /\ Is(s[ip - 1], "track", s[ip].object)
      /\ s[ip].op = "untrack" => ip > 1 /\ Is(s[ip - 1], "delete", s[ip].object)
      /\ s[ip].op = "track" => \/ ip < Len(s) /\ Is(s[ip + 1], "create", s[ip].object)
                               \/ ip > 1 /\ Is(s[ip - 1], "create", s[ip].object)
      /\ s[ip].op = "delete" => ip < Len(s) /\ Is(s[ip + 1], "untrack", s[ip].object)
  BY <1>3, <1>4 DEF Tidy
<1>9. ip < Len(s) => ip + 1 <= Len(s)
  BY <1>3, <1>4
<1>7. s[ip].op = "skip" => spec = 2
  BY <1>1, <1>3, <1>4 DEF NoSkip
<1>8. \A i \in 1..(ip - 1) : ~(/\ Is(s[i], "create", ClusterAutoscaler)
                              /\ Is(s[ip], "create", ClusterAutoscaler))
  BY <1>3, <1>4 DEF OneCA
<1> QED BY <1>5, <1>6, <1>7, <1>8, <1>9 DEF s, Now, Before

\* A step of a body that leaves it for AfterEach.
LEMMA LeaveStep ==
    ASSUME IInv, mode = "body", NEW v \in {"passed", "failed", "skipped"}, Leave(v),
           v = "skipped" => spec = 2,
           v = "passed" /\ ~misread' => obj'[ClusterAutoscaler] = "absent",
           obj' \in [Objects -> {"absent", "present", "deleting"}],
           faults' \in 0..MaxFaults, excused' \subseteq Objects, misread' \in BOOLEAN,
           owned' \subseteq owned, owned' \subseteq cleanup, Accounted',
           stranded' = stranded, hurt' \in BOOLEAN, refused' \in BOOLEAN,
           hurt' \/ refused' \/ cleanup \subseteq owned'
    PROVE  IInv'
<1> USE DEF Leave
<1>1. TypeOK'
  BY DEF IInv, TypeOK
<1>2. Phases'
  BY Bodies DEF Phases
<1>3. BodyTracks' /\ JustDone' /\ TracksNoMore' /\ NameIsFree'
  BY DEF BodyTracks, JustDone, TracksNoMore, NameIsFree
<1>4. AfterEachDeletes' /\ OwnedIsTracked' /\ PassedMeansCAGone'
  BY DEF AfterEachDeletes, OwnedIsTracked, PassedMeansCAGone
<1> QED BY <1>1, <1>2, <1>3, <1>4 DEF IInv

\* A step of a body that goes on to the next one.
LEMMA ContinueStep ==
    ASSUME IInv, mode = "body", ip <= Len(Specs[spec]), Continue,
           obj' \in [Objects -> {"absent", "present", "deleting"}],
           faults' \in 0..MaxFaults, excused' \subseteq Objects, misread' \in BOOLEAN,
           cleanup' \subseteq Objects, owned' \subseteq Objects,
           \A o \in owned' : o \in cleanup' \/ (/\ ip + 1 <= Len(Specs[spec])
                                               /\ Is(Specs[spec][ip + 1], "track", o)),
           Now.op = "track" => Now.object \in cleanup',
           Now.op = "create" => Now.object \in owned',
           Now.op = "delete" => Now.object \notin owned',
           \A o \in cleanup' : \/ o \in owned'
                               \/ /\ ip + 1 <= Len(Specs[spec])
                                  /\ \/ Is(Specs[spec][ip + 1], "create", o)
                                     \/ Is(Specs[spec][ip + 1], "untrack", o),
           UNCHANGED blame, hurt' \in BOOLEAN,
           Is(Now, "awaitGone", ClusterAutoscaler) /\ ~misread' =>
               obj'[ClusterAutoscaler] = "absent",
           Accounted', misread => misread',
           obj[ClusterAutoscaler] = "absent" =>
               \/ obj'[ClusterAutoscaler] = "absent"
               \/ Is(Now, "create", ClusterAutoscaler)
    PROVE  IInv'
<1>1. /\ failFast' = failFast /\ spec' = spec /\ mode' = "body" /\ todo' = todo
      /\ verdict' = verdict /\ ip' = ip + 1
  BY DEF Continue
<1>2. ip \in 1..(Len(Specs[spec]) + 1) /\ spec \in 1..2
  BY Bodies DEF IInv, TypeOK
<1>3. Len(Specs[spec]) \in Nat
  BY <1>2, Bodies DEF Body, Part
<1>4. ip' \in 1..(Len(Specs[spec]) + 1) /\ ip' - 1 = ip /\ ip' > 1
  BY <1>1, <1>2, <1>3
<1>5. Now' = Specs[spec][ip + 1] /\ Before' = Now
  BY <1>1, <1>4 DEF Now, Before
<1>6. todo = {}
  BY DEF IInv, Phases
<1>7. TypeOK'
  BY <1>1, <1>4, <1>6 DEF IInv, TypeOK, blame
<1>8. Phases'
  BY <1>1, <1>6 DEF IInv, Phases
<1>9. BodyTracks' /\ TracksNoMore'
  BY <1>1, <1>5 DEF BodyTracks, TracksNoMore
<1>10. JustDone'
  BY <1>1, <1>4, <1>5 DEF JustDone
<1>11. AfterEachDeletes' /\ OwnedIsTracked' /\ PassedMeansCAGone'
  BY <1>1 DEF AfterEachDeletes, OwnedIsTracked, PassedMeansCAGone
<1>12. NameIsFree'
  <2> SUFFICES ASSUME failFast', ~misread', obj'[ClusterAutoscaler] # "absent"
               PROVE  \E i \in 1..(ip' - 1) : Is(Specs[spec'][i], "create", ClusterAutoscaler)
    BY <1>1 DEF NameIsFree
  <2>1. CASE obj[ClusterAutoscaler] = "absent"
    <3>1. Is(Specs[spec'][ip], "create", ClusterAutoscaler)
      BY <1>1, <2>1 DEF Now
    <3>2. ip \in 1..(ip' - 1)
      BY <1>2, <1>3, <1>4
    <3> QED BY <3>1, <3>2
  <2>2. CASE obj[ClusterAutoscaler] # "absent"
    <3>1. PICK i \in 1..(ip - 1) : Is(Specs[spec][i], "create", ClusterAutoscaler)
      BY <1>1, <2>2 DEF IInv, NameIsFree
    <3>2. i \in 1..(ip' - 1)
      <4>1. ip' = ip + 1 /\ ip \in Int
        BY <1>1, <1>2
      <4> QED BY ONLY <4>1, i \in 1..(ip - 1)
    <3> QED BY <1>1, <3>1, <3>2
  <2> QED BY <2>1, <2>2
<1> QED BY <1>7, <1>8, <1>9, <1>10, <1>11, <1>12 DEF IInv

LEMMA FaultInBounds ==
    ASSUME TypeOK, NEW call, Fault(call) PROVE faults' \in 0..MaxFaults /\ hurt'
BY FaultsAssumption DEF TypeOK, Fault

LEMMA InitIInv == Init => IInv
<1> SUFFICES ASSUME Init PROVE IInv
  OBVIOUS
<1> USE DEF Init
<1>1. Len(Specs) = 2 /\ Len(Specs[1]) \in Nat
  BY Bodies DEF Body, Part
<1>2. TypeOK
  <2>1. spec \in 1..Len(Specs) /\ ip \in 1..(Len(Specs[spec]) + 1)
    BY <1>1
  <2>2. obj \in [Objects -> {"absent", "present", "deleting"}]
    OBVIOUS
  <2>3. failFast \in BOOLEAN /\ hurt \in BOOLEAN /\ refused \in BOOLEAN /\ misread \in BOOLEAN
    OBVIOUS
  <2>4. /\ mode \in {"before", "body", "afterEach", "ended"}
        /\ cleanup \subseteq Objects /\ todo \subseteq cleanup
        /\ verdict \in {"running", "passed", "failed", "skipped"}
        /\ faults \in 0..MaxFaults
        /\ excused \subseteq Objects /\ stranded \subseteq Objects /\ owned \subseteq Objects
    BY FaultsAssumption
  <2> QED BY ONLY <2>1, <2>2, <2>3, <2>4 DEF TypeOK
<1>3. Phases /\ BodyTracks /\ JustDone /\ TracksNoMore /\ AfterEachDeletes /\ OwnedIsTracked
      /\ PassedMeansCAGone
  BY DEF Phases, BodyTracks, JustDone, TracksNoMore, AfterEachDeletes, OwnedIsTracked,
         PassedMeansCAGone
<1>4. Accounted /\ NameIsFree
  BY SomeObjects DEF Accounted, NameIsFree
<1> QED BY <1>2, <1>3, <1>4 DEF IInv

-----------------------------------------------------------------------------
(* One lemma per action. *)

LEMMA BeforeEachStep == IInv /\ BeforeEach => IInv'
<1> SUFFICES ASSUME IInv, BeforeEach PROVE IInv'
  OBVIOUS
<1>1. /\ mode = "before" /\ owned = {} /\ owned' = {} /\ ip = 1 /\ ip' = 1 /\ todo = {}
      /\ mode' \in {"body", "afterEach"} /\ spec' = spec /\ failFast' = failFast
      /\ misread' = misread /\ obj' = obj /\ excused' = excused /\ UNCHANGED blame
      /\ \/ mode' = "body" /\ cleanup' = {} /\ hurt' = hurt
         \/ mode' = "afterEach" /\ hurt' = TRUE
  BY DEF BeforeEach, IInv, Phases, Fault
<1>2. faults' \in 0..MaxFaults
  BY FaultInBounds DEF BeforeEach, IInv, TypeOK
<1>3. TypeOK'
  BY <1>1, <1>2 DEF BeforeEach, IInv, TypeOK, blame
<1>4. Phases'
  BY <1>1 DEF BeforeEach, IInv, Phases
<1>5. BodyTracks' /\ JustDone' /\ TracksNoMore' /\ AfterEachDeletes'
  BY <1>1 DEF BodyTracks, JustDone, TracksNoMore, AfterEachDeletes
<1>6. Accounted'
  BY <1>1 DEF IInv, Accounted, blame
<1>7. NameIsFree'
  BY <1>1 DEF IInv, NameIsFree
<1>8. OwnedIsTracked' /\ PassedMeansCAGone'
  BY <1>1 DEF BeforeEach, OwnedIsTracked, PassedMeansCAGone
<1> QED BY <1>3, <1>4, <1>5, <1>6, <1>7, <1>8 DEF IInv

\* Except at a step that tracks it, a body has tracked what it owns.
LEMMA Tracked ==
    ASSUME IInv, mode = "body", ip <= Len(Specs[spec]) => Now.op # "track"
    PROVE  owned \subseteq cleanup
BY DEF IInv, BodyTracks, Is

\* Where it creates nothing and has deleted nothing, it owns what it has tracked.
LEMMA Owns ==
    ASSUME IInv, mode = "body",
           ip <= Len(Specs[spec]) => Now.op \notin {"create", "untrack"}
    PROVE  cleanup \subseteq owned
BY DEF IInv, TracksNoMore, Is

LEMMA CreateStep == IInv /\ CreateObject => IInv'
<1> SUFFICES ASSUME IInv, CreateObject PROVE IInv'
  OBVIOUS
<1>1. TypeOK /\ mode = "body" /\ ip <= Len(Specs[spec]) /\ Now.op = "create"
      /\ Object = Now.object /\ misread' = misread
  BY DEF CreateObject, At, Object, Now, IInv
<1>2. Object \in Objects /\ owned \subseteq cleanup
  BY <1>1, Here, Tracked
<1>3. ASSUME obj[Object] = "absent", obj' = [obj EXCEPT ![Object] = "present"],
             owned' = owned \cup {Object}, Continue, UNCHANGED <<cleanup, faults, hurt, excused, blame>>
      PROVE  IInv'
  <2>1. \/ ip < Len(Specs[spec]) /\ Is(Specs[spec][ip + 1], "track", Object)
        \/ Object \in cleanup
    <3>1. CASE ip < Len(Specs[spec]) /\ Is(Specs[spec][ip + 1], "track", Object)
      BY <3>1
    <3>2. CASE ip > 1 /\ Is(Before, "track", Object)
      BY <1>1, <3>2 DEF IInv, JustDone, Is
    <3> QED BY <1>1, <3>1, <3>2, Here
  <2>2. \A o \in owned' : o \in cleanup' \/ (/\ ip + 1 <= Len(Specs[spec])
                                          /\ Is(Specs[spec][ip + 1], "track", o))
    <3>1. ip < Len(Specs[spec]) => ip + 1 <= Len(Specs[spec])
      <4>1. spec \in 1..2 /\ ip \in Nat
        BY <1>1, Bodies DEF TypeOK
      <4>2. Len(Specs[spec]) \in Nat
        BY <4>1, Bodies DEF Body, Part
      <4> QED BY <4>1, <4>2
    <3> QED BY <1>2, <1>3, <2>1, <3>1
  <2>3. /\ obj' \in [Objects -> {"absent", "present", "deleting"}]
        /\ faults' \in 0..MaxFaults /\ excused' \subseteq Objects /\ misread' \in BOOLEAN
        /\ cleanup' \subseteq Objects /\ owned' \subseteq Objects /\ hurt' \in BOOLEAN
    BY <1>1, <1>2, <1>3 DEF TypeOK
  <2>4. Accounted'
    BY <1>1, <1>2, <1>3 DEF IInv, Accounted, TypeOK, blame
  <2>7. cleanup' \subseteq owned'
    BY <1>1, <1>3 DEF IInv, TracksNoMore, Is
  <2>5. obj[ClusterAutoscaler] = "absent" =>
           obj'[ClusterAutoscaler] = "absent" \/ Is(Now, "create", ClusterAutoscaler)
    BY <1>1, <1>3, SomeObjects DEF Is, TypeOK
  <2>6. Now.op # "track" /\ Now.op # "delete" /\ ~Is(Now, "awaitGone", ClusterAutoscaler)
    BY <1>1 DEF Is
  <2> QED BY <1>1, <1>3, <2>2, <2>3, <2>4, <2>5, <2>6, <2>7, ContinueStep
<1>4. ASSUME \/ /\ obj[Object] # "absent"
                /\ refused' = (refused \/ Object \in cleanup)
                /\ UNCHANGED <<obj, faults, hurt, excused>>
             \/ Fault("create") /\ UNCHANGED <<obj, excused, refused>>
             \/ /\ Fault("lost") /\ obj[Object] = "absent"
                /\ obj' = [obj EXCEPT ![Object] = "present"]
                /\ excused' = excused \cup {Object}
                /\ UNCHANGED refused,
             Leave("failed"), UNCHANGED <<owned, stranded>>
      PROVE  IInv'
  <2>1. faults' \in 0..MaxFaults /\ hurt' \in BOOLEAN
    BY <1>1, <1>4, FaultInBounds DEF TypeOK, Fault
  <2>2. /\ obj' \in [Objects -> {"absent", "present", "deleting"}]
        /\ excused' \subseteq Objects /\ misread' \in BOOLEAN
    BY <1>1, <1>2, <1>4 DEF TypeOK
  <2>4. refused' \in BOOLEAN /\ (refused => refused')
    <3>1. refused \in BOOLEAN
      BY <1>1 DEF TypeOK
    <3>2. refused' = (refused \/ Object \in cleanup) \/ refused' = refused
      BY <1>4
    <3>3. ASSUME refused' = (refused \/ Object \in cleanup)
          PROVE  refused' \in BOOLEAN /\ (refused => refused')
      BY ONLY <3>3, Zenon
    <3> QED BY <3>1, <3>2, <3>3, Zenon
  <2>3. Accounted'
    BY <1>1, <1>2, <1>4, <2>4 DEF IInv, Accounted, TypeOK
  <2>5. hurt' \/ refused' \/ cleanup \subseteq owned'
    <3>1. cleanup \subseteq owned \cup {Object}
      BY <1>1 DEF IInv, TracksNoMore, Is
    <3>2. Object \notin cleanup => cleanup \subseteq owned
      BY <3>1
    <3> QED BY <1>4, <3>2, FaultInBounds, <1>1
  <2> QED BY <1>1, <1>2, <1>4, <2>1, <2>2, <2>3, <2>4, <2>5, LeaveStep
<1> QED BY <1>3, <1>4 DEF CreateObject, blame

\* A call of client.Delete.
LEMMA AcceptedStep ==
    ASSUME IInv, NEW o \in Objects, Accepted(o)
    PROVE  /\ obj' \in [Objects -> {"absent", "present", "deleting"}]
           /\ owned' = owned \ {o}
           /\ excused \subseteq excused' /\ UNCHANGED blame => Accounted'
           /\ obj[ClusterAutoscaler] = "absent" => obj'[ClusterAutoscaler] = "absent"
<1>1. obj' \in [Objects -> {"absent", "present", "deleting"}]
  BY DEF IInv, TypeOK, Accepted
<1>2. excused \subseteq excused' /\ UNCHANGED blame => Accounted'
  BY DEF IInv, TypeOK, Accepted, Accounted, blame
<1>3. obj[ClusterAutoscaler] = "absent" => obj'[ClusterAutoscaler] = "absent"
  BY SomeObjects DEF IInv, TypeOK, Accepted
<1> QED BY <1>1, <1>2, <1>3 DEF Accepted

LEMMA RejectedStep ==
    ASSUME IInv, NEW o \in Objects, Rejected(o)
    PROVE  /\ obj' \in [Objects -> {"absent", "present", "deleting"}]
           /\ owned' \subseteq owned /\ faults' \in 0..MaxFaults /\ hurt' \in BOOLEAN
           /\ hurt' \/ (obj[o] = "absent" /\ owned' = owned /\ hurt' = hurt)
           /\ /\ excused \subseteq excused' /\ stranded \subseteq stranded'
              /\ stranded' = {} \/ refused'
              => Accounted'
           /\ obj[ClusterAutoscaler] = "absent" => obj'[ClusterAutoscaler] = "absent"
<1>1. CASE Accepted(o) /\ Fault("delete")
  BY <1>1, AcceptedStep, FaultInBounds DEF IInv, TypeOK, Accounted, Accepted, Fault
<1>2. CASE /\ UNCHANGED <<obj, owned>>
           /\ (UNCHANGED <<faults, hurt>> /\ obj[o] = "absent") \/ Fault("delete")
  BY <1>2, FaultInBounds DEF IInv, TypeOK, Accounted, Fault
<1> QED BY <1>1, <1>2 DEF Rejected

LEMMA DeleteStep == IInv /\ DeleteObject => IInv'
<1> SUFFICES ASSUME IInv, DeleteObject PROVE IInv'
  OBVIOUS
<1>1. TypeOK /\ mode = "body" /\ ip <= Len(Specs[spec]) /\ Now.op = "delete"
      /\ Object = Now.object /\ UNCHANGED <<excused, blame, misread>>
  BY DEF DeleteObject, At, Object, Now, IInv
<1>2. Object \in Objects /\ owned \subseteq cleanup /\ cleanup \subseteq owned
  BY <1>1, Here, Tracked, Owns
<1>3. /\ cleanup \subseteq Objects /\ owned \subseteq Objects
      /\ excused' \subseteq Objects /\ misread' \in BOOLEAN
  BY <1>1 DEF TypeOK
<1>4. ASSUME Accepted(Object), Continue, UNCHANGED <<cleanup, faults, hurt>> PROVE IInv'
  <2>1. /\ obj' \in [Objects -> {"absent", "present", "deleting"}]
        /\ owned' = owned \ {Object} /\ Accounted'
        /\ obj[ClusterAutoscaler] = "absent" => obj'[ClusterAutoscaler] = "absent"
    BY <1>1, <1>2, <1>4, AcceptedStep
  <2>2. owned' \subseteq cleanup' /\ owned' \subseteq Objects /\ cleanup' \subseteq Objects
        /\ faults' \in 0..MaxFaults /\ hurt' \in BOOLEAN
    BY <1>1, <1>2, <1>3, <1>4, <2>1 DEF TypeOK
  <2>4. \A o \in cleanup' : \/ o \in owned'
                            \/ /\ ip + 1 <= Len(Specs[spec])
                               /\ Is(Specs[spec][ip + 1], "untrack", o)
    BY <1>1, <1>2, <1>4, <2>1, Here
  <2>3. Now.op # "track" /\ Now.op # "create" /\ Now.object \notin owned'
        /\ ~Is(Now, "awaitGone", ClusterAutoscaler)
    BY <1>1, <2>1 DEF Is
  <2> QED BY <1>1, <1>3, <1>4, <2>1, <2>2, <2>3, <2>4, ContinueStep
<1>5. ASSUME Rejected(Object), Leave("failed") PROVE IInv'
  <2>1. /\ obj' \in [Objects -> {"absent", "present", "deleting"}]
        /\ owned' \subseteq owned /\ faults' \in 0..MaxFaults /\ hurt' \in BOOLEAN
        /\ hurt' \/ owned' = owned
    BY <1>1, <1>2, <1>5, RejectedStep
  <2>2. Accounted'
    BY <1>1, <1>2, <1>5, RejectedStep DEF IInv, Accounted, blame
  <2>3. refused' \in BOOLEAN /\ stranded' = stranded
    BY <1>1 DEF TypeOK, blame
  <2> QED BY <1>1, <1>2, <1>3, <1>5, <2>1, <2>2, <2>3, LeaveStep
<1> QED BY <1>4, <1>5 DEF DeleteObject

\* The other steps of a body touch no object.
LEMMA OtherLeave ==
    ASSUME IInv, mode = "body", ip <= Len(Specs[spec]), Now.op \notin {"track", "create", "untrack"},
           NEW v \in {"failed", "skipped"}, Leave(v), v = "skipped" => spec = 2,
           UNCHANGED <<obj, faults, hurt, excused, blame, misread, owned>>
    PROVE  IInv'
<1>1. owned \subseteq cleanup /\ cleanup \subseteq owned
  BY Tracked, Owns
<1>2. /\ obj' \in [Objects -> {"absent", "present", "deleting"}]
      /\ faults' \in 0..MaxFaults /\ excused' \subseteq Objects /\ misread' \in BOOLEAN
      /\ Accounted' /\ stranded' = stranded /\ hurt' \in BOOLEAN /\ refused' \in BOOLEAN
  BY DEF IInv, TypeOK, Accounted, blame
<1> QED BY <1>1, <1>2, LeaveStep

LEMMA OtherContinue ==
    ASSUME IInv, mode = "body", ip <= Len(Specs[spec]), Continue,
           UNCHANGED <<obj, excused, blame, owned>>, faults' \in 0..MaxFaults, hurt' \in BOOLEAN,
           misread' \in BOOLEAN, misread => misread',
           cleanup' \subseteq Objects, owned \subseteq cleanup', Now.op \notin {"create", "delete"},
           \A o \in cleanup' : \/ o \in owned
                               \/ /\ ip + 1 <= Len(Specs[spec])
                                  /\ Is(Specs[spec][ip + 1], "create", o),
           Now.op = "track" => Now.object \in cleanup',
           Is(Now, "awaitGone", ClusterAutoscaler) /\ ~misread' =>
               obj[ClusterAutoscaler] = "absent"
    PROVE  IInv'
<1>1. /\ obj' \in [Objects -> {"absent", "present", "deleting"}]
      /\ excused' \subseteq Objects /\ owned' \subseteq Objects /\ Accounted'
  BY DEF IInv, TypeOK, Accounted, blame
<1> QED BY <1>1, ContinueStep

LEMMA TrackStep == IInv /\ Track => IInv'
<1> SUFFICES ASSUME IInv, Track PROVE IInv'
  OBVIOUS
<1>1. TypeOK /\ mode = "body" /\ ip <= Len(Specs[spec]) /\ Now.op = "track"
      /\ cleanup' = cleanup \cup {Now.object} /\ Continue
      /\ UNCHANGED <<obj, faults, hurt, excused, blame, misread, owned>>
  BY DEF Track, At, Object, Now, IInv
<1>2. Now.object \in Objects
  BY <1>1, Here
<1>3. owned \subseteq cleanup'
  BY <1>1 DEF IInv, BodyTracks, Is
<1>4. cleanup' \subseteq Objects /\ faults' \in 0..MaxFaults /\ misread' \in BOOLEAN
      /\ hurt' \in BOOLEAN
  BY <1>1, <1>2 DEF TypeOK
<1>5. \A o \in cleanup' : \/ o \in owned
                          \/ /\ ip + 1 <= Len(Specs[spec])
                             /\ Is(Specs[spec][ip + 1], "create", o)
  <2>1. cleanup \subseteq owned
    BY <1>1, Owns
  <2>2. \/ Now.object \in owned
        \/ ip + 1 <= Len(Specs[spec]) /\ Is(Specs[spec][ip + 1], "create", Now.object)
    BY <1>1, Here DEF IInv, JustDone, Is
  <2> QED BY <1>1, <2>1, <2>2
<1> QED BY <1>1, <1>3, <1>4, <1>5, OtherContinue DEF Is

LEMMA UntrackStep == IInv /\ Untrack => IInv'
<1> SUFFICES ASSUME IInv, Untrack PROVE IInv'
  OBVIOUS
<1>1. TypeOK /\ mode = "body" /\ ip <= Len(Specs[spec]) /\ Now.op = "untrack"
      /\ cleanup' = cleanup \ {Now.object} /\ Continue
      /\ UNCHANGED <<obj, faults, hurt, excused, blame, misread, owned>>
  BY DEF Untrack, At, Object, Now, IInv
<1>2. owned \subseteq cleanup /\ Now.object \notin owned
  <2>1. ip > 1 /\ Is(Before, "delete", Now.object)
    BY <1>1, Here
  <2> QED BY <1>1, <2>1, Tracked DEF IInv, JustDone, Is
<1>3. cleanup' \subseteq Objects /\ faults' \in 0..MaxFaults /\ misread' \in BOOLEAN
      /\ hurt' \in BOOLEAN
  BY <1>1 DEF TypeOK
<1>4. cleanup' \subseteq owned
  BY <1>1 DEF IInv, TracksNoMore, Is
<1> QED BY <1>1, <1>2, <1>3, <1>4, OtherContinue DEF Is

LEMMA WaitStep == IInv /\ (Await \/ Skip) => IInv'
<1> SUFFICES ASSUME IInv, Await \/ Skip PROVE IInv'
  OBVIOUS
<1>1. TypeOK /\ mode = "body" /\ ip <= Len(Specs[spec]) /\ Now.op \in {"await", "skip"}
      /\ UNCHANGED <<obj, faults, hurt, excused, blame, misread, owned>>
  BY DEF Await, Skip, At, Now, IInv
<1>2. owned \subseteq cleanup /\ cleanup \subseteq owned /\ (Now.op = "skip" => spec = 2)
  BY <1>1, Here, Tracked, Owns
<1>3. CASE Continue /\ UNCHANGED cleanup
  <2>1. cleanup' \subseteq Objects /\ faults' \in 0..MaxFaults /\ misread' \in BOOLEAN
        /\ hurt' \in BOOLEAN
    BY <1>1, <1>3 DEF TypeOK
  <2> QED BY <1>1, <1>2, <1>3, <2>1, OtherContinue DEF Is
<1>4. CASE Leave("failed")
  BY <1>1, <1>4, OtherLeave
<1>5. CASE Skip /\ Leave("skipped")
  BY <1>1, <1>2, <1>5, OtherLeave DEF Skip, At, Now
<1> QED BY <1>3, <1>4, <1>5 DEF Await, Skip

LEMMA AwaitGoneStep == IInv /\ AwaitGone => IInv'
<1> SUFFICES ASSUME IInv, AwaitGone PROVE IInv'
  OBVIOUS
<1>1. TypeOK /\ mode = "body" /\ ip <= Len(Specs[spec]) /\ Now.op = "awaitGone"
      /\ Object = Now.object /\ UNCHANGED <<obj, excused, blame, owned>>
  BY DEF AwaitGone, At, Object, Now, IInv
<1>2. owned \subseteq cleanup /\ cleanup \subseteq owned /\ cleanup \subseteq Objects
  BY <1>1, Tracked, Owns DEF TypeOK
<1>3. CASE obj[Object] = "absent" /\ Continue /\ UNCHANGED <<cleanup, faults, hurt, misread>>
  <2>1. faults' \in 0..MaxFaults /\ misread' \in BOOLEAN /\ hurt' \in BOOLEAN
    BY <1>1, <1>3 DEF TypeOK
  <2> QED BY <1>1, <1>2, <1>3, <2>1, OtherContinue DEF Is
<1>4. CASE Fault("get") /\ misread' = TRUE /\ Continue /\ UNCHANGED cleanup
  <2>1. faults' \in 0..MaxFaults /\ hurt' \in BOOLEAN
    BY <1>1, <1>4, FaultInBounds DEF Fault
  <2> QED BY <1>1, <1>2, <1>4, <2>1, OtherContinue
<1>5. CASE Leave("failed") /\ UNCHANGED <<faults, hurt, misread>>
  BY <1>1, <1>5, OtherLeave
<1> QED BY <1>3, <1>4, <1>5 DEF AwaitGone

LEMMA BodyEndsStep == IInv /\ BodyEnds => IInv'
<1> SUFFICES ASSUME IInv, BodyEnds PROVE IInv'
  OBVIOUS
<1>1. TypeOK /\ mode = "body" /\ ip > Len(Specs[spec]) /\ Leave("passed")
      /\ UNCHANGED <<obj, faults, hurt, excused, blame, misread, owned>>
  BY DEF BodyEnds, IInv
<1>2. spec \in 1..2 /\ ip \in 1..(Len(Specs[spec]) + 1)
  BY <1>1, Bodies DEF TypeOK
<1>3. /\ Len(Specs[spec]) \in Nat /\ Len(Specs[spec]) >= 1
      /\ Is(Specs[spec][Len(Specs[spec])], "awaitGone", ClusterAutoscaler)
  BY <1>2, Bodies DEF Body, Part
<1>4. ip > 1 /\ ip - 1 = Len(Specs[spec]) /\ ~(ip <= Len(Specs[spec]))
  BY <1>1, <1>2, <1>3
<1>5. ~misread => obj[ClusterAutoscaler] = "absent"
  BY <1>1, <1>3, <1>4 DEF IInv, JustDone, Before
<1>6. owned \subseteq cleanup /\ cleanup \subseteq owned
  BY <1>1, <1>4, Tracked, Owns
<1>7. /\ obj' \in [Objects -> {"absent", "present", "deleting"}]
      /\ faults' \in 0..MaxFaults /\ excused' \subseteq Objects /\ misread' \in BOOLEAN
      /\ Accounted' /\ stranded' = stranded /\ hurt' \in BOOLEAN /\ refused' \in BOOLEAN
  BY <1>1 DEF IInv, TypeOK, Accounted, blame
<1> QED BY <1>1, <1>5, <1>6, <1>7, LeaveStep

LEMMA AfterEachStep == ASSUME IInv, NEW o \in Objects, AfterEach(o) PROVE IInv'
<1>1. TypeOK /\ mode = "afterEach" /\ mode' = "afterEach" /\ o \in todo
      /\ UNCHANGED <<failFast, spec, ip, cleanup, refused, misread>>
  BY DEF AfterEach, IInv
<1>2. ASSUME Accepted(o), todo' = todo \ {o},
             UNCHANGED <<verdict, faults, hurt, excused, stranded>>
      PROVE  IInv'
  <2>1. /\ obj' \in [Objects -> {"absent", "present", "deleting"}]
        /\ owned' = owned \ {o} /\ Accounted'
        /\ obj[ClusterAutoscaler] = "absent" => obj'[ClusterAutoscaler] = "absent"
    BY <1>1, <1>2, AcceptedStep DEF blame
  <2>2. TypeOK'
    BY <1>1, <1>2, <2>1 DEF TypeOK
  <2>3. Phases' /\ PassedMeansCAGone'
    BY <1>1, <1>2, <2>1 DEF IInv, Phases, PassedMeansCAGone
  <2>4. BodyTracks' /\ JustDone' /\ TracksNoMore' /\ NameIsFree'
    BY <1>1 DEF BodyTracks, JustDone, TracksNoMore, NameIsFree
  <2>5. AfterEachDeletes' /\ OwnedIsTracked'
    BY <1>1, <1>2, <2>1 DEF IInv, AfterEachDeletes, OwnedIsTracked, TypeOK
  <2> QED BY <2>1, <2>2, <2>3, <2>4, <2>5 DEF IInv
<1>3. ASSUME Rejected(o), todo' = {}, verdict' = "failed",
             IF hurt' THEN excused' = excused \cup todo /\ UNCHANGED stranded
                      ELSE stranded' = stranded \cup todo /\ UNCHANGED excused
      PROVE  IInv'
  <2>1. /\ obj' \in [Objects -> {"absent", "present", "deleting"}]
        /\ owned' \subseteq owned /\ faults' \in 0..MaxFaults /\ hurt' \in BOOLEAN
        /\ hurt' \/ (obj[o] = "absent" /\ hurt' = hurt)
    BY <1>3, RejectedStep
  <2>2. hurt' \/ refused
    BY <1>1, <2>1 DEF IInv, AfterEachDeletes, Accounted
  <2>3. stranded' = {} \/ refused'
    BY <1>1, <1>3, <2>2 DEF IInv, Accounted
  <2>4. excused \subseteq excused' /\ stranded \subseteq stranded'
        /\ todo \subseteq excused' \cup stranded' /\ todo \subseteq Objects
        /\ excused' \subseteq Objects /\ stranded' \subseteq Objects
    BY <1>1, <1>3 DEF TypeOK
  <2>5. Accounted'
    BY <1>3, <2>3, <2>4, RejectedStep
  <2>6. TypeOK'
    BY <1>1, <1>3, <2>1, <2>4 DEF TypeOK
  <2>7. Phases' /\ PassedMeansCAGone'
    BY <1>1, <1>3 DEF Phases, PassedMeansCAGone
  <2>8. BodyTracks' /\ JustDone' /\ TracksNoMore' /\ NameIsFree'
    BY <1>1 DEF BodyTracks, JustDone, TracksNoMore, NameIsFree
  <2>9. AfterEachDeletes' /\ OwnedIsTracked'
    BY <1>1, <1>3, <2>1, <2>4 DEF IInv, AfterEachDeletes, OwnedIsTracked, TypeOK
  <2> QED BY <2>5, <2>6, <2>7, <2>8, <2>9 DEF IInv
<1> QED BY <1>2, <1>3 DEF AfterEach

LEMMA NextSpecStep == IInv /\ NextSpec => IInv'
<1> SUFFICES ASSUME IInv, NextSpec PROVE IInv'
  OBVIOUS
<1>1. TypeOK /\ mode = "afterEach" /\ todo = {} /\ owned' = {} /\ hurt' = FALSE
      /\ UNCHANGED <<failFast, obj, cleanup, todo, faults, excused, stranded, refused, misread>>
  BY DEF NextSpec, IInv, blame
<1>2. Accounted'
  BY <1>1 DEF IInv, Accounted, AfterEachDeletes
<1>3. spec \in 1..2 /\ Len(Specs) = 2 /\ \A n \in 1..2 : Len(Specs[n]) \in Nat
  BY <1>1, Bodies DEF TypeOK, Body, Part
<1>4. CASE LastSpec /\ mode' = "ended" /\ UNCHANGED <<spec, ip, verdict>>
  <2>1. TypeOK' /\ Phases'
    BY <1>1, <1>4 DEF IInv, TypeOK, Phases
  <2>2. BodyTracks' /\ JustDone' /\ TracksNoMore' /\ NameIsFree' /\ AfterEachDeletes'
        /\ OwnedIsTracked' /\ PassedMeansCAGone'
    BY <1>4 DEF BodyTracks, JustDone, TracksNoMore, NameIsFree, AfterEachDeletes, OwnedIsTracked,
                PassedMeansCAGone
  <2> QED BY <1>2, <2>1, <2>2 DEF IInv
<1>5. CASE ~LastSpec /\ mode' = "before" /\ spec' = spec + 1 /\ ip' = 1 /\ verdict' = "running"
  <2>1. spec = 1 /\ spec' = 2 /\ ip' \in 1..(Len(Specs[spec']) + 1)
    BY <1>3, <1>5 DEF LastSpec
  <2>2. TypeOK' /\ Phases'
    <3>1. spec' \in 1..Len(Specs)
      BY <1>3, <2>1
    <3>2. TypeOK'
      BY <1>1, <1>5, <2>1, <3>1 DEF TypeOK
    <3>3. Phases'
      BY <1>1, <1>5 DEF IInv, Phases
    <3> QED BY <3>2, <3>3
  <2>3. NameIsFree'
    <3>1. verdict # "running" /\ verdict # "skipped"
      BY <1>1, <1>3, <2>1 DEF IInv, Phases
    <3>2. failFast /\ ~misread => obj[ClusterAutoscaler] = "absent"
      BY <1>1, <1>5, <3>1 DEF IInv, TypeOK, LastSpec, PassedMeansCAGone
    <3> QED BY <1>1, <3>2 DEF NameIsFree
  <2>4. BodyTracks' /\ JustDone' /\ TracksNoMore' /\ AfterEachDeletes' /\ OwnedIsTracked'
        /\ PassedMeansCAGone'
    BY <1>5 DEF BodyTracks, JustDone, TracksNoMore, AfterEachDeletes, OwnedIsTracked, PassedMeansCAGone
  <2> QED BY <1>2, <2>2, <2>3, <2>4 DEF IInv
<1> QED BY <1>4, <1>5 DEF NextSpec

LEMMA CollectStep == ASSUME IInv, NEW o \in Objects, Collect(o) PROVE IInv'
<1>1. /\ obj[o] = "deleting" /\ obj' = [obj EXCEPT ![o] = "absent"] /\ TypeOK
      /\ UNCHANGED <<failFast, spec, mode, ip, cleanup, todo, verdict, faults, hurt,
                     excused, stranded, refused, misread, owned>>
  BY DEF Collect, IInv, blame
<1>2. /\ obj[ClusterAutoscaler] = "absent" => obj'[ClusterAutoscaler] = "absent"
      /\ \A u \in Objects : obj'[u] = "present" <=> obj[u] = "present"
  BY <1>1, SomeObjects DEF TypeOK
<1>3. TypeOK'
  BY <1>1 DEF TypeOK
<1>4. Phases' /\ BodyTracks' /\ TracksNoMore' /\ AfterEachDeletes' /\ OwnedIsTracked'
  BY <1>1 DEF IInv, Phases, BodyTracks, TracksNoMore, AfterEachDeletes, OwnedIsTracked, Now
<1>5. JustDone'
  BY <1>1, <1>2 DEF IInv, JustDone, Before
<1>6. Accounted' /\ PassedMeansCAGone'
  BY <1>1, <1>2 DEF IInv, Accounted, PassedMeansCAGone, TypeOK
<1>7. NameIsFree'
  BY <1>1, <1>2 DEF IInv, NameIsFree
<1> QED BY <1>3, <1>4, <1>5, <1>6, <1>7 DEF IInv

LEMMA NextIInv == IInv /\ [Next]_vars => IInv'
<1> SUFFICES ASSUME IInv, [Next]_vars PROVE IInv'
  OBVIOUS
<1>1. CASE UNCHANGED vars
  BY <1>1 DEF vars, IInv, TypeOK, Phases, BodyTracks, JustDone, TracksNoMore, AfterEachDeletes, Accounted,
              NameIsFree, OwnedIsTracked, PassedMeansCAGone, Now, Before
<1> QED BY <1>1, BeforeEachStep, CreateStep, DeleteStep, TrackStep, UntrackStep, WaitStep,
           AwaitGoneStep, BodyEndsStep, NextSpecStep, AfterEachStep, CollectStep DEF Next

(* All that the theorems below state follows from one inductive invariant: what a
   body has created and not deleted is in cleanupObjects or at the call before
   that puts it there, and nothing else is but a Job that is about to be created;
   AfterEach deletes or gives up each; and the name of the
   ClusterAutoscaler is free wherever a spec that passed has left it. *)
THEOREM CleanupInvariant == Spec => []IInv
BY InitIInv, NextIInv, PTL DEF Spec

(* The values of all variables: the step of a body is one it has, todo is part of
   cleanupObjects. *)
THEOREM CleanupTypeCorrect == Spec => []TypeOK
<1>1. IInv => TypeOK
  BY DEF IInv
<1> QED BY <1>1, CleanupInvariant, PTL

(* Whichever call fails or wait times out, AfterEach finds all that the spec has
   created and not deleted in cleanupObjects. *)
THEOREM OwnedIsAlwaysTracked == Spec => []OwnedIsTracked
<1>1. IInv => OwnedIsTracked
  BY DEF IInv
<1> QED BY <1>1, CleanupInvariant, PTL

(* What is left at the end of the suite with no deletion asked for is an object
   whose creation went unanswered, one an AfterEach had not deleted when it ended in a
   spec in which a call failed, or one that an AfterEach ended by the NotFound of a
   tracked object had not deleted; and that object's creation had been refused. *)
THEOREM OnlyFailureLeavesBehind == Spec => []LeftBehindOnlyByFailure
<1>1. IInv => LeftBehindOnlyByFailure
  BY DEF IInv, Phases, Accounted, LeftBehindOnlyByFailure
<1> QED BY <1>1, CleanupInvariant, PTL

(* A spec that passes has seen the ClusterAutoscaler go, unless its Get failed. *)
THEOREM PassesWithoutCA == Spec => []PassedMeansCAGone
<1>1. IInv => PassedMeansCAGone
  BY DEF IInv
<1> QED BY <1>1, CleanupInvariant, PTL

(* With --failFast no spec is refused the name of the ClusterAutoscaler because
   another one has left it. *)
THEOREM CAIsCreatedOnce == Spec => SingletonCA
<1> DEFINE A == CreateObject /\ Object = ClusterAutoscaler /\ failFast /\ ~misread
                  => obj[ClusterAutoscaler] = "absent"
<1>1. IInv /\ [Next]_vars => [A]_vars
  <2> SUFFICES ASSUME IInv, CreateObject, Object = ClusterAutoscaler, failFast, ~misread
               PROVE  obj[ClusterAutoscaler] = "absent"
    OBVIOUS
  <2>1. mode = "body" /\ ip <= Len(Specs[spec]) /\ Is(Now, "create", ClusterAutoscaler)
    BY DEF CreateObject, At, Object, Now, Is
  <2>2. \A i \in 1..(ip - 1) : ~Is(Specs[spec][i], "create", ClusterAutoscaler)
    BY <2>1, Here DEF IInv
  <2> QED BY <2>1, <2>2 DEF IInv, NameIsFree
<1> HIDE DEF A
<1>2. Spec => [][A]_vars
  BY <1>1, CleanupInvariant, PTL DEF Spec
<1> QED BY <1>2 DEF A, SingletonCA
=============================================================================
