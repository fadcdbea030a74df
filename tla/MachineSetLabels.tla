-------------------------- MODULE MachineSetLabels --------------------------
(***************************************************************************)
(* The labels and the selector that NewMachineSet (framework/machinesets.go) *)
(* gives a transient machineset it models on an existing one, the target.  *)
(* A label map is a function from some keys to their values; everything    *)
(* else of a machineset is left out.                                       *)
(***************************************************************************)
CONSTANTS
    ClusterKey,     \* the label that names the cluster
    MachineSetKey,  \* the label that names the machineset
    Values          \* the values of labels, names of clusters and machinesets too

\* The maps with any keys of a set.
LabelMaps(Keys) == UNION {[K -> Values] : K \in SUBSET Keys}

\* What both label maps of a new machineset begin with.
Pinned(cluster, name) ==
    [k \in {ClusterKey, MachineSetKey} |-> IF k = MachineSetKey THEN name ELSE cluster]

\* "Copy additional labels but do not overwrite those that already exist."
Merged(own, additional) ==
    [k \in DOMAIN own \cup DOMAIN additional |->
        IF k \in DOMAIN own THEN own[k] ELSE additional[k]]

\* NewMachineSet, with the arguments the autoscaler spec passes it.
NewMachineSet(target, name) ==
    LET pinned == Pinned(target.cluster, name) IN
    [cluster  |-> target.cluster,
     selector |-> Merged(pinned, target.selector),
     template |-> Merged(pinned, target.template)]

\* A selector (of MatchLabels) selects what has all of its labels.
Selects(selector, labels) ==
    \A k \in DOMAIN selector : k \in DOMAIN labels /\ labels[k] = selector[k]

MachineSets(Keys) ==
    [cluster : Values, selector : LabelMaps(Keys), template : LabelMaps(Keys)]
=============================================================================
