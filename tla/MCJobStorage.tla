---------------------------- MODULE MCJobStorage ----------------------------
(* Instances of JobStorage for TLC. *)
EXTENDS JobStorage, TLC

(* Clients, tasks and jobs are interchangeable. *)
Symmetry == Permutations(Clients) \cup Permutations(Tasks) \cup Permutations(JobIDs)

Busy == {c \in Clients : ~Idle(c)}

InPlay == Jobs \cup disturbed \cup {req[c].job : c \in Busy}

(* Bound: two requests of the API at a time, one update that the leader    *)
(* handles and one cleanup.                                                *)
AtATime(ops) == Cardinality({c \in Busy : req[c].op \in ops})

FewOfAKind ==
    /\ AtATime({"create", "update", "delete"}) <= 2
    /\ AtATime({"handle"}) <= 1 /\ AtATime({"cleanup"}) <= 1

(* Bound: several clients are busy at a time, and tasks are recorded, as   *)
(* long as there is one job; with a second one beside it one client at a   *)
(* time works on either of them, and GetJobs reads the two one by one.     *)
OneByOne ==
    \/ Cardinality(InPlay) <= 1
    \/ Cardinality(Busy) <= 1 /\ \A j \in JobIDs : tasks[j] = NoNode
=============================================================================
