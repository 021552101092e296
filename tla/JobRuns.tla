------------------------------- MODULE JobRuns -------------------------------
(***************************************************************************)
(* What the scheduler promises of the runs of jobs, whatever goroutines,   *)
(* caches and messages it takes: a job has one run at a time, every run    *)
(* has a task of its own, and a run makes way for the next one only after  *)
(* it is in the history of the job.                                        *)
(***************************************************************************)
CONSTANTS
    Jobs,
    Tasks,      \* per job, the tasks that may be its runs
    NoTask

VARIABLES
    current,    \* per job, the task that is its run now
    recorded    \* per job, the runs in its history

runs == <<current, recorded>>

Init ==
    /\ current = [j \in Jobs |-> NoTask]
    /\ recorded = [j \in Jobs |-> {}]

(* A run begins, with a task that has not been a run before. *)
Begins(j) == current[j] = NoTask /\ current'[j] \in Tasks[j] \ recorded[j]

(* One offer starts runs of any number of jobs. *)
Start ==
    /\ \E j \in Jobs : Begins(j)
    /\ \A j \in Jobs : Begins(j) \/ current'[j] = current[j]
    /\ current' = [j \in Jobs |-> current'[j]]
    /\ UNCHANGED recorded

(* The run is over and goes into the history. *)
Record(j) ==
    /\ current[j] # NoTask
    /\ recorded' = [recorded EXCEPT ![j] = @ \cup {current[j]}]
    /\ UNCHANGED current

(* Mesos will not mention the run again. *)
Forget(j) ==
    /\ current[j] \in recorded[j]
    /\ current' = [current EXCEPT ![j] = NoTask]
    /\ UNCHANGED recorded

Next == Start \/ \E j \in Jobs : Record(j) \/ Forget(j)

Spec == Init /\ [][Next]_runs
=============================================================================
