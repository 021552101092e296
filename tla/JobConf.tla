------------------------------ MODULE JobConf ------------------------------
(***************************************************************************)
(* Configurations of jobs: what the schemas of the API let through         *)
(* (api/model.go), what createJob and updateJob make of it (api/api.go),   *)
(* and what the scheduler needs to build a task (newTaskInfo, NextRun).    *)
(*                                                                         *)
(* A body is decoded into a Go struct, and the struct is what the schema   *)
(* sees: what a new job leaves out has its zero value, what an update      *)
(* leaves out is null.                                                     *)
(***************************************************************************)
CONSTANTS
    Images,     \* images of containers
    Empty,      \* the empty string
    Nil,        \* null in JSON, nil in Go
    Params,     \* the other parameters a schema restricts
    Optional    \* those of them whose zero value will do (disk, retries)

(* A value of a parameter fits (a positive number, a cron expression), is  *)
(* zero, or is neither (a negative number, no cron expression).            *)
Value == {"fits", "zero", "wrong"}

ASSUME JobConfAssumption ==
    /\ Empty \notin Images
    /\ Nil \notin Images \cup {Empty} \cup Value
    /\ Nil \notin [image : Images \cup {Empty, Nil}]
    /\ Optional \subseteq Params

Image == Images \cup {Empty}

(* model.JobConf; at most one of the pointers is set, that of the type.    *)
Conf == [type : {"", "Docker", "Mesos"}, docker : Image \cup {Nil},
         mesos : Image \cup {Nil}, param : [Params -> Value]]

ZeroConf == [type |-> "", docker |-> Nil, mesos |-> Nil, param |-> [p \in Params |-> "zero"]]

Allows(p, v) == v = "fits" \/ (v = "zero" /\ p \in Optional)
-----------------------------------------------------------------------------
(* newJobPayload, newJobSchema, createJob.                                 *)

NewPayload == [docker : Image, mesos : Image, param : [Params -> Value]]

NewSchema(b) ==
    /\ (b.docker # Empty) # (b.mesos # Empty)
    /\ \A p \in Params : Allows(p, b.param[p])

NewConf(b) ==
    [type   |-> IF b.docker # Empty THEN "Docker" ELSE "Mesos",
     docker |-> IF b.docker # Empty THEN b.docker ELSE Nil,
     mesos  |-> IF b.docker # Empty THEN Nil ELSE b.mesos,
     param  |-> b.param]

NewConfs == {NewConf(b) : b \in {b \in NewPayload : NewSchema(b)}}
-----------------------------------------------------------------------------
(* updateJobPayload, updateJobSchema, updateJob.                           *)

Box == [image : Image \cup {Nil}]

Container == [docker : Box \cup {Nil}, mesos : Box \cup {Nil}]

UpdatePayload == [container : Container \cup {Nil}, param : [Params -> Value \cup {Nil}]]

(* Mutant: the image of a Mesos container may be null, as Docker's may.    *)
NullableSchema(b) ==
    /\ b.container # Nil =>
           \/ b.container.docker # Nil /\ b.container.docker.image # Empty
           \/ b.container.mesos # Nil /\ b.container.mesos.image # Empty
    /\ \A p \in Params : b.param[p] # Nil => Allows(p, b.param[p])

UpdateSchema(b) ==
    /\ b.container # Nil =>
           \/ b.container.docker # Nil /\ b.container.docker.image # Empty
           \/ b.container.mesos # Nil /\ b.container.mesos.image \notin {Empty, Nil}
    /\ \A p \in Params : b.param[p] # Nil => Allows(p, b.param[p])

Updates == {b \in UpdatePayload : UpdateSchema(b)}

(* The image of a Docker container: the new one, or the one it had.        *)
DockerImage(conf, c) ==
    IF c.docker.image # Nil THEN c.docker.image
    ELSE IF conf.docker # Nil THEN conf.docker ELSE Empty

ToDocker(b) == b.container # Nil /\ b.container.docker # Nil

ToMesos(b) == b.container # Nil /\ b.container.docker = Nil /\ b.container.mesos # Nil

(* "container.docker.image is required".                                   *)
Mergeable(conf, b) == ToDocker(b) => DockerImage(conf, b.container) # Empty

Merged(conf, b) ==
    [type   |-> IF ToDocker(b) THEN "Docker" ELSE IF ToMesos(b) THEN "Mesos" ELSE conf.type,
     docker |-> IF ToDocker(b) THEN DockerImage(conf, b.container)
                ELSE IF ToMesos(b) THEN Nil ELSE conf.docker,
     mesos  |-> IF ToDocker(b) THEN Nil
                ELSE IF ToMesos(b) THEN b.container.mesos.image ELSE conf.mesos,
     param  |-> [p \in Params |-> IF b.param[p] # Nil THEN b.param[p] ELSE conf.param[p]]]
-----------------------------------------------------------------------------
(* newTaskInfo follows the pointer of the type, NextRun panics if it       *)
(* cannot parse the schedule, and Mesos takes no empty resource or image.  *)
Launchable(conf) ==
    /\ conf.type \in {"Docker", "Mesos"}
    /\ conf.type = "Docker" => conf.docker \in Images
    /\ conf.type = "Mesos" => conf.mesos \in Images
    /\ \A p \in Params : Allows(p, conf.param[p])
=============================================================================
