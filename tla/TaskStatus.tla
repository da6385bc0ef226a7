----------------------------- MODULE TaskStatus -----------------------------
(***************************************************************************)
(* The state of a containerd container that is not running any more, from  *)
(* what is left of its cgroup and of its runtime: explorers/runtime.go and *)
(* GetContainerTask of explorers/containerd.  The pieces are of different  *)
(* ages: the specification from meta.db, cgroup.events and cgroup.procs    *)
(* from the image of /sys, and state.json from /run.                       *)
(***************************************************************************)
EXTENDS Integers

\* Of a specification: whether it has the sections process and linux, the
\* kind of the cgroup's path, and the two names.
Specification ==
  [process : BOOLEAN, linux : BOOLEAN, cgroupsPath : STRING,
   hostname : STRING, env : STRING]

\* Of a cgroup: whether the directory and cgroup.events can be read, the two
\* numbers and the first line of cgroup.procs, NoNumber for a line that is
\* missing or no number.
CgroupFiles ==
  [there : BOOLEAN, events : BOOLEAN, populated : Int, frozen : Int,
   procs : Int]

NoNumber == -1

\* ReadCgroupEvents: what can be read of cgroup.events.
ReadCgroupEvents(cg) ==
  IF cg.events THEN [populated |-> cg.populated, frozen |-> cg.frozen]
  ELSE [populated |-> NoNumber, frozen |-> NoNumber]

\* Mutant: a cgroup without processes is running unless it is frozen.
GetTaskStatusOfFreezer(cg) ==
  IF cg.frozen = 1 THEN "PAUSED" ELSE "RUNNING"

\* Any other combination is an error that is only logged.
GetTaskStatus(cg) ==
  LET e == ReadCgroupEvents(cg)
  IN  CASE e.populated = 0 /\ e.frozen = 0 -> "STOPPED"
        [] e.populated = 1 /\ e.frozen = 0 -> "RUNNING"
        [] e.populated = 1 /\ e.frozen = 1 -> "PAUSED"
        [] OTHER -> "UNKNOWN"

\* GetTaskPID
GetTaskPID(cg) == cg.procs

\* The runtime that made the path: containerd, or docker with the systemd
\* driver ("docker") or with cgroupfs ("dockerfs"), whose path has one field.
ContainerType(spec) ==
  IF spec.cgroupsPath = "own" THEN "containerd" ELSE "docker"

\* The first PID of the cgroup or, if there is none and the runtime is
\* containerd, that of state.json; init is 0 if the file cannot be read.
TaskPID(type, cg, init) ==
  IF GetTaskPID(cg) = NoNumber /\ type = "containerd" /\ init # 0
  THEN init ELSE GetTaskPID(cg)

Task(type, pid, status) == [type |-> type, pid |-> pid, status |-> status]

(***************************************************************************)
(* GetContainerTask: "ok" with a task, "error" with an empty one, or a     *)
(* "panic".  InfoContainer gives nil for a record without a specification, *)
(* which is then asserted to be one, and the section linux is dereferenced *)
(* unseen.  specs is the set of at most one specification that the lookup  *)
(* found.                                                                  *)
(***************************************************************************)
GetContainerTask(specs, cg, init) ==
  IF specs = {} \/ \E s \in specs : ~s.linux
  THEN [res |-> "panic", task |-> Task("", 0, "")]
  ELSE LET spec == CHOOSE s \in specs : TRUE
           type == ContainerType(spec)
       IN  CASE spec.cgroupsPath = "dockerfs" ->
                  [res |-> "error", task |-> Task("", 0, "")]
             [] spec.cgroupsPath # "dockerfs" /\ ~cg.there ->
                  [res |-> "ok", task |-> Task(type, 0, "UNKNOWN")]
             [] OTHER ->
                  [res |-> "ok",
                   task |-> Task(type, TaskPID(type, cg, init),
                                 GetTaskStatus(cg))]
=============================================================================
