------------------------------ MODULE Commands ------------------------------
(***************************************************************************)
(* One run of the program over all engines: InitializeRuntime chooses the  *)
(* roots (cmd/commands/env.go), GetExplorers opens the explorers           *)
(* (utils.go), and a command loops over them: list (list.go), mount        *)
(* (mount.go), drift (drift.go), info and inspect (info.go).  The listings *)
(* are those of Listings; how one container is mounted and scanned is the  *)
(* subject of ContainerdMount, DockerMount and PodmanMount, so a mount     *)
(* here succeeds or fails.                                                 *)
(***************************************************************************)
EXTENDS Listings

CONSTANT Scenarios   \* the flags, the disks and the commands

\* A flag is an absolute path, as a sequence of names, or <<>> if it is not
\* given.  support is what the file of support containers has, and readable
\* whether it can be read.
Path == Seq(STRING \ {"", ".", ".."})
Flags ==
  [image : Path, docker : Path, containerd : Path,
   support : SUBSET Criteria, readable : BOOLEAN]

\* A path as a configuration has it: whether it begins with a slash, and what
\* is between its slashes.
Setting == [rooted : BOOLEAN, names : Seq(STRING)]
Unset == [rooted |-> FALSE, names |-> <<>>]
DefaultRoot(name) == [rooted |-> TRUE, names |-> <<"var", "lib", name>>]
Or(setting, default) == IF setting # Unset THEN setting ELSE default

\* strings.Replace takes away the first slash, which is between the first two
\* names if the path does not begin with it.
Unslashed(setting) ==
  LET names == setting.names
  IN  IF setting.rooted \/ Len(names) < 2 THEN names
      ELSE <<names[1] \o names[2]>> \o SubSeq(names, 3, Len(names))

\* filepath.Join cleans the path that it makes: names are entered from a
\* directory on, one after another, and above the topmost there is nothing.
Entered(path, name) ==
  CASE name \in {"", "."} -> path
    [] name = ".." -> IF path = <<>> THEN <<>> ELSE Front(path)
    [] OTHER -> Append(path, name)
Walk(path, names) ==
  LET at[k \in 0..Len(names)] ==
        IF k = 0 THEN path ELSE Entered(at[k - 1], names[k])
  IN  at
Join(path, names) == Walk(path, names)[Len(names)]

\* dataRoot and configRoot are what daemon.json and config.toml of the image
\* name, Unset if nothing can be read; dockers and containerds are the roots
\* that exist, by path; and podman has the roots below the image root, or of
\* the examiner's own system.
IsDisk(disk) ==
  /\ disk.dataRoot \in Setting /\ disk.configRoot \in Setting
  /\ \A p \in DOMAIN disk.dockers : disk.dockers[p] \in DockerEvidence
  /\ \A p \in DOMAIN disk.containerds :
       /\ disk.containerds[p] \in ContainerdEvidence
       /\ WellFormed(disk.containerds[p])
  /\ disk.podman \in Seq(PodmanEvidence)

ListKinds == {"namespaces", "containers", "tasks", "images", "contents",
              "snapshots"}
LoopKinds == {"mount all", "drift"}
FindKinds == {"mount", "info"}

\* engine is that of mount --all, or "all"; key an ID, a name or ""; all says
\* whether support containers are wanted, and json is the output.
Cmds ==
  [kind : ListKinds \cup LoopKinds \cup FindKinds, engine : STRING,
   filter : Seq(Seq(STRING)), key : STRING, all : BOOLEAN, json : BOOLEAN]

\* No configuration leads to the topmost directory of the machine itself,
\* which would have the path of a flag that is not given.
LeadsDown(image, disk) ==
  image # <<>> =>
    \A setting \in {disk.dataRoot, disk.configRoot} \ {Unset} :
      Join(image, Unslashed(setting)) # <<>>

ASSUME ScenariosAssumption ==
  \A s \in Scenarios :
    /\ s.flags \in Flags /\ IsDisk(s.disk) /\ s.command \in Cmds
    /\ LeadsDown(s.flags.image, s.disk)

VARIABLES
  flags, disk, command,
  pc,
  dockerRoot, containerdRoot,  \* GlobalConfig
  sc,                \* GlobalConfig.SupportContainerData
  opened,            \* the explorers that could be opened, in order
  xplrs,             \* those still to be asked
  failed,            \* the explorers whose error was logged
  rows,              \* what was listed, containers and tasks merged by ID
  todo,              \* the containers a loop over one explorer has left
  tried,             \* the containers that were to be mounted or scanned
  mounts,            \* those that are mounted, at a place named by the ID
  shown,             \* what is printed
  found,             \* the explorer that was taken for an ID
  result

vars == <<flags, disk, command, pc, dockerRoot, containerdRoot, sc, opened,
          xplrs, failed, rows, todo, tried, mounts, shown, found, result>>
given == <<flags, disk, command>>
config == <<dockerRoot, containerdRoot, sc>>

-----------------------------------------------------------------------------
(* The roots *)

Sibling(path, name) == Append(Front(path), name)
\* Mutant: the configured directory is taken as it is.
DockerRootUnjoined ==
  CASE flags.docker # <<>> -> flags.docker
    [] flags.docker = <<>> /\ flags.image # <<>> ->
         Join(<<>>, Unslashed(Or(disk.dataRoot, DefaultRoot("docker"))))
    [] OTHER -> IF flags.containerd # <<>>
                THEN Sibling(flags.containerd, "docker") ELSE <<>>

\* The root of docker: the flag, else below the image, else beside containerd.
DockerRoot ==
  CASE flags.docker # <<>> -> flags.docker
    [] flags.docker = <<>> /\ flags.image # <<>> ->
         Join(flags.image,
              Unslashed(Or(disk.dataRoot, DefaultRoot("docker"))))
    [] OTHER -> IF flags.containerd # <<>>
                THEN Sibling(flags.containerd, "docker") ELSE <<>>

\* The root of containerd, with that of docker already chosen.
ContainerdRoot(docker) ==
  CASE flags.containerd # <<>> -> flags.containerd
    [] flags.containerd = <<>> /\ flags.image # <<>> ->
         Join(flags.image,
              Unslashed(Or(disk.configRoot, DefaultRoot("containerd"))))
    [] OTHER -> IF docker # <<>> THEN Sibling(docker, "containerd") ELSE <<>>

\* NewSupportContainer: a file that cannot be read is only logged.
SupportContainer == IF flags.readable THEN flags.support ELSE {}

DockerDisk == disk.dockers[dockerRoot]
ContainerdDisk == disk.containerds[containerdRoot]
Rooted == flags.image # <<>>

Init ==
  /\ \E s \in Scenarios :
       flags = s.flags /\ disk = s.disk /\ command = s.command
  /\ pc = "start" /\ dockerRoot = <<>> /\ containerdRoot = <<>> /\ sc = {}
  /\ opened = <<>> /\ xplrs = <<>> /\ failed = {} /\ rows = <<>>
  /\ todo = <<>> /\ tried = <<>> /\ mounts = <<>> /\ shown = {}
  /\ found = "none" /\ result = "running"

\* InitializeRuntime
InitializeRuntime ==
  /\ pc = "start"
  /\ dockerRoot' = DockerRoot /\ containerdRoot' = ContainerdRoot(DockerRoot)
  /\ sc' = SupportContainer /\ pc' = "docker"
  /\ UNCHANGED <<given, opened, xplrs, failed, rows, todo, tried, mounts,
                 shown, found, result>>

-----------------------------------------------------------------------------
(* GetExplorers: an explorer that cannot be opened is left out. *)

Databases ==
  IF containerdRoot \in DOMAIN disk.containerds
  THEN {ContainerdDisk.db, ContainerdDisk.ssdb} ELSE {}

\* docker reads both databases of containerd, if they are there.
DockerOpens ==
  /\ dockerRoot \in DOMAIN disk.dockers
  /\ containerdRoot # <<>> /\ "bad" \notin Databases

ContainerdOpens ==
  /\ containerdRoot \in DOMAIN disk.containerds
  /\ ContainerdDisk.db = "ok"

\* Mutant: an explorer is put before those that are open already.
GetExplorerFirst(at, engine, opens, next) ==
  /\ pc = at /\ pc' = next
  /\ opened' = IF opens THEN <<engine>> \o opened ELSE opened
  /\ xplrs' = IF opens THEN <<engine>> \o xplrs ELSE xplrs
  /\ UNCHANGED <<given, config, failed, rows, todo, tried, mounts, shown,
                 found, result>>

GetExplorer(at, engine, opens, next) ==
  /\ pc = at /\ pc' = next
  /\ opened' = IF opens THEN Append(opened, engine) ELSE opened
  /\ xplrs' = IF opens THEN Append(xplrs, engine) ELSE xplrs
  /\ UNCHANGED <<given, config, failed, rows, todo, tried, mounts, shown,
                 found, result>>

GetDocker == GetExplorer("docker", "docker", DockerOpens, "podman")
\* podman's NewExplorer never fails.
GetPodman == GetExplorer("podman", "podman", TRUE, "containerd")
GetContainerd == GetExplorer("containerd", "containerd", ContainerdOpens,
                             "next")

-----------------------------------------------------------------------------
(* list *)

Containers(engine) ==
  CASE engine = "docker" -> DockerContainers(DockerDisk)
    [] engine = "podman" -> PodmanContainers(disk.podman)
    [] OTHER -> ContainerdContainers(ContainerdDisk, sc, Rooted)

Tasks(engine) ==
  CASE engine = "docker" -> DockerTasks(DockerDisk)
    [] engine = "podman" -> PodmanTasks(disk.podman)
    [] OTHER -> ContainerdTasks(ContainerdDisk, sc, Rooted)

Images(engine) ==
  CASE engine = "docker" -> DockerImages(DockerDisk)
    [] engine = "podman" -> PodmanImages(disk.podman)
    [] OTHER -> ContainerdImages(ContainerdDisk, sc)

\* What docker and podman do not implement is empty, and namespaces are asked
\* of containerd alone.
Listed(engine) ==
  CASE command.kind = "containers" -> Containers(engine)
    [] command.kind = "tasks" -> Tasks(engine)
    [] command.kind = "images" -> Images(engine)
    [] command.kind \in ListKinds \ {"containers", "tasks", "images"} ->
         IF engine # "containerd" THEN Ok(<<>>)
         ELSE CASE command.kind = "contents" ->
                     ContainerdContents(ContainerdDisk)
                [] command.kind = "snapshots" ->
                     ContainerdSnapshots(ContainerdDisk)
                [] OTHER ->
                     Ok([k \in DOMAIN ContainerdDisk.nss |->
                          Image("containerd", ContainerdDisk.nss[k].name,
                                ContainerdDisk.nss[k].name, FALSE)])

\* A row for an ID that has one already adds what that one lacks.
Enriched(old, new) ==
  [old EXCEPT !.name = IF @ = "" THEN new.name ELSE @,
              !.pid = IF @ = 0 THEN new.pid ELSE @,
              !.status = IF @ = "" THEN new.status ELSE @]

\* The map of rows by ID, in the order in which the IDs were met.
Merge(list, new) ==
  LET i == First(list, {r \in ToSet(list) : r.id = new.id})
  IN  IF i = 0 THEN Append(list, new)
      ELSE [list EXCEPT ![i] = Enriched(@, new)]
Merged(list, items) ==
  LET at[k \in 0..Len(items)] ==
        IF k = 0 THEN list ELSE Merge(at[k - 1], items[k])
  IN  at[Len(items)]

Panic == pc' = "end" /\ result' = "panic"

\* Mutant: an explorer whose listing fails ends the command.
ListNextStops ==
  /\ pc = "next" /\ xplrs # <<>> /\ command.kind \in ListKinds
  /\ LET listed == Listed(Head(xplrs))
     IN  CASE listed.res = "ok" ->
                /\ rows' = IF command.kind \in {"containers", "tasks"}
                           THEN Merged(rows, listed.items)
                           ELSE rows \o listed.items
                /\ xplrs' = Tail(xplrs)
                /\ UNCHANGED <<failed, pc, result>>
           [] listed.res = "error" ->
                /\ failed' = failed \cup {Head(xplrs)} /\ xplrs' = <<>>
                /\ UNCHANGED <<rows, pc, result>>
           [] OTHER -> Panic /\ UNCHANGED <<rows, failed, xplrs>>
  /\ UNCHANGED <<given, config, opened, todo, tried, mounts, shown, found>>

\* The loop over the explorers: an error is logged.
ListNext ==
  /\ pc = "next" /\ xplrs # <<>> /\ command.kind \in ListKinds
  /\ LET listed == Listed(Head(xplrs))
     IN  CASE listed.res = "ok" ->
                /\ rows' = IF command.kind \in {"containers", "tasks"}
                           THEN Merged(rows, listed.items)
                           ELSE rows \o listed.items
                /\ UNCHANGED <<failed, pc, result>>
           [] listed.res = "error" ->
                /\ failed' = failed \cup {Head(xplrs)}
                /\ UNCHANGED <<rows, pc, result>>
           [] OTHER -> Panic /\ UNCHANGED <<rows, failed>>
  /\ xplrs' = Tail(xplrs)
  /\ UNCHANGED <<given, config, opened, todo, tried, mounts, shown, found>>

\* Support containers and their images are left out of tables and of JSON
\* lines, and never of a JSON document.
Hidden(r) ==
  command.kind \in {"containers", "images"}
    /\ r.support /\ ~command.all /\ ~command.json

Show ==
  /\ pc = "next" /\ xplrs = <<>> /\ command.kind \in ListKinds
  /\ shown' = {r \in ToSet(rows) :
                 /\ command.kind = "containers" =>
                      Matches(command.filter, r.labels)
                 /\ ~Hidden(r)}
  /\ pc' = "end" /\ result' = "ok"
  /\ UNCHANGED <<given, config, opened, xplrs, failed, rows, todo, tried,
                 mounts, found>>

-----------------------------------------------------------------------------
(* mount --all and drift *)

\* The container in the mount point is known by its engine, namespace and ID.
Place(r) == <<r.type, r.ns, r.id>>

\* Mutant: containerd takes docker's containers too.
ChosenWithMoby(engine, r) ==
  /\ command.kind = "drift" => command.key \in {"", r.id}
  /\ engine = "containerd" =>
       ~(r.support /\ ~command.all) /\ Matches(command.filter, r.labels)
  /\ engine = "docker" => Matches(command.filter, {})

\* What the loops of MountAllContainers and ContainerDrift pass over.  podman
\* knows no labels and no support containers.
Chosen(engine, r) ==
  /\ command.kind = "drift" => command.key \in {"", r.id}
  /\ engine = "containerd" =>
       /\ r.ns # "moby"
       /\ ~(r.support /\ ~command.all)
       /\ Matches(command.filter, r.labels)
  /\ engine = "docker" => Matches(command.filter, {})

\* The containers that an engine goes through: docker those with a readable
\* configuration, if there is a directory at all, podman for drift also those
\* without metadata, by ID or by name.
Entries(root) == ToSet(root.entries)
DriftEntries(root) ==
  LET entries == Only(root.entries, {e \in Entries(root) :
                                      command.key \in {"", e.id, e.name}})
  IN  IF ~root.ok THEN <<>>
      ELSE [k \in DOMAIN entries |->
             Row("podman", "", entries[k].id, "", 0, "")]
Candidates(engine) ==
  LET docker == Only(DockerDisk.configs,
                     {c \in ToSet(DockerDisk.configs) : c.ok})
      all ==
        CASE engine = "docker" ->
               IF DockerDisk.configs = <<>> THEN Failed
               ELSE Ok([i \in DOMAIN docker |->
                         Row("docker", "", docker[i].id, "", 0, "")])
          [] engine = "podman" /\ command.kind = "drift" ->
               Ok(FlattenSeq([r \in DOMAIN disk.podman |->
                               DriftEntries(disk.podman[r])]))
          [] OTHER -> Containers(engine)
  IN  IF engine = "podman" THEN all
      ELSE [all EXCEPT !.items = Only(@, {r \in ToSet(@) : Chosen(engine, r)})]

\* strings.ToLower, for the spellings that a command may use.  "all" has to
\* be written so.
Lower(name) == IF name = "Docker" THEN "docker" ELSE name
Selected(engine) ==
  command.kind = "mount all" =>
    command.engine = "all" \/ Lower(command.engine) = engine

LoopNext ==
  /\ pc = "next" /\ xplrs # <<>> /\ command.kind \in LoopKinds
  /\ LET engine == Head(xplrs)
         all == Candidates(engine)
     IN  CASE ~Selected(engine) ->
                xplrs' = Tail(xplrs) /\ UNCHANGED <<failed, todo, pc, result>>
           [] Selected(engine) /\ all.res = "ok" ->
                /\ todo' = [i \in DOMAIN all.items |->
                             [all.items[i] EXCEPT !.type = engine]]
                /\ pc' = "loop"
                /\ UNCHANGED <<xplrs, failed, result>>
           [] Selected(engine) /\ all.res = "error" ->
                /\ failed' = failed \cup {engine} /\ xplrs' = Tail(xplrs)
                /\ UNCHANGED <<todo, pc, result>>
           [] OTHER -> Panic /\ UNCHANGED <<xplrs, failed, todo>>
  /\ UNCHANGED <<given, config, opened, rows, tried, mounts, shown, found>>

\* A directory that cannot be made is passed over; a container that cannot be
\* mounted ends the loop of containerd, and only that.
MountOne ==
  /\ pc = "loop" /\ todo # <<>> /\ command.kind = "mount all"
  /\ tried' = Append(tried, Place(Head(todo)))
  /\ \/ mounts' = Append(mounts, Place(Head(todo))) /\ todo' = Tail(todo)
        /\ UNCHANGED failed
     \/ /\ todo' = IF Head(xplrs) = "containerd" THEN <<>> ELSE Tail(todo)
        /\ failed' = IF Head(xplrs) = "containerd"
                     THEN failed \cup {"containerd"} ELSE failed
        /\ UNCHANGED mounts
     \/ todo' = Tail(todo) /\ UNCHANGED <<mounts, failed>>
  /\ UNCHANGED <<given, config, pc, opened, xplrs, rows, shown, found, result>>

ScanOne ==
  /\ pc = "loop" /\ todo # <<>> /\ command.kind = "drift"
  /\ tried' = Append(tried, Place(Head(todo))) /\ todo' = Tail(todo)
  /\ \/ shown' = shown \cup {Place(Head(todo))}
     \/ UNCHANGED shown
  /\ UNCHANGED <<given, config, pc, opened, xplrs, failed, rows, mounts,
                 found, result>>

EndLoop ==
  /\ pc = "loop" /\ todo = <<>>
  /\ xplrs' = Tail(xplrs) /\ pc' = "next"
  /\ UNCHANGED <<given, config, opened, failed, rows, todo, tried, mounts,
                 shown, found, result>>

LoopsEnd ==
  /\ pc = "next" /\ xplrs = <<>> /\ command.kind \in LoopKinds
  /\ pc' = "end" /\ result' = "ok"
  /\ UNCHANGED <<given, config, opened, xplrs, failed, rows, todo, tried,
                 mounts, shown, found>>

-----------------------------------------------------------------------------
(* mount <id>, info and inspect: ForMatchingContainer *)

Knows(list, k) == \E i \in DOMAIN list : list[i].id = k
KnowsName(list, k) ==
  \E i \in DOMAIN list : list[i].id = k \/ list[i].name = k

\* GetContainerByID of an engine: docker and podman list everything first,
\* containerd looks at one record and its task.
Finds(engine, k) ==
  CASE engine = "docker" ->
         IF Knows(DockerContainers(DockerDisk).items, k) THEN "yes" ELSE "no"
    [] engine = "podman" ->
         IF KnowsName(PodmanContainers(disk.podman).items, k)
         THEN "yes" ELSE "no"
    [] OTHER ->
         IF FirstNs(ContainerdDisk, k) = 0 THEN "no"
         ELSE LET c == Stored(ContainerdDisk, k)
              IN  IF \/ HostnamePanics(c)
                     \/ TaskOf(ContainerdDisk, Rooted, c).res = "panic"
                  THEN "panic" ELSE "yes"

\* Mutant: an explorer that does not know the container ends the search.
FindNextStops ==
  /\ pc = "next" /\ xplrs # <<>> /\ command.kind \in FindKinds
  /\ LET finds == Finds(Head(xplrs), command.key)
     IN  CASE finds = "no" -> xplrs' = <<>> /\ UNCHANGED <<found, pc, result>>
           [] finds = "yes" ->
                found' = Head(xplrs) /\ pc' = "found"
                /\ UNCHANGED <<xplrs, result>>
           [] OTHER -> Panic /\ UNCHANGED <<xplrs, found>>
  /\ UNCHANGED <<given, config, opened, failed, rows, todo, tried, mounts,
                 shown>>

FindNext ==
  /\ pc = "next" /\ xplrs # <<>> /\ command.kind \in FindKinds
  /\ LET finds == Finds(Head(xplrs), command.key)
     IN  CASE finds = "no" ->
                xplrs' = Tail(xplrs) /\ UNCHANGED <<found, pc, result>>
           [] finds = "yes" ->
                found' = Head(xplrs) /\ pc' = "found"
                /\ UNCHANGED <<xplrs, result>>
           [] OTHER -> Panic /\ UNCHANGED <<xplrs, found>>
  /\ UNCHANGED <<given, config, opened, failed, rows, todo, tried, mounts,
                 shown>>

\* The function that is called with the explorer that knows the container,
\* whose error is that of the command.
UseFound ==
  /\ pc = "found"
  /\ pc' = "end" /\ result' \in {"ok", "error"}
  /\ UNCHANGED <<given, config, opened, xplrs, failed, rows, todo, tried,
                 mounts, shown, found>>

NotFound ==
  /\ pc = "next" /\ xplrs = <<>> /\ command.kind \in FindKinds
  /\ pc' = "end" /\ result' = "error"
  /\ UNCHANGED <<given, config, opened, xplrs, failed, rows, todo, tried,
                 mounts, shown, found>>

Done == pc = "end" /\ UNCHANGED vars

Step ==
  \/ InitializeRuntime
  \/ GetDocker \/ GetPodman \/ GetContainerd
  \/ ListNext \/ Show
  \/ LoopNext \/ MountOne \/ ScanOne \/ EndLoop \/ LoopsEnd
  \/ FindNext \/ UseFound \/ NotFound

Next == Step \/ Done

Spec == Init /\ [][Next]_vars /\ WF_vars(Step)

-----------------------------------------------------------------------------
(* What is on the disk, without the loops of the program *)

Opened(engine) == engine \in ToSet(opened)
PodmanRoots == {r \in ToSet(disk.podman) : r.ok}
\* The records of containerd, as pairs of a namespace and a container.
Records ==
  UNION {{<<n.name, c>> : c \in ToSet(n.ctrs)} :
           n \in ToSet(ContainerdDisk.nss)}

\* Whether the listing of an engine has nothing that it cannot read.
Intact(engine) ==
  CASE engine = "docker" -> \A c \in ToSet(DockerDisk.configs) : c.ok
    [] engine = "podman" -> TRUE
    [] OTHER -> \A r \in Records : r[2].ok

\* The IDs of the containers that an engine can list.
IDsOf(engine) ==
  IF ~Opened(engine) \/ ~Intact(engine) THEN {}
  ELSE CASE engine = "docker" -> {c.id : c \in ToSet(DockerDisk.configs)}
         [] engine = "podman" ->
              UNION {{e.id : e \in {e \in Entries(r) : e.metadata}} :
                       r \in PodmanRoots}
         [] OTHER -> {r[2].id : r \in Records}

Untellable(id) ==
  \E s \in Stored(ContainerdDisk, id).specs : s.cgroupsPath = "dockerfs"

\* The IDs of the tasks that an engine can list.
TasksOf(engine) ==
  CASE ~Opened(engine) -> {}
    [] Opened(engine) /\ engine = "podman" ->
         IF \E r \in ToSet(disk.podman) : r.db = "bad" THEN {}
         ELSE UNION {{s.id : s \in ToSet(r.states)} :
                       r \in {r \in ToSet(disk.podman) : r.db = "ok"}}
    [] OTHER ->
         IF engine = "containerd"
              /\ (~Rooted \/ \E id \in IDsOf(engine) : Untellable(id))
         THEN {} ELSE IDsOf(engine)

\* Containers of docker and podman are listed without labels.
Wanted(id) ==
  IF id \in IDsOf("docker") \cup IDsOf("podman")
  THEN Matches(command.filter, {})
  ELSE LET c == Stored(ContainerdDisk, id)
       IN  /\ Matches(command.filter, c.labels)
           /\ IsSupportContainer(sc, c) => command.all \/ command.json

ImagesOf(engine) ==
  CASE ~Opened(engine) -> {}
    [] Opened(engine) /\ engine = "docker" ->
         IF ~DockerDisk.imageDir THEN {}
         ELSE UNION {{<<"", i>> : i \in ToSet(r.images)} :
                r \in {r \in ToSet(DockerDisk.repositories) : r.ok}}
    [] Opened(engine) /\ engine = "podman" ->
         UNION {{<<"", i>> : i \in ToSet(r.images.names)} :
                  r \in {r \in ToSet(disk.podman) : r.images.ok}}
    [] OTHER ->
         IF \E n \in ToSet(ContainerdDisk.nss) : ~n.readable THEN {} ELSE
         UNION {{<<n.name, i.repo>> :
                   i \in {i \in ToSet(n.images) :
                     SupportContainerImage(sc, i)
                       => command.all \/ command.json}} :
                  n \in ToSet(ContainerdDisk.nss)}

\* Contents, snapshots and namespaces are those of containerd.
ItemsOf(n) ==
  CASE command.kind = "contents" -> {b.digest : b \in ToSet(n.blobs)}
    [] command.kind = "snapshots" -> {s.key : s \in ToSet(n.snapshots)}
    [] OTHER -> {n.name}
Items ==
  IF \/ ~Opened("containerd")
     \/ \E n \in ToSet(ContainerdDisk.nss) :
          \/ command.kind = "contents" /\ \E b \in ToSet(n.blobs) : ~b.ok
          \/ /\ command.kind = "snapshots" /\ ContainerdDisk.ssdb = "ok"
             /\ \E s \in ToSet(n.snapshots) : s.overlay = "odd"
  THEN {}
  ELSE UNION {{<<n.name, i>> : i \in ItemsOf(n)} :
                n \in ToSet(ContainerdDisk.nss)}

Engines == {"docker", "podman", "containerd"}
AllOf(Of(_)) == UNION {Of(e) : e \in Engines}

-----------------------------------------------------------------------------
(* Properties *)

\* Explorers are asked in one order, each of them once, and the run is at a
\* place that fits what is left to do.
TypeOK ==
  /\ pc \in {"start", "docker", "podman", "containerd", "next", "loop",
             "found", "end"}
  /\ result \in {"running", "ok", "error", "panic"}
  /\ (result = "running") = (pc # "end")
  /\ opened \in {d \o p \o c : d \in {<<>>, <<"docker">>},
                              p \in {<<>>, <<"podman">>},
                              c \in {<<>>, <<"containerd">>}}
  /\ \E i \in 1..(Len(opened) + 1) : xplrs = SubSeq(opened, i, Len(opened))
  /\ failed \subseteq ToSet(opened)
  /\ todo # <<>> => pc = "loop"
  /\ found = "none" \/ Opened(found)
  /\ ToSet(mounts) \subseteq ToSet(tried)

\* Whether names lead out of the directory that they are entered from.
Climbs(names) ==
  \E k \in DOMAIN names :
    names[k] = ".." /\ Walk(<<>>, names)[k - 1] = <<>>

\* A root that is given is taken as it is.  Without it, and with an image, the
\* directory that the image's configuration names by an absolute path is that
\* directory of the image (env.go:79, 90): joining the two paths and cleaning
\* them comes to the same as cleaning the configured path, as its own machine
\* would, and looking for it in the image.  A relative one is somewhere below
\* the image.  Both hold as long as the path does not climb above its first
\* directory: then the join leaves the image, where the machine would have
\* stayed at its root.  With no image either, a root is beside the other one,
\* or not known (env.go:80, 91).
RootsBelong ==
  LET Belongs(flag, root, setting, name, other) ==
        CASE flag # <<>> -> root = flag
          [] flag = <<>> /\ flags.image # <<>> ->
               LET s == Or(setting, DefaultRoot(name))
               IN  /\ s.rooted /\ ~Climbs(s.names) =>
                        root = flags.image \o Join(<<>>, s.names)
                   /\ ~s.rooted /\ ~Climbs(Unslashed(s)) =>
                        IsPrefix(flags.image, root)
          [] OTHER ->
               IF other = <<>> THEN root = <<>>
               ELSE Front(root) = Front(other) /\ Last(root) = name
  IN  pc # "start" =>
        /\ Belongs(flags.docker, dockerRoot, disk.dataRoot, "docker",
                   flags.containerd)
        /\ Belongs(flags.containerd, containerdRoot, disk.configRoot,
                   "containerd", flags.docker)

\* A list that is printed has what each explorer can list, and nothing else:
\* what is damaged in one costs the others nothing (list.go:119-124).
\* Containers and tasks have one row for each ID; images of support
\* containers and support containers are left out of tables.
ListsExactly ==
  result = "ok" /\ command.kind \in ListKinds =>
    LET ids == {r.id : r \in shown}
        pairs == {<<r.ns, r.id>> : r \in shown}
    IN  CASE command.kind = "containers" ->
               /\ ids = {id \in AllOf(IDsOf) : Wanted(id)}
               /\ \A r, s \in shown : r.id = s.id => r = s
          [] command.kind = "tasks" ->
               /\ ids = AllOf(TasksOf)
               /\ \A r, s \in shown : r.id = s.id => r = s
          [] command.kind = "images" -> pairs = AllOf(ImagesOf)
          [] OTHER -> pairs = Items

\* The docker configurations and the records of containerd for an ID, the
\* first of them only.
Configs(id) ==
  IF Opened("docker")
  THEN {c \in ToSet(DockerDisk.configs) : c.ok /\ c.id = id} ELSE {}
Stores(id) ==
  IF Opened("containerd") /\ FirstNs(ContainerdDisk, id) # 0
  THEN {Stored(ContainerdDisk, id)} ELSE {}
States(id) ==
  UNION {{s \in ToSet(r.states) : s.id = id} : r \in ToSet(disk.podman)}

\* The statuses of a container that runs and of one that is paused, in the
\* spellings of list containers and of list tasks.
Runs == {"RUNNING", "running"}
Pauses == {"PAUSED", "paused"}

\* What a configuration of docker and a cgroup have to say for such a status.
ConfigBacks(c, status) ==
  /\ status \in Runs => c.running /\ ~c.paused
  /\ status \in Pauses => c.paused
CgroupBacks(cg, status) ==
  /\ cg.there /\ cg.events /\ cg.populated = 1
  /\ cg.frozen = IF status \in Pauses THEN 1 ELSE 0

\* A row that says that its container runs or is paused has evidence of that
\* ID for just this: docker's configuration, the cgroup of the record of
\* containerd, or podman's own state; and its PID is one that such evidence
\* names, that of state.json only where the cgroup names none.  The rows of
\* several engines and the records of several namespaces are merged, each
\* field for itself (list.go:127).
RowsBacked ==
  command.kind \in {"containers", "tasks"} =>
    \A r \in ToSet(rows) :
      /\ r.status \in Runs \cup Pauses =>
           \/ \E c \in Configs(r.id) : ConfigBacks(c, r.status)
           \/ Rooted /\ \E c \in Stores(r.id) : CgroupBacks(c.cgroup, r.status)
           \/ \E s \in States(r.id) : s.status = r.status
      /\ r.pid \notin {0, NoNumber} =>
           r.pid \in {c.pid : c \in Configs(r.id)}
                    \cup {c.cgroup.procs : c \in Stores(r.id)}
                    \cup {c.init : c \in {c \in Stores(r.id) :
                                           c.cgroup.procs = NoNumber}}
                    \cup {s.pid : s \in States(r.id)}

\* Where the evidence of an engine has its containers: a root or a namespace,
\* and a place there.
Spots(engine) ==
  CASE engine = "docker" -> DOMAIN DockerDisk.configs
    [] engine = "podman" -> UNION {{r} \X DOMAIN disk.podman[r].entries :
                                     r \in DOMAIN disk.podman}
    [] OTHER -> UNION {{n} \X DOMAIN ContainerdDisk.nss[n].ctrs :
                         n \in DOMAIN ContainerdDisk.nss}
EvidenceAt(engine, p) ==
  CASE engine = "docker" -> DockerDisk.configs[p]
    [] engine = "podman" -> disk.podman[p[1]].entries[p[2]]
    [] OTHER -> ContainerdDisk.nss[p[1]].ctrs[p[2]]
NamespaceAt(engine, p) ==
  IF engine = "containerd" THEN ContainerdDisk.nss[p[1]].name ELSE ""

\* Those that mount --all or drift is to go through.
IsMeant(engine, p) ==
  LET c == EvidenceAt(engine, p)
      asked(key) == command.kind = "drift" => command.key \in {"", key}
  IN  CASE engine = "docker" ->
             c.ok /\ asked(c.id) /\ Matches(command.filter, {})
        [] engine = "podman" ->
             /\ disk.podman[p[1]].ok
             /\ IF command.kind # "drift" THEN c.metadata
                ELSE asked(c.id) \/ asked(c.name)
        [] OTHER ->
             /\ NamespaceAt(engine, p) # "moby" /\ asked(c.id)
             /\ Matches(command.filter, c.labels)
             /\ IsSupportContainer(sc, c) => command.all
Meant(engine) ==
  IF Opened(engine) /\ Selected(engine)
  THEN {p \in Spots(engine) : IsMeant(engine, p)} ELSE {}
Due(engine) ==
  {<<engine, NamespaceAt(engine, p), EvidenceAt(engine, p).id>> :
     p \in Meant(engine)}

\* mount --all and drift reach every container of every engine that is meant,
\* and no other, whatever goes wrong with another engine.  An engine fails
\* only with a listing that is damaged, a docker root without containers, or
\* a mount that ends the loop of containerd (containerd.go:772).
EachServed ==
  result = "ok" /\ command.kind \in LoopKinds =>
    \A engine \in Engines :
      LET served == {t \in ToSet(tried) : t[1] = engine}
      IN  IF engine \notin failed THEN served = Due(engine)
          ELSE /\ served \subseteq Due(engine)
               /\ \/ engine = "docker" /\ DockerDisk.configs = <<>>
                  \/ engine = "containerd" /\ ~Intact(engine)
                  \/ engine = "containerd" /\ served \ ToSet(mounts) # {}

\* IDs that no two containers share: those of docker in containerd's
\* namespace moby are no containers of their own.
UniqueIDs ==
  \A d, e \in Engines : \A p \in Meant(d), q \in Meant(e) :
    EvidenceAt(d, p).id = EvidenceAt(e, q).id => d = e /\ p = q

\* mount --all mounts no two containers at one place, and none twice, although
\* docker and containerd both know docker's containers (containerd.go:715) and
\* the place has only the ID for a name.
MountPointsApart ==
  command.kind = "mount all" /\ UniqueIDs =>
    \A i, j \in DOMAIN mounts : i # j => mounts[i][3] # mounts[j][3]

\* The engines that can tell that they have a container by that ID, or for
\* podman that name.
Telling(k) ==
  {e \in Engines : Opened(e) /\
     CASE e = "docker" -> k \in IDsOf(e)
       [] e = "podman" -> Finds(e, k) = "yes"
       [] OTHER -> \E r \in Records : r[2].ok /\ r[2].id = k}

\* A container is not found only if no explorer can tell that it has it, and
\* otherwise it is looked for in the first that can: damage that hides it from
\* one explorer leads to the next (utils.go:69).
FoundIfKnown ==
  command.kind \in FindKinds /\ pc \in {"found", "end"} /\ result # "panic" =>
    IF Telling(command.key) = {} THEN found = "none"
    ELSE found = opened[First(opened, Telling(command.key))]

\* list.go:80: "list containers for all namespaces".  Each record of containerd
\* that docker does not know has a row with its namespace.
AllNamespacesListed ==
  result = "ok" /\ command.kind = "containers" /\ command.filter = <<>>
    /\ command.json /\ Opened("containerd") /\ Intact("containerd") =>
    \A r \in Records :
      r[2].id \notin IDsOf("docker") \cup IDsOf("podman") =>
        \E s \in shown : s.ns = r[1] /\ s.id = r[2].id
=============================================================================
