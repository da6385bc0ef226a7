---------------------------- MODULE DockerMount ----------------------------
(***************************************************************************)
(* explorers/docker: how a container becomes the layers that are mounted,  *)
(* for both storage drivers.  overlay2 keeps them in files beside the      *)
(* layers; with overlayfs (Docker 29) they are a chain of buckets in the   *)
(* metadata.db of containerd's snapshotter, found by the container's ID    *)
(* and followed from parent to parent.  mount calls MountContainer once,   *)
(* mount --all MountAllContainers, and drift ContainerDrift, which takes   *)
(* the same way to the upper layer of each container and scans it.         *)
(***************************************************************************)
EXTENDS Naturals, SequencesExt

CONSTANTS
  Evidence,        \* the docker roots that a run may meet
  Commands         \* the commands: [kind, id], id is "" for all containers

(***************************************************************************)
(* Evidence is a record with the fields                                    *)
(*   containers  the directories in containers/, in order:                 *)
(*               [id, config, driver, match]: whether config.v2.json can   *)
(*               be read, its driver, and whether the filter selects it    *)
(*   mountID     [id -> directory] where the mount-id file can be read     *)
(*   link        [directory -> upper layer] where the link file can        *)
(*   lower       [directory -> lower layers] where the lower file can      *)
(*   open        snapshotDB is open                                        *)
(*   snapshots   the buckets under v1/snapshots, in order:                 *)
(*               [ns, key, layer, parent]: the parts of the name, the      *)
(*               layer of the id ("" if there is no id), and the index of  *)
(*               the parent's bucket, 0 for none and more than the length  *)
(*               for one that is missing                                   *)
(*   longer      pairs <<key, id>> such that key is longer than id and     *)
(*               begins with it                                            *)
(***************************************************************************)
\* Containers and buckets are listed in an order; parents are positions.
ASSUME EvidenceAssumption ==
  \A e \in Evidence :
    /\ e.containers \in Seq(ToSet(e.containers))
    /\ e.snapshots \in Seq(ToSet(e.snapshots))
    /\ \A i \in DOMAIN e.snapshots : e.snapshots[i].parent \in Nat
    /\ \A d \in DOMAIN e.lower : e.lower[d] \in Seq(ToSet(e.lower[d]))

VARIABLES
  ev, command,
  pc, todo,             \* the containers still to handle
  container,            \* the one under way
  bucket, active, visited, lowerPaths,   \* locals of GetOverlayfsLayers
  upper,                \* the upper layer found
  mounts,               \* <<container, layers>> of the mount commands run
  scans,                \* <<container, layer>> of the directories scanned
  failed,               \* history: <<container, what>>, by what it failed
  result

locals == <<bucket, active, visited, lowerPaths, upper>>
vars == <<ev, command, pc, todo, container, locals, mounts, scans, failed,
          result>>

Snapshots == DOMAIN ev.snapshots

Init ==
  /\ ev \in Evidence /\ command \in Commands
  /\ pc = "list" /\ todo = <<>> /\ container = <<>>
  /\ bucket = 0 /\ active = 0 /\ visited = {} /\ lowerPaths = <<>>
  /\ upper = ""
  /\ mounts = <<>> /\ scans = <<>> /\ failed = {} /\ result = "running"

-----------------------------------------------------------------------------
\* Before the loop, and its head.

\* MountContainer is called for an ID that GetContainerByID has found: it
\* lists all containers, and one unreadable configuration fails the listing.
Finds(id) ==
  /\ \A c \in ToSet(ev.containers) : c.config
  /\ \E c \in ToSet(ev.containers) : c.id = id

ListForAll ==
  /\ pc = "list" /\ command.kind \in {"all", "drift"}
  /\ IF ev.containers = <<>>
     THEN pc' = "end" /\ result' = "error" /\ UNCHANGED todo
     ELSE pc' = "next" /\ todo' = ev.containers /\ UNCHANGED result
  /\ UNCHANGED <<ev, command, container, locals, mounts, scans, failed>>

ListForOne ==
  /\ pc = "list" /\ command.kind = "mount"
  /\ IF Finds(command.id)
     THEN /\ pc' = "next" /\ UNCHANGED result
          /\ \E c \in ToSet(ev.containers) :
               c.id = command.id /\ todo' = <<c>>
     ELSE pc' = "end" /\ result' = "error" /\ UNCHANGED todo
  /\ UNCHANGED <<ev, command, container, locals, mounts, scans, failed>>

\* What the loops of MountAllContainers and ContainerDrift go on with.
Wanted(c) ==
  command.kind \in {"all", "drift"} =>
    /\ c.config /\ c.match
    /\ command.id \in {"", c.id}

\* A failure ends MountContainer; the loops log it and go on.
Fail(what) ==
  /\ failed' = failed \cup {<<container, what>>}
  /\ IF command.kind = "mount" THEN pc' = "end" /\ result' = "error"
                               ELSE pc' = "next" /\ UNCHANGED result

Goto(from, to) == pc = from /\ pc' = to /\ UNCHANGED <<failed, result>>

\* Mutant: an unreadable configuration ends the loop.
SkipContainerStops ==
  /\ pc = "next" /\ todo # <<>> /\ ~Wanted(Head(todo))
  /\ todo' = IF Head(todo).config THEN Tail(todo) ELSE <<>>
  /\ UNCHANGED <<ev, command, pc, container, locals, mounts, scans, failed,
                 result>>

SkipContainer ==
  /\ pc = "next" /\ todo # <<>> /\ ~Wanted(Head(todo))
  /\ todo' = Tail(todo)
  /\ UNCHANGED <<ev, command, pc, container, locals, mounts, scans, failed,
                 result>>

\* MountAllContainers makes the mount point; where that fails it goes on.
NextContainer ==
  /\ pc = "next" /\ todo # <<>> /\ Wanted(Head(todo))
  /\ container' = Head(todo) /\ todo' = Tail(todo)
  /\ \/ pc' = "driver" /\ UNCHANGED failed
     \/ /\ command.kind = "all"
        /\ failed' = failed \cup {<<Head(todo), "mkdir">>} /\ UNCHANGED pc
  /\ UNCHANGED <<ev, command, locals, mounts, scans, result>>

Finish ==
  /\ pc = "next" /\ todo = <<>>
  /\ pc' = "end" /\ result' = "ok"
  /\ UNCHANGED <<ev, command, todo, container, locals, mounts, scans, failed>>

-----------------------------------------------------------------------------
\* Finding the layers.

\* ReadContainerConfig, and the switch over the driver.
ChooseDriver ==
  /\ pc = "driver"
  /\ \/ container.driver = "overlay2" /\ Goto("driver", "files")
     \/ container.driver = "overlayfs" /\ Goto("driver", "pick")
     \/ container.driver \notin {"overlay2", "overlayfs"} /\ Fail("driver")
  /\ UNCHANGED <<ev, command, todo, container, locals, mounts, scans>>

\* The files of overlay2.  Only a mount needs the lower layers.
ReadLayers ==
  /\ pc = "files"
  /\ LET id == container.id
         readable == /\ id \in DOMAIN ev.mountID
                     /\ ev.mountID[id] \in DOMAIN ev.link
                     /\ command.kind # "drift" =>
                          ev.mountID[id] \in DOMAIN ev.lower
     IN  \/ ~readable /\ Fail("files") /\ UNCHANGED <<upper, lowerPaths>>
         \/ /\ readable /\ Goto("files", "use")
            /\ upper' = ev.link[ev.mountID[id]]
            /\ lowerPaths' = IF command.kind = "drift" THEN <<>>
                             ELSE ev.lower[ev.mountID[id]]
  /\ UNCHANGED <<ev, command, todo, container, bucket, active, visited, mounts,
                 scans>>

\* The buckets of a namespace whose key is the ID, or begins with it.
Exact(id) == {i \in Snapshots : /\ ev.snapshots[i].ns = "moby"
                                /\ ev.snapshots[i].key = id}
Longer(id) == {i \in Snapshots : /\ ev.snapshots[i].ns = "moby"
                                 /\ <<ev.snapshots[i].key, id>> \in ev.longer}

\* The one the search ends with, 0 when there is none or not one.
Match(id) ==
  IF Exact(id) # {} THEN Max(Exact(id))
  ELSE IF Cardinality(Longer(id)) = 1 THEN Max(Longer(id)) ELSE 0

\* Mutant: the first key that begins with the ID is taken.
PickSnapshotByPrefix ==
  /\ pc = "pick"
  /\ visited' = {} /\ lowerPaths' = <<>> /\ upper' = ""
  /\ LET keys == Exact(container.id) \cup Longer(container.id)
         found == IF ev.open /\ keys # {} THEN Max(keys) ELSE 0
     IN  /\ active' = found /\ bucket' = found
         /\ IF found = 0 THEN Fail("snapshot") ELSE Goto("pick", "walk")
  /\ UNCHANGED <<ev, command, todo, container, mounts, scans>>

\* Mutant: an exact match is one of the matches.
PickSnapshotUnique ==
  /\ pc = "pick"
  /\ visited' = {} /\ lowerPaths' = <<>> /\ upper' = ""
  /\ LET keys == Exact(container.id) \cup Longer(container.id)
         found == IF ev.open /\ Cardinality(keys) = 1 THEN Max(keys) ELSE 0
     IN  /\ active' = found /\ bucket' = found
         /\ IF found = 0 THEN Fail("snapshot") ELSE Goto("pick", "walk")
  /\ UNCHANGED <<ev, command, todo, container, mounts, scans>>

\* GetOverlayfsLayers up to its loop.
PickSnapshot ==
  /\ pc = "pick"
  /\ visited' = {} /\ lowerPaths' = <<>> /\ upper' = ""
  /\ LET found == IF ev.open THEN Match(container.id) ELSE 0
     IN  /\ active' = found /\ bucket' = found
         /\ IF found = 0 THEN Fail("snapshot") ELSE Goto("pick", "walk")
  /\ UNCHANGED <<ev, command, todo, container, mounts, scans>>

\* The buckets that exist and have an id.
Readable == {i \in Snapshots : ev.snapshots[i].layer # ""}

\* Mutant: a layer is listed once, and a cycle is not looked for.
FollowParentAgain ==
  /\ pc = "walk"
  /\ \/ bucket = 0 /\ Goto("walk", "use")
        /\ UNCHANGED <<bucket, visited, upper, lowerPaths>>
     \/ /\ bucket # 0
        /\ bucket \notin Readable
        /\ Fail("chain") /\ UNCHANGED <<bucket, visited, upper, lowerPaths>>
     \/ /\ bucket \in Readable
        /\ Goto("walk", "walk")
        /\ visited' = visited \cup {bucket}
        /\ bucket' = ev.snapshots[bucket].parent
        /\ upper' = ev.snapshots[active].layer
        /\ lowerPaths' = IF bucket \in visited \cup {active} THEN lowerPaths
                         ELSE Append(lowerPaths, ev.snapshots[bucket].layer)
  /\ UNCHANGED <<ev, command, todo, container, active, mounts, scans>>

\* Mutant: the parent is marked before it is looked up.
FollowParentEarly ==
  /\ pc = "walk"
  /\ bucket \in Snapshots
  /\ visited' = visited \cup {ev.snapshots[bucket].parent}
  /\ bucket' = ev.snapshots[bucket].parent
  /\ Goto("walk", "use")
  /\ UNCHANGED <<ev, command, todo, container, active, upper, lowerPaths,
                 mounts, scans>>

\* One iteration of the loop over the parents.
FollowParent ==
  /\ pc = "walk"
  /\ \/ bucket = 0 /\ Goto("walk", "use")
        /\ UNCHANGED <<bucket, visited, upper, lowerPaths>>
     \/ /\ bucket # 0
        /\ bucket \notin Readable \ visited
        /\ Fail("chain") /\ UNCHANGED <<bucket, visited, upper, lowerPaths>>
     \/ /\ bucket \in Readable \ visited
        /\ Goto("walk", "walk")
        /\ visited' = visited \cup {bucket}
        /\ bucket' = ev.snapshots[bucket].parent
        /\ IF bucket = active
           THEN upper' = ev.snapshots[bucket].layer /\ UNCHANGED lowerPaths
           ELSE /\ lowerPaths' = Append(lowerPaths, ev.snapshots[bucket].layer)
                /\ UNCHANGED upper
  /\ UNCHANGED <<ev, command, todo, container, active, mounts, scans>>

-----------------------------------------------------------------------------
\* What is done with them.

\* The mount command; it needs a lower layer, and may fail for its own.
MountLayers ==
  /\ pc = "use" /\ command.kind # "drift"
  /\ \/ /\ lowerPaths # <<>>
        /\ mounts' = Append(mounts, <<container, <<upper>> \o lowerPaths>>)
        /\ Goto("use", "next")
     \/ Fail("mount") /\ UNCHANGED mounts
  /\ UNCHANGED <<ev, command, todo, container, locals, scans>>

\* ScanDiffDirectory of the upper layer.
ScanLayer ==
  /\ pc = "use" /\ command.kind = "drift"
  /\ \/ scans' = Append(scans, <<container, upper>>) /\ Goto("use", "next")
     \/ Fail("scan") /\ UNCHANGED scans
  /\ UNCHANGED <<ev, command, todo, container, locals, mounts>>

\* The command has returned.
Done == pc = "end" /\ UNCHANGED vars

Step ==
  \/ ListForAll \/ ListForOne \/ SkipContainer \/ NextContainer \/ Finish
  \/ ChooseDriver \/ ReadLayers \/ PickSnapshot \/ FollowParent
  \/ MountLayers \/ ScanLayer

Next == Step \/ Done

\* One thread: a step that can be taken is taken.
Spec == Init /\ [][Next]_vars /\ WF_vars(Step)

-----------------------------------------------------------------------------
Layer == {ev.snapshots[i].layer : i \in Snapshots}
         \cup {ev.link[d] : d \in DOMAIN ev.link}
         \cup UNION {ToSet(ev.lower[d]) : d \in DOMAIN ev.lower}

TypeOK ==
  /\ ev \in Evidence /\ command \in Commands
  /\ pc \in {"list", "next", "driver", "files", "pick", "walk", "use", "end"}
  /\ container \in ToSet(ev.containers) \cup {<<>>}
  /\ ToSet(todo) \subseteq ToSet(ev.containers)
  /\ active \in Snapshots \cup {0} /\ visited \subseteq Snapshots
  /\ upper \in Layer \cup {""} /\ ToSet(lowerPaths) \subseteq Layer
  /\ \A m \in ToSet(mounts) \cup ToSet(scans) : m[1] \in ToSet(ev.containers)
  /\ result \in {"running", "ok", "error"}

(***************************************************************************)
(* The reference: a bucket, its parent, the parent of that, and so on; the *)
(* layers of those up to the first without a parent.                       *)
(***************************************************************************)
Parent(e) ==
  [i \in Nat |-> IF i \in DOMAIN e.snapshots THEN e.snapshots[i].parent ELSE i]

Line(e, i) ==
  LET up[n \in Nat] == IF n = 0 THEN i ELSE Parent(e)[up[n - 1]]
  IN  up

Chain(e, i) ==
  LET n == CHOOSE n \in 0..Len(e.snapshots) :
             /\ Line(e, i)[n] \in DOMAIN e.snapshots
             /\ Parent(e)[Line(e, i)[n]] = 0
  IN  [k \in 1..(n + 1) |-> e.snapshots[Line(e, i)[k - 1]].layer]

OwnLayers(c) ==
  IF c.driver = "overlay2"
  THEN {<<ev.link[ev.mountID[c.id]]>> \o ev.lower[ev.mountID[c.id]]}
  ELSE {Chain(ev, i) : i \in Exact(c.id)}

OwnUpper(c) ==
  IF c.driver = "overlay2" THEN {ev.link[ev.mountID[c.id]]}
  ELSE {ev.snapshots[i].layer : i \in Exact(c.id)}

HasOwn(c) == c.driver = "overlay2" \/ Exact(c.id) # {}

(***************************************************************************)
(* Each mount command names the layers of the container it is for, the     *)
(* upper one first and each layer before its parent, and each scan its     *)
(* upper layer, for both drivers, whenever the container has a snapshot of *)
(* its own.  (One without is given the only snapshot whose key begins with *)
(* its ID, if there is one, "Allow matching short container ID (prefix     *)
(* match)", docker.go:544.)                                                *)
(***************************************************************************)
LayersAreOwn ==
  /\ \A m \in ToSet(mounts) : HasOwn(m[1]) => m[2] \in OwnLayers(m[1])
  /\ \A m \in ToSet(scans) : HasOwn(m[1]) => m[2] \in OwnUpper(m[1])

(***************************************************************************)
(* mount --all and drift serve every container they select: one that is    *)
(* not mounted or scanned in the end has failed by its own evidence or its *)
(* own commands, however damaged the others are (docker.go:671-727,        *)
(* 752-870).                                                               *)
(***************************************************************************)
EachIsServed ==
  command.kind \in {"all", "drift"} /\ result = "ok" =>
    \A c \in ToSet(ev.containers) : Wanted(c) =>
      \/ \E m \in ToSet(mounts) \cup ToSet(scans) : m[1] = c
      \/ \E f \in failed : f[1] = c

(***************************************************************************)
(* A failure is never guessed: a container whose files or whose chain of   *)
(* snapshots is intact fails only by mkdir, mount or the scan.             *)
(***************************************************************************)
Unbroken(e, i) ==
  LET reached == {Line(e, i)[n] : n \in 0..(Len(e.snapshots) + 1)}
  IN  /\ 0 \in reached /\ reached \subseteq DOMAIN e.snapshots \cup {0}
      /\ \A k \in reached \ {0} : e.snapshots[k].layer # ""

Intact(c) ==
  \/ /\ c.driver = "overlay2" /\ c.id \in DOMAIN ev.mountID
     /\ ev.mountID[c.id] \in DOMAIN ev.link \cap DOMAIN ev.lower
  \/ /\ c.driver = "overlayfs" /\ ev.open /\ Exact(c.id) # {}
     /\ \A i \in Exact(c.id) : Unbroken(ev, i)

IntactIsFound ==
  \A f \in failed : Intact(f[1]) => f[2] \in {"mkdir", "mount", "scan"}

\* Every command returns, also when the parents form a cycle.
CommandReturns == <>(result # "running")
=============================================================================
