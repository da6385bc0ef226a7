--------------------------- MODULE ContainerdMount ---------------------------
(***************************************************************************)
(* explorers/containerd: how a container's ID becomes the layers that are  *)
(* mounted.  MountContainer looks the ID up, resolves its snapshotter and  *)
(* key, opens the snapshotter's metadata.db, follows the parents in        *)
(* meta.db, maps each snapshot name to a directory and runs mount.  It is  *)
(* called once by mount, once per container by MountAllContainers, and     *)
(* many times by the exports, on one explorer whose snapshotFile and open  *)
(* databases outlive the calls.  ContainerDrift takes the same way to the  *)
(* upper layer of each container, and scans it instead of mounting.        *)
(***************************************************************************)
EXTENDS Naturals, SequencesExt, Functions, Selection

CONSTANTS
  Evidence,        \* the containerd roots that a run may meet
  Commands,        \* the sequences of MountContainer calls commands make
  MaxChain         \* bound: snapshot keys that one walk may collect

(***************************************************************************)
(* Evidence is a record with the fields                                    *)
(*   records   the containers, in ListContainers order:                    *)
(*             [ns, id, snapshotter, key, support, match], "" if missing   *)
(*   buckets   the snapshotter names in meta.db, in bucket order           *)
(*   keys      the snapshot keys in meta.db, in bucket order               *)
(*   meta      <<ns, snapshotter, key>> -> [name, parent]                  *)
(*   mentions  pairs <<key, id>> such that key contains id                 *)
(*   dirs      the directories of the containerd root, in order:           *)
(*             [owner, holds, db, ids, work]: whose snapshots it has, the  *)
(*             snapshotters whose names its path contains, whether it has  *)
(*             a metadata.db, that file's name -> id, and a work directory *)
(*   links     the snapshot ids whose fs is a symbolic link                *)
(*   cache     the layer cache folder, "" if not used                      *)
(* A command is [kind, calls]: kind "all" is MountAllContainers, "mount"   *)
(* and "export" call MountContainer for the IDs in calls, and "drift" is   *)
(* ContainerDrift, of the ID in calls if there is one.                     *)
(***************************************************************************)
\* Records, buckets and directories are listed in an order, each once; a
\* container has an ID and a bucket a name.  A command names containers, and
\* mount names one.
ASSUME EvidenceAssumption ==
  \A e \in Evidence :
    /\ e.records \in Seq(ToSet(e.records)) /\ IsInjective(e.records)
    /\ \A r \in ToSet(e.records) : r.id # ""
    /\ e.buckets \in Seq(ToSet(e.buckets))
    /\ e.keys \in Seq(ToSet(e.keys)) /\ "" \notin ToSet(e.keys)
    /\ e.dirs \in Seq(ToSet(e.dirs))
    /\ \A c \in Commands[e] :
         /\ c.kind \in {"all", "mount", "export", "drift"}
         /\ c.calls \in Seq(ToSet(e.records))
         /\ c.kind = "mount" => Len(c.calls) = 1

ASSUME MaxChainAssumption == MaxChain \in Nat

VARIABLES
  ev, command,
  pc, todo,             \* the calls still to make
  want,                 \* history: the record the current call is for
  rec, snapshotter, key,    \* locals of MountContainer
  names,                \* the snapshot names collected so far
  snapshotFile,         \* explorer field: index in ev.dirs, 0 when ""
  handles,              \* snapshot databases opened and never closed
  mounts,               \* <<want, layers>> of the mount commands that were
                        \* given layers, in order
  scans,                \* <<want, layer>> of the directories scanned
  failed,               \* history: the records whose own mount failed
  skipped,              \* history: those whose directory was not made
  result,               \* of the command: "running", "ok", "error"
  closed                \* Close has been called

locals == <<want, rec, snapshotter, key, names>>
vars == <<ev, command, pc, todo, locals, snapshotFile, handles, mounts,
          scans, failed, skipped, result, closed>>

-----------------------------------------------------------------------------
\* Reading the databases.

Has(s, k, ns) == <<ns, s, k>> \in DOMAIN ev.meta

\* Mutant: keys that only contain the ID are not searched for.
KeyInExactly(s, r) ==
  LET k == IF r.key = "" THEN r.id ELSE r.key
  IN  IF Has(s, k, r.ns) THEN k ELSE ""

\* The key resolveSnapshotter would take in one snapshotter, "" if none.
KeyIn(s, r) ==
  LET k == IF r.key # "" THEN r.key ELSE r.id
      i == First(ev.keys, {m \in ToSet(ev.keys) :
                             Has(s, m, r.ns) /\ <<m, r.id>> \in ev.mentions})
  IN  IF Has(s, k, r.ns) THEN k
      ELSE IF r.key # "" \/ i = 0 THEN "" ELSE ev.keys[i]

\* resolveSnapshotter: what is missing is searched in meta.db, or defaulted.
Resolve(r) ==
  LET i == First(ev.buckets, {s \in ToSet(ev.buckets) :
                                r.snapshotter \in {"", s} /\ KeyIn(s, r) # ""})
  IN  IF r.snapshotter # "" /\ r.key # ""
      THEN <<r.snapshotter, r.key>>
      ELSE IF i # 0
      THEN <<ev.buckets[i], KeyIn(ev.buckets[i], r)>>
      ELSE <<IF r.snapshotter = "" THEN "overlayfs" ELSE r.snapshotter,
             IF r.key = "" THEN r.id ELSE r.key>>

\* The first directory whose path contains the name, if it has a database.
SnapshotRoot(s) ==
  LET i == First(ev.dirs, {d \in ToSet(ev.dirs) : s \in d.holds})
  IN  IF i # 0 /\ ev.dirs[i].db THEN i ELSE 0

\* One layer: the directory it is in, and the folder a link is replaced by.
Layer(root, id, folder) ==
  <<root, IF ev.cache # "" /\ id \in ev.links THEN folder ELSE "snapshots",
    id>>

\* OverlayPath: identifiers come from the open database, directories from
\* the snapshotter; cached lower layers are always looked for in "layers".
OverlayPath(root, ids) ==
  [i \in DOMAIN ids |->
     Layer(root, ids[i], IF i = 1 THEN ev.cache ELSE "layers")]

-----------------------------------------------------------------------------
Selected(r) == r.ns # "moby" /\ ~r.support /\ r.match

\* The records that the calls of a command stand for.
Calls(e, c) ==
  LET wanted == {r \in ToSet(e.records) :
                   Selected(r) /\ (c.calls # <<>> => r.id = c.calls[1].id)}
  IN  IF c.kind \in {"all", "drift"} THEN Only(e.records, wanted)
                                     ELSE c.calls

Init ==
  /\ ev \in Evidence
  /\ command \in Commands[ev]
  /\ pc = "list" /\ todo = <<>>
  /\ want = <<>> /\ rec = <<>> /\ snapshotter = "" /\ key = ""
  /\ names = <<>>
  /\ snapshotFile = 0 /\ handles = 0
  /\ mounts = <<>> /\ scans = <<>> /\ failed = {} /\ skipped = {}
  /\ result = "running" /\ closed = FALSE

\* ListContainers, for the commands that go through all containers.
List ==
  /\ pc = "list"
  /\ \/ pc' = "next" /\ todo' = Calls(ev, command) /\ UNCHANGED result
     \/ /\ command.kind \in {"all", "drift"}
        /\ pc' = "next" /\ result' = "error" /\ UNCHANGED todo
  /\ UNCHANGED <<ev, command, locals, snapshotFile, handles, mounts, scans,
                 failed, skipped, closed>>

\* Mutant: the database of the container before is kept.
NextContainerKeepsDatabase ==
  /\ pc = "next" /\ todo # <<>>
  /\ want' = Head(todo) /\ todo' = Tail(todo) /\ pc' = "lookup"
  /\ UNCHANGED <<ev, command, rec, snapshotter, key, names, snapshotFile,
                 handles, mounts, scans, failed, skipped, result, closed>>

\* The loop of the command.  MountAllContainers and ContainerDrift forget
\* the database of the container before; a directory that cannot be made
\* skips the container.
NextContainer ==
  /\ pc = "next" /\ todo # <<>>
  /\ want' = Head(todo) /\ todo' = Tail(todo)
  /\ \/ /\ pc' = "lookup"
        /\ snapshotFile' = IF command.kind \in {"all", "drift"} THEN 0
                           ELSE snapshotFile
        /\ UNCHANGED skipped
     \/ /\ command.kind = "all"
        /\ skipped' = skipped \cup {Head(todo)}
        /\ UNCHANGED <<pc, snapshotFile>>
  /\ UNCHANGED <<ev, command, rec, snapshotter, key, names, handles, mounts,
                 scans, failed, result, closed>>

Finish ==
  /\ pc = "next" /\ todo = <<>> /\ result = "running"
  /\ result' = "ok"
  /\ UNCHANGED <<ev, command, pc, todo, locals, snapshotFile, handles, mounts,
                 scans, failed, skipped, closed>>

\* Mutant: drift returns what it has when a container fails.
FailEndsLoop ==
  /\ pc' = "next" /\ failed' = failed \cup {want} /\ todo' = <<>>
  /\ IF command.kind = "drift" THEN UNCHANGED result ELSE result' = "error"

\* An error: the mount commands stop, export --all and drift go on.
Fail ==
  /\ pc' = "next" /\ failed' = failed \cup {want}
  /\ IF command.kind \in {"export", "drift"} THEN UNCHANGED <<todo, result>>
     ELSE todo' = <<>> /\ result' = "error"

Succeed == pc' = "next" /\ UNCHANGED <<todo, failed, result>>
Continue(to) == pc' = to /\ UNCHANGED <<todo, failed, result>>

\* getContainerStoreInfo takes the first record of that ID, of whatever
\* namespace, that can be read; ContainerDrift looks in the container's own.
\* Then resolveSnapshotter.
LookUp ==
  /\ pc = "lookup"
  /\ LET named == {r \in ToSet(ev.records) : r.id = want.id}
     IN  \/ Fail /\ UNCHANGED <<rec, snapshotter, key>>
         \/ \E found \in IF command.kind = "drift" THEN {want} ELSE named :
              /\ rec' = found
              /\ snapshotter' = Resolve(found)[1]
              /\ key' = Resolve(found)[2]
              /\ Continue("open")
  /\ names' = <<>>
  /\ UNCHANGED <<ev, command, want, snapshotFile, handles, mounts,
                 scans, skipped, closed>>

\* Mutant: a database that cannot be opened is waited for.
OpenDatabaseWaits ==
  /\ pc = "open"
  /\ snapshotFile' = IF snapshotFile = 0 THEN SnapshotRoot(snapshotter)
                                         ELSE snapshotFile
  /\ \/ /\ snapshotFile' = 0
        /\ Continue("open") /\ UNCHANGED handles
     \/ /\ snapshotFile' # 0
        /\ handles' = handles + 1
        /\ Continue("walk")
  /\ UNCHANGED <<ev, command, locals, mounts, scans, skipped, closed>>

\* The database of an earlier call is used if there is one.
OpenDatabase ==
  /\ pc = "open"
  /\ snapshotFile' = IF snapshotFile = 0 THEN SnapshotRoot(snapshotter)
                                         ELSE snapshotFile
  /\ \/ Fail /\ UNCHANGED handles
     \/ /\ snapshotFile' # 0
        /\ handles' = handles + 1
        /\ Continue(IF snapshotter = "native" \/ ev.dirs[snapshotFile'].work
                    THEN "walk" ELSE "unsupported")
  /\ UNCHANGED <<ev, command, locals, mounts, scans, skipped, closed>>

\* snapshotKeys: one parent per step.  Nothing ends a cycle of parents.
FollowParent ==
  /\ pc = "walk"
  /\ \/ /\ ~Has(snapshotter, key, rec.ns)
        /\ Fail /\ UNCHANGED <<key, names>>
     \/ /\ Has(snapshotter, key, rec.ns)
        /\ Len(names) < MaxChain
        /\ LET entry == ev.meta[<<rec.ns, snapshotter, key>>]
           IN  /\ names' = Append(names, entry.name)
               /\ \/ entry.parent = "" /\ Continue("mount") /\ UNCHANGED key
                  \/ entry.parent # "" /\ Continue("walk")
                     /\ key' = entry.parent
  /\ UNCHANGED <<ev, command, want, rec, snapshotter, snapshotFile, handles,
                 mounts, scans, skipped, closed>>

\* The paths the collected names stand for; <<>> when one has no identifier.
Layers ==
  LET ids == ev.dirs[snapshotFile].ids
      root == SnapshotRoot(snapshotter)
      used == IF snapshotter = "native" THEN {1} ELSE DOMAIN names
  IN  IF \E i \in used : names[i] \notin DOMAIN ids THEN <<>>
      ELSE IF snapshotter = "native"
      THEN <<<<root, "snapshots", ids[names[1]]>>>>
      ELSE OverlayPath(root, [i \in DOMAIN names |-> ids[names[i]]])

\* An overlay needs a lower layer.
Usable == Layers # <<>> /\ (snapshotter = "native" \/ Len(names) > 1)

\* The mount command decides.
MountLayers ==
  /\ pc = "mount" /\ command.kind # "drift"
  /\ \/ /\ Usable
        /\ mounts' = Append(mounts, <<want, Layers>>)
        /\ Succeed \/ Fail
     \/ ~Usable /\ Fail /\ UNCHANGED mounts
  /\ UNCHANGED <<ev, command, locals, snapshotFile, handles, scans, skipped,
                 closed>>

\* ScanDiffDirectory of the upper layer; a native one is not scanned.
ScanLayer ==
  /\ pc = "mount" /\ command.kind = "drift"
  /\ \/ /\ Usable
        /\ scans' = IF snapshotter = "native" THEN scans
                    ELSE Append(scans, <<want, Layers[1]>>)
        /\ Succeed
     \/ ~Usable /\ Fail /\ UNCHANGED scans
  /\ UNCHANGED <<ev, command, locals, snapshotFile, handles, mounts, skipped,
                 closed>>

\* An unsupported snapshotter is logged, then mount runs with no arguments:
\* it lists the mounts there are, and mounts nothing.
UseNothing ==
  /\ pc = "unsupported"
  /\ Succeed \/ (command.kind # "drift" /\ Fail)
  /\ UNCHANGED <<ev, command, locals, snapshotFile, handles, mounts, scans,
                 skipped, closed>>

\* Mutant: Close closes one snapshot database, opened or not.
CloseOne ==
  /\ result # "running" /\ ~closed
  /\ closed' = TRUE /\ handles' = handles - 1
  /\ UNCHANGED <<ev, command, pc, todo, locals, snapshotFile, mounts, scans,
                 failed, skipped, result>>

\* Close closes meta.db, and none of the snapshot databases.  It is for the
\* users of the interface: the commands leave their explorers open.
Close ==
  /\ result # "running" /\ ~closed
  /\ closed' = TRUE
  /\ UNCHANGED <<ev, command, pc, todo, locals, snapshotFile, handles, mounts,
                 scans, failed, skipped, result>>

\* The command has returned.
Done == result # "running" /\ UNCHANGED vars

Step ==
  \/ List \/ NextContainer \/ Finish \/ LookUp \/ OpenDatabase
  \/ FollowParent \/ MountLayers \/ ScanLayer \/ UseNothing \/ Close

Next == Step \/ Done

\* One thread: a step that can be taken is taken.
Spec == Init /\ [][Next]_vars /\ WF_vars(Step)

-----------------------------------------------------------------------------
TypeOK ==
  /\ ev \in Evidence /\ command \in Commands[ev]
  /\ pc \in {"list", "next", "lookup", "open", "walk", "mount", "unsupported"}
  /\ \A r \in {want, rec} : r = <<>> \/ r \in ToSet(ev.records)
  /\ snapshotFile \in 0..Len(ev.dirs) /\ handles \in Nat
  /\ Len(names) <= MaxChain
  /\ \A m \in ToSet(mounts) : m[1] \in ToSet(ev.records)
  /\ failed \cup skipped \subseteq ToSet(ev.records)
  /\ result \in {"running", "ok", "error"} /\ closed \in BOOLEAN

(***************************************************************************)
(* The reference: the layers of a container, top first, are those of its   *)
(* snapshot and of the snapshot's ancestors in the container's namespace,  *)
(* each in the directory of the container's own snapshotter.               *)
(***************************************************************************)
\* A snapshot's parent, and itself if the parent is not there.
Parent(e) ==
  [d \in DOMAIN e.meta |->
     LET up == <<d[1], d[2], e.meta[d].parent>>
     IN  IF up \in DOMAIN e.meta THEN up ELSE d]

Line(e, d) ==
  LET parent == Parent(e)
      up[n \in Nat] == IF n = 0 THEN d ELSE parent[up[n - 1]]
  IN  up

\* The first ancestor that has no parent.
Depth(e, d) ==
  CHOOSE n \in 0..MaxChain :
    /\ e.meta[Line(e, d)[n]].parent = ""
    /\ \A m \in 0..(n - 1) : e.meta[Line(e, d)[m]].parent # ""

Home(e, s) == CHOOSE i \in DOMAIN e.dirs : e.dirs[i].owner = s

OwnLayers(r) ==
  LET s == Resolve(r)[1]
      own == <<r.ns, s, Resolve(r)[2]>>
      dir == Home(ev, s)
      last == IF s = "native" THEN 0 ELSE Depth(ev, own)
  IN  [n \in 1..(last + 1) |->
         Layer(dir, ev.dirs[dir].ids[ev.meta[Line(ev, own)[n - 1]].name],
               ev.cache)]

(***************************************************************************)
(* Each mount command that MountContainer runs names the layers of the     *)
(* container it was asked for, and no layer of another namespace,          *)
(* snapshotter or earlier call (explorers.go:67 "MountContainer mounts a   *)
(* container to the specified path"); and the drift that is reported for a *)
(* container is that of its own upper layer.                               *)
(***************************************************************************)
LayersAreOwn ==
  /\ \A m \in ToSet(mounts) : m[2] = OwnLayers(m[1])
  /\ \A m \in ToSet(scans) : m[2] = OwnLayers(m[1])[1]

(***************************************************************************)
(* That needs evidence in which nothing can be taken for something else:   *)
(* one container of each ID, one snapshotter for the calls of a command,   *)
(* the directory found for a snapshotter its own and the only one, no link *)
(* for the snapshot of a native container, and a layer cache that has the  *)
(* name the code looks for (containerd.go:640-760).                        *)
(***************************************************************************)
OwnDirectory(s) ==
  SnapshotRoot(s) # 0 =>
    \A i \in DOMAIN ev.dirs : ev.dirs[i].owner = s <=> i = SnapshotRoot(s)

NoLink(r) ==
  LET s == Resolve(r)[1]
      own == <<r.ns, s, Resolve(r)[2]>>
      ids == ev.dirs[SnapshotRoot(s)].ids
  IN  s = "native" /\ SnapshotRoot(s) # 0 /\ own \in DOMAIN ev.meta =>
        \A n \in DOMAIN ids : n = ev.meta[own].name => ids[n] \notin ev.links

NothingMixed ==
  /\ \A r, q \in ToSet(ev.records) : r.id = q.id => r = q
  /\ \A r, q \in ToSet(command.calls) : Resolve(r)[1] = Resolve(q)[1]
  /\ \A r \in ToSet(ev.records) : OwnDirectory(Resolve(r)[1])
  /\ \/ ev.cache = ""
     \/ ev.cache = "layers" /\ \A r \in ToSet(ev.records) : NoLink(r)

LayersAreOwnUnmixed == NothingMixed => LayersAreOwn

(***************************************************************************)
(* Success accounts for every selected container.  mount and mount --all   *)
(* report it only if no mount failed, and nothing else was mounted; a con- *)
(* tainer that was not is one whose directory could not be made (contain-  *)
(* erd.go:758-772), or one with a record of its ID for whose snapshotter   *)
(* the code has no mount (681).  "ContainerDrift finds drifted files from  *)
(* all the containers" (780): each one was scanned, or failed by its own   *)
(* evidence, whatever happened to the ones before; containers of the       *)
(* native snapshotter, and of unsupported ones, are the only ones passed   *)
(* over in silence.                                                        *)
(***************************************************************************)
Unsupported(s) ==
  /\ s # "native"
  /\ SnapshotRoot(s) # 0 /\ ~ev.dirs[SnapshotRoot(s)].work

HasNoMount(r) ==
  \E q \in ToSet(ev.records) : q.id = r.id /\ Unsupported(Resolve(q)[1])

WasMounted(r) == \E m \in ToSet(mounts) : m[1] = r
WasScanned(r) == \E m \in ToSet(scans) : m[1] = r

OkAccounts ==
  result = "ok" =>
    LET calls == ToSet(Calls(ev, command))
    IN  /\ command.kind \in {"mount", "all"} =>
             /\ failed = {}
             /\ \A m \in ToSet(mounts) : m[1] \in calls \ skipped
             /\ \A r \in calls \ skipped : WasMounted(r) \/ HasNoMount(r)
        /\ command.kind = "drift" =>
             \A r \in calls :
               \/ Resolve(r)[1] = "native" \/ Unsupported(Resolve(r)[1])
               \/ r \in failed \/ WasScanned(r)

(***************************************************************************)
(* An incomplete container record is completed with a snapshot that is in  *)
(* its namespace and that the record does not contradict, whenever there   *)
(* is one (resolveSnapshotter).                                            *)
(***************************************************************************)
Candidate(r, s, k) ==
  /\ Has(s, k, r.ns)
  /\ r.snapshotter \in {"", s}
  /\ \/ r.key = k
     \/ r.key = "" /\ (k = r.id \/ <<k, r.id>> \in ev.mentions)

ResolutionFinds ==
  (/\ pc = "open"
   /\ rec.snapshotter = "" \/ rec.key = ""
   /\ \E s \in ToSet(ev.buckets), k \in ToSet(ev.keys) : Candidate(rec, s, k))
  => Candidate(rec, snapshotter, key)

\* Every command returns when no parents form a cycle.
CommandReturns == <>(result # "running")
=============================================================================
