# Container Explorer in TLA+

Container Explorer reads the disk of a computer that ran containers, usually a
forensic image mounted somewhere, and lists, mounts, scans for drift and exports
the containers that containerd, docker and podman left on it. It is a command
line program with one thread. What makes it hard to get right is not concurrency
but *failure in the middle*: long sequences of system calls and commands (mkfs,
losetup, mount, cp, umount, tar), each of which can fail; deferred functions that
unwind them; files, mounts and loop devices that outlive the process; fields of an
explorer that outlive a call; and evidence that is damaged, incomplete or strange.

This directory holds TLA+ models of those parts, TLC configurations that check
them on small instances, and proofs that the TLA+ proof system checks.

Paths below are relative to `src/`.

## 1. Inventory

| Component | Code | State | Operations |
|---|---|---|---|
| image export | `utils/export.go:31-200` | locals `success`, `loopDevice`, `mounted`, `unmounted`; the file `<ID>.raw`, a loop device, a mount, a temporary directory | `ExportContainerImage` |
| archive export | `utils/export.go:202-243` | local `success`; the file `<ID>.tar.gz` | `ExportContainerArchive` |
| export loops | `explorers/{containerd,docker,podman}/export.go`, `cmd/commands/export.go`, `cmd/commands/utils.go` | the defer stack of one call, mount points under the temporary directory | `ExportContainer`, `ExportAllContainers`, `ForMatchingContainer` |
| containerd mount and drift | `explorers/containerd/containerd.go:92-125, 453-941`, `snapshot.go`, `bucket.go` | explorer fields `mdb`, `snapshotFile`; open databases | `MountContainer`, `MountAllContainers`, `ContainerDrift`, `Close` |
| drift scan | `explorers/fileinfo.go` | the set `visited`, the two result lists | `ScanDiffDirectory`, `GetFileInfo` |
| containerd listings | `explorers/containerd/containerd.go:127-451`, `content.go` | none | `ListContainers`, `ListImages`, `ListContent`, `ListSnapshots`, `ListTasks` |
| docker explorer | `explorers/docker/*.go` | package variable `imagerepo`, the docker root | the same interface over JSON files and layer directories |
| podman explorer | `explorers/podman/*.go` | the list of storage roots of all users | `getPodmanRootDirs`, and the same interface over `containers.json` and layer directories of several users |
| mount and drift commands | `cmd/commands/mount.go`, `mount_all.go`, `drift.go` | none | a loop over the explorers |
| list and info commands | `cmd/commands/list.go`, `info.go` | the merged result | listing, merging, filtering, printing |
| runtime initialisation | `cmd/main.go`, `cmd/commands/env.go` | the environment | choice of roots, opening of the explorers |
| task status | `explorers/runtime.go` | none | status and PID of a task from cgroup and state files |
| support containers | `explorers/support_containers.go` | criteria from YAML | `IsSupportContainer` |
| command runner, paths | `utils/command.go`, `file.go`, `container.go` | none | `RunCommand`, `GetMountPoint`, `CalculateDirectorySize`, `IncludeContainer` |
| data types | `explorers/*.go` | none | none |

How they interact: a command (`cmd/commands`) opens the explorers (`env.go`) and
calls one or all of them through the interface `explorers.ContainerExplorer`. The
export of a container calls `MountContainer` of its explorer, hands the mount
point to the two file exports, and unmounts when the function returns.
`MountAllContainers` and `ContainerDrift` call the same resolution of snapshots.
`ContainerDrift` hands the upper directory to `ScanDiffDirectory`. Everything is
a synchronous call; what is shared is the file system, the kernel's mount table
and the fields of an explorer.

Which behaviours are hard, per component, and what makes each one correct:

- **Image export.** Nine commands, two deferred functions, repeated calls for one
  file, a process that can be killed. The result must tell the truth about the
  file; what a call leaves in the kernel must be explained by a command that
  failed, or by a file system that a lazy unmount left alive; nothing may be removed
  through a live mount; the file is unlinked last.
- **Archive export.** `tar` truncates before it fails. A partial archive may
  survive only a kill or a refused unlink.
- **Export loops.** Each pass over a namespace adds a mount that stays until the
  function returns, so mounts and directories must be accounted for on every path;
  a file must hold what was mounted for the ID that it is named after; a failing
  container must cost the others nothing.
- **containerd mount.** Records are incomplete, names are searched for, and an
  explorer field is kept from one call to the next. Each mount must name the
  container's own layers; success must account for every container, and should mean
  mounted.
- **Drift scan.** The links in a container's directory form cycles and lead out
  of it. The scan must end, report once, miss nothing and tell deletions from
  changes.
- **docker mount.** Two storage drivers; chains of snapshots in databases that may be
  damaged or cyclic, found by a key of which another key is a longer form. Layers must
  be the container's own, and no container may fail for the damage of another.
- **podman mount.** Stores of several users, names that need not be unique, two places
  that name a container. Each container must get its turn and its own layers.
- **Listings and task status.** Records of one ID from several engines and namespaces,
  task states read from several files in two spellings, and readers that give up on one
  bad record. A row that says that its container runs must have evidence of its own ID for
  just this, and lists must be complete where they can be.
- **Commands over the engines.** Roots that are guessed from each other or joined from the
  image and what its configuration names, engines that cannot be opened, containers that two
  engines know. One engine's damage must cost the others nothing, no mount point may be
  mounted twice, and an ID must be found by the first engine that can tell.

`PROJECT.json` lists every hazard at the line where it bites, with the properties
that would catch it, or the reason why none does.

## 2. The modules

```
ExportPromise            what one file export promises its caller
  ^            ^   implemented by (PROPERTY, refinement mapping)
ImageExport  ArchiveExport
  ^            ^
FileExports_proof        theorems about both file exports

ContainerExport          the export loops; INSTANCEs ExportPromise twice
  MCContainerExport      evidence and options for TLC
  ContainerExport_proof  theorems about ContainerExport

ContainerdMount          resolution, layers, MountContainer and its callers
  MCContainerdMount      containerd roots and commands for TLC
  ContainerdMount_proof  theorems about ContainerdMount

DockerMount              docker's layers for both drivers, mount, mount --all, drift
  MCDockerMount          docker roots, intact and damaged, for TLC
  DockerMount_proof      theorems about DockerMount

PodmanMount              podman's stores and names, mount, mount --all, drift
  MCPodmanMount          users, stores and containers for TLC
  PodmanMount_proof      theorems about PodmanMount

DriftScan                ScanDiffDirectory over a graph of directories and links
  MCDriftScan            the file systems for TLC
  DriftScan_proof        theorems about DriftScan

Selection                what a loop takes of a list: Only, First
SequenceLemmas           facts that the proofs about sequences share

TaskStatus               status and PID of a task, pure operators
  Listings               what each explorer lists, pure operators
    Commands             one run of the program over all explorers
      MCCommands         roots, flags and commands for TLC
      Commands_proof     theorems about Commands and the listings
```

`ExportPromise` is the joint. `ImageExport` and `ArchiveExport` are checked to
and proved to implement it, and `ContainerExport` is built on it
instead of on their dozens of steps. `Selection` has the two operators that translate the
code's loops over a list, "append the elements that pass" (`Only`) and "take the first that
passes" (`First`), with the test given as a set. They are `SelectSeq` and `SelectInSeq`,
which the provers cannot look into: the one is recursive, the other takes an operator.

Operators whose comment begins with "Mutant:" are wrong versions of the operator
that follows them: a missing reset, a dropped guard, an ignored error. No
specification uses them. They are kept to show that each property can be broken:
`PROJECT.json` pairs each property with the version that violates it.

### ImageExport (`utils/export.go:31-200`)

One action per system call or command, in program order, with its failure as a
disjunct: `MakeOutputDir`, `CalculateSize`, `CreateFile`, `TruncateFile`,
`CloseFile`, `FormatFile`, `MakeTempDir`, `SetupLoopDevice`, `MountImage`,
`CopyContent`, `SyncContent`. A failure jumps to the deferred function that is
registered at that point: to `umount` after line 107, to `rmfile` after line 41,
to nothing before. `Unmount`, `LazyUnmount`, `DetachLoopDevice`, `RemoveTempDir`
are the second deferred function, `RemoveFile` is the first, which runs last.

- `image[c]` is what `<ID>.raw` holds: `dirty` is copied and not flushed, `partial`
  is a copy that failed, `corrupt` is written by two mounts.
- `success`, `loopDevice`, `mounted`, `unmounted` are the code's locals as Booleans;
  `attached`, `live`, `tempDir` are what the kernel really holds, which may differ:
  losetup can attach a device and print nothing (line 157), umount can fail.
- `lingering` and `deferred`: `umount -l` runs where `umount` was refused, so somebody uses
  the file system. It leaves the directory at once (`live` becomes FALSE) and lives on
  unflushed, `lingering`. `losetup -d` of a device with a file system on it returns 0 and is
  `deferred` (`DeviceDetaches`). `Alive` is either of `live` and `lingering`.
- The kernel's own steps: `WriteBack` flushes the pages of a file that a file system is in
  (`Held`), `LastUserGone` ends a lingering file system, with its device if its detach is
  deferred. Neither is a step of the program, and neither is fair.
- `pinned` and `stale`: a call that leaves a file system, mounted or lingering, pins the
  file; a later call that re-creates the file in place (line 61) makes it stale, and the
  old file system may then write to it at any time (`LateWriteback`). A loop device
  without a file system pins nothing, for it writes nothing.
- `Interrupt` ends the process at any step, without deferred functions: the program
  installs no signal handler.
- `outcome` and `faults` are history variables for the properties.

### ArchiveExport (`utils/export.go:202-243`)

`StartTar` and `FinishTar` separate the moment when tar truncates the archive
from its exit, so that a kill or a failure between them is a behaviour.

### ContainerExport (the three `export.go`, `cmd/commands/export.go`, `utils.go`)

`Calls` is the sequence of `ExportContainer` calls that the command line and the
evidence lead to. Each call goes through `NextPass`, `MakeMountpoint`, `Mount`, the
two exports, and at its end unwinds `defers`, the defer stack, with `Unmount` and
`RemoveMountpoint`. containerd and docker make one pass per namespace, podman one.
The explorers differ in which container an ID finds (`Finds`, `Record`), and a setup says of
each whether its ListNamespaces and its ListContainers succeed.

What `MountContainer` leaves at the mount point when it returns nil is a parameter: the
`yields` of a record, a set of contents. It may have `None` (nothing was mounted, as for an
unsupported snapshotter, `containerd.go:681`) and other layers than the record's own. Which
of them a mount leaves is the subject of the mount modules. `imgSource` and `arcSource` are
history: what was at the mount point when the file was filled.

### ContainerdMount (`explorers/containerd`)

The evidence `ev` is a constant of a behaviour: container records, the snapshot
buckets of meta.db, the directories of the containerd root with each one's
metadata.db. `LookUp` finds the record and resolves snapshotter and key (`Resolve`
is `resolveSnapshotter`, a pure operator), `OpenDatabase` is the block around
`snapshotFile` and `bolt.Open`, `FollowParent` is one iteration of `snapshotKeys`,
`Layers` maps the collected names to directories (`OverlayPath`, `NativePath`), and
`MountLayers`, `UseNothing` and `ScanLayer` are the ends of a call: `UseNothing` is that of
an unsupported snapshotter, where mount runs without arguments, nothing is mounted, and the
call succeeds. `LookUp` takes any record of that ID, since one that cannot be read is passed
over for that of the next namespace. The commands
`mount`, `mount --all`, `drift` and the exports differ in `NextContainer` (which
clears `snapshotFile` or not) and in `Fail` (which goes on or not). That
`snapshotFile` and `handles` are not reset is the code's behaviour, not a
simplification.

### DockerMount (`explorers/docker/docker.go`)

`SkipContainer` and `NextContainer` are the heads of the loops of
`MountAllContainers` and `ContainerDrift`, which differ from a single `mount` in
`Fail`. `ChooseDriver` is the switch over the storage driver. overlay2 reads files
(`ReadLayers`); overlayfs runs `GetOverlayfsLayers`, whose search is `PickSnapshot`
(with `Exact`, `Longer` and `Match` for the three outcomes of the search) and whose
loop takes one parent per `FollowParent`, with the set `visited` as in the code. A
bucket is its index in `ev.snapshots`; 0 stands for the empty parent, and an index
beyond the end for a bucket that is missing.

### PodmanMount (`explorers/podman/podman.go`)

`RootDirs` is `getPodmanRootDirs`: the lines of passwd, storage.conf, and the
system's store. `Listed` and `Title` are `ListContainers`, with its one metadata
variable for all entries of a root; `Found` is the search of `MountContainer` by ID or
name over all roots. `NextContainer` is the loop that mounts each listed container by
its name, `ScanLayer` the loop of `ContainerDrift`, which does not use the listing.
`want` is a history variable: the container that a mount was made for.

### DriftScan (`explorers/fileinfo.go`)

A file system is a graph of directories, files and links. `todo` is the recursion
of the walk as a stack; each action is one call of the walk function, told apart by
what `os.Lstat`, `os.Stat` and `os.ReadDir` return. `visited` holds real paths, as
in the code.

### TaskStatus (`explorers/runtime.go`, `containerd.go:343-451`)

Pure operators with the names of the code: `ReadCgroupEvents`, `GetTaskStatus`,
`GetTaskPID`, and `GetContainerTask`, which gives a task, an error, or a panic for a
record whose specification is missing or has no section `linux`. `TaskPID` falls back
from cgroup.procs to state.json.

### Listings (the listings of the three explorers, `support_containers.go`)

Each listing is a function of the evidence to `[res, items]`: the items in order, an
error that loses all of them, or a panic. `Collect` is the loop that most of them are: the
first part that does not return decides. The evidence is typed (`DockerEvidence`,
`PodmanEvidence`, `ContainerdEvidence`), damaged records included. `WellFormed` says what
the databases of containerd give for free: namespaces and their records are buckets, which
have different names.
`ContainerdContainers` is `ListContainers`, with `HostnamePanics`, `IsSupportContainer`
and the task of each record; `TaskOf` looks the ID up again, as the code does, and so
takes the specification of the first record of that ID in any namespace.
`ContainerdSnapshots` panics on labels that only metadata.db has. `Matches` is the label
filter of the loops.

### Commands (`cmd/commands/env.go`, `utils.go`, `list.go`, `mount.go`, `drift.go`, `info.go`)

`InitializeRuntime` chooses the roots: `DockerRoot`, then `ContainerdRoot`.
`GetDocker`, `GetPodman` and `GetContainerd` open the explorers in the order of the code,
and leave out one that cannot be opened. Then one of three loops over `xplrs` runs:

- `ListNext` and `Show` for `list`: `Merge` puts one row into the map by ID, which it may
  enrich (`Enriched`), `Merged` a whole listing; `Hidden` is what tables leave out.
- `LoopNext`, `MountOne`, `ScanOne`, `EndLoop`, `LoopsEnd` for `mount --all` and `drift`:
  `Candidates` and `Chosen` are the heads of each explorer's own loop. `MountOne` succeeds
  or fails; the mount itself is the subject of the three mount modules.
- `FindNext`, `UseFound`, `NotFound` for `mount <id>`, `info` and `inspect`: `Finds` is
  `GetContainerByID`, which lists everything first in docker and podman.

A path that is given or found is a sequence of names, so that "below the image" is a prefix
and a guessed root is a sibling. What a configuration names is a `Setting`: whether it begins
with a slash, and what is between its slashes, empty names and dots included. `Unslashed` is
`strings.Replace(path, "/", "", 1)`, which of a relative path takes away a slash further on,
and `Join` is `filepath.Join`, which cleans the path it has put together (`Entered`, `Walk`).
`LeadsDown` leaves out the scenarios where the joined path is the topmost directory of the
machine. `disk` gives the roots that exist by their paths. The reference definitions
(`IDsOf`, `TasksOf`, `ImagesOf`, `Items`, `Due`, `Telling`) say what is there as sets, and
use neither the loops nor the merge.

## 3. What is checked

Runs that pass:

| Run | Question | Answer |
|---|---|---|
| `image_export` | Two containers exported again and again, any command failing, the process killed anywhere | The result tells the truth about the file (`ResultIsTrue`, the conjunction of `OkMeansPopulated` and `ErrorMeansAbsent`); an image that is not flushed has its file system to write it back; the clean-up never reaches into a mount (`NeverRemoveThroughMount`); what is left behind is explained by a command that failed or by the file system on it (`ResidueExplained`); the unlink comes last (`UnlinkComesLast`); calls end (`EveryCallReturns`); `ExportPromise` is implemented (`ImplementsPromise`) |
| `archive_export` | The same for archives, three containers | The promise is kept (`ImplementsPromise`): a partial archive survives only a kill or a refused unlink, and a call that has set success leaves the archive alone |
| `export` | `export <id>` and `export --all` over pairs of explorers with 1 or 2 passes, every combination of file options, every command failing | A file holds what a MountContainer of its own ID left at the mount point, never another container's mount, a failed one or one that was taken away already (`FilesHoldOwn`); no path loses a mount or a directory and a call holds one mount per pass at most (`MountsAccounted`); nil means exported (`NilMeansExported`); every selected container gets its turn, and only selected ones get files (`SelectionIsExported`); the command returns |
| `mount` | `mount`, `mount --all`, `drift`, and exports of one snapshotter, over a healthy root and six damaged, cached or unsupported ones | Where the evidence lets nothing be taken for something else (`NothingMixed`, which holds of every root and command of this run), every mount names the container's own layers and every scan its own upper layer (`LayersAreOwnUnmixed`); where mount and mount --all report success no mount failed, only selected containers were mounted, and one that was not has an unsupported snapshotter or shares its ID with such a one; drift passes over no others than those of native and unsupported snapshotters in silence (`OkAccounts`); layers are compared with a reference definition (`OwnLayers`) that does not use the code's search; an incomplete record is completed to some snapshot that agrees with it (`ResolutionFinds`) |
| `docker_mount` | `mount`, `mount --all` and `drift` over an intact docker root with both drivers and twelve roots with one damage each, cycles of parents included | Mounted and scanned layers are the container's own, in order (`LayersAreOwn`, against `Chain`, which does not use the loop); a damaged container costs the others nothing (`EachIsServed`); an intact one fails only by its commands (`IntactIsFound`); every command returns, on cycles too (`CommandReturns`) |
| `podman_mount` | `mount`, `mount --all` and `drift` over 64 images of two users and the system: shared, absent, unreadable and renamed stores, unusual names, damaged files | A key mounts what it names (`KeyIsMounted`); every listed container has its turn (`EachGetsItsTurn`); where no name is another container's name or ID each mount point gets its own layers (`OwnUnderUniqueNames`) |
| `drift_scan` | All 972 small file systems of one shape: two links that lead to any node, cycles, chains and escapes included | The scan ends (`ScanReturns`), reports each entry that readable directories lead to exactly once (`ReportedExactlyOnce`), and tells deletions from changes (`WellClassified`) |
| `commands` | `list`, `mount --all`, `drift`, `mount` and `info` over the three engines: every combination of 3 docker, 13 containerd and 3 podman roots; support containers and filters; roots given, configured in every spelling, guessed and missing; every state of a cgroup | Lists have what each explorer can list and nothing else, one row for each ID (`ListsExactly`); a row that says that its container runs or is paused, in the spelling of containers or of tasks, has a configuration, cgroup or state of its ID that says just this, and its PID is one that such evidence names (`RowsBacked`); the directory that the image's configuration names is that directory of the image, however it is spelt, unless it climbs above its first directory (`RootsBelong`); every engine reaches exactly its own containers (`EachServed`); no mount point is mounted twice (`MountPointsApart`); an ID is found by the first engine that can tell (`FoundIfKnown`) |

Runs in which TLC finds a violation. Each one states what the documentation says and
shows what the code does:

| Run | Property | What the code does |
|---|---|---|
| `image_overwrite` | `OnlyIncompleteImagesRemoved` | The clean-up "of an incomplete image" also removes the complete image of an earlier call, when a later call for the ID fails before it creates the file |
| `mount_mixed` | `LayersAreOwn` | The exports never clear `snapshotFile`: after a container of one snapshotter, one of another is looked up in the wrong metadata.db |
| `podman_names` | `OwnLayersMounted` | `mount --all` mounts by name, and the first container of that name in any user's store is taken: two users' containers of one name get the same layers |
| `list_namespaces` | `AllNamespacesListed` | "list containers for all namespaces" keeps one row for each ID: of two containers with one ID in two namespaces one is not shown |

Also met while modelling, and visible in the models, without a run of its own: the
docker export makes no pass and returns nil on a host without containerd
namespaces (`docker/export.go:40`, the condition in `NilMeansExported`);
`SnapshotRoot` takes the first directory whose path *contains* the snapshotter's
name, which is `fuse-overlayfs` for `overlayfs` where both exist
(`containerd.go:107`); containerd's `MountAllContainers` stops at the first container
that fails (`containerd.go:772`, the action `Fail`), where podman's goes on; the drift
scan follows links out of the upper directory (`fileinfo.go:125`); containerd's drift
scan passes over containers of the native snapshotter (`containerd.go:879`, the
condition in `OkAccounts`), and `Close` leaves each opened metadata.db open
(`containerd.go:945`, the variable `handles`); the image of a container is that of the
first record of its ID in any namespace (`containerd.go:462`, `Record`); a docker
container whose snapshot is gone is mounted from its init layer, the one key that
begins with its ID (`docker.go:563`, `Match`), while the short IDs which the prefix is
for never get there, for the directory of the configuration is looked up by the whole
ID (`docker.go:422`); one unreadable docker configuration makes every docker container
unknown to `mount <id>` (`docker.go:224`, `Finds`); a podman store that is not called
`storage` is found and then read in the wrong place (`podman.go:536`, `EntriesOf`), and a
podman container without a name in its metadata is listed under the name of the
container before it (`podman.go:121`, `Title`); a layer cache folder that is not called
`layers` is used for the upper layer and not for the lower ones (`snapshot.go:231`, `250`,
`OverlayPath`); an unsupported snapshotter is only logged, then `mount` runs without arguments
and the command reports success with nothing mounted (`containerd.go:681`, `UseNothing`; the
containers that `OkAccounts` excepts by `HasNoMount`); of two containers with one ID in two
namespaces, `export --all` mounts and exports the first in the turn of either and reports no
error (`containerd.go:462`, `Record`); the source of `cp -a` is meant "to copy contents of the
directory" (`utils/export.go:175`), but `filepath.Join` cleans the `/.` away, so the files land
one directory below the root of the image, a layout that the models do not tell apart.

And in `TaskStatus`, `Listings` and `Commands`: a record without specification, or whose
specification has no section linux or process, ends the process in the middle of a listing
(`containerd.go:352`, `358`, `995`), and so do labels of a snapshot that only metadata.db has
(`snapshot.go:356`); `list tasks` loses all of containerd's tasks for one docker container with
the cgroupfs driver, whose cgroup path has one field (`containerd.go:333`, `366`); a container
whose cgroup is empty is STOPPED and shown with the PID of state.json (`containerd.go:415`); a
containerd database that cannot be opened hides the docker explorer, and `mount --all` then
mounts no docker container (`docker.go:94`); the rows of docker carry no labels although the
configurations have them (`docker/config.go:56`, `ConfigFile`), so a label filter leaves every
docker container out of `list`, `mount --all` and `drift`, whatever `README.md:140` says of it
(`docker.go:1061`); a data-root with more `..` than
names leaves the image (`env.go:79`, `Climbs`), and a relative one loses the slash after its
first name (`Unslashed`); a registry with a port hides the name of its support images
(`containerd.go:1028`); JSON documents show support containers that tables and JSON lines leave
out (`list.go:183`, `Hidden`); `--container-engine ALL` selects nothing (`mount.go:80`, `Lower`);
a podman container that is named like the ID of a containerd container is found in its place
(`podman.go:74`, `KnowsName`).

## 4. Bounds, and why they are enough

- `ImageExport`: two containers. The state that calls share is per file (`pinned`,
  `stale`, `image`), and `outcome` and `faults` are reset by a call, so a behaviour
  needs at most one other container to show interference; the number of calls is
  not bounded. `ArchiveExport` has three. `image_overwrite` needs one.
- `ContainerExport`: two IDs, three mount points, two namespaces. One call holds at
  most one mount per pass, so three names leave a free one beside a stuck one.
  `MaxStuck = 1` bounds the mounts whose clean-up is refused; it appears in the
  guards of `Mount`, `Unmount` and `RemoveMountpoint`. One refused mount is enough
  to tell a path that forgets a mount from one that could not remove it. The records'
  `yields` are their own content, nothing, or either of two, and one ID is in two namespaces.
- `ContainerdMount`: six records over two namespaces and three snapshotters, with the same
  keys in two namespaces and the same names in all databases with different identifiers, so
  that any mix-up of namespace, snapshotter or database changes the layers. `NoWork` has a
  snapshotter without work directories, with every command, and `Twice` another record of its
  container's ID. `MaxChain = 4` bounds a walk over parents and is longer than every chain in
  the evidence, which has no cycle: a cycle would never end (a listed hazard).
- `DockerMount`: six containers of three kinds over six snapshots; the two overlayfs
  chains share their base, each has an init layer whose key is longer than the ID, and
  another namespace has the same key. Each damage is alone, as the steps that meet a
  damage share nothing but the loop. Chains of three are the shortest that tell the
  order of the lower layers, and cycles through the snapshot and above it differ.
- `PodmanMount`: two users and the system, two containers in each store that matters:
  one before and one after the confusion. Each of eight storages is combined with each
  of eight second entries of the user; `NamesAreUnique` holds in most of them.
- `DriftScan`: eleven nodes; two links suffice for a cycle of two, a chain, and two
  ways into one directory; each name order decides which way comes first.
- `Commands`: five families of inputs. *image*: docker with three containers, intact, with an
  unreadable one, or empty, by thirteen containerd roots, each with one damage, by three lists
  of podman roots, and every command. A damage is met by one explorer alone, so one at a time
  is enough; two of a kind of container show the order. *support*: two files of criteria, an
  unreadable one, every filter form. *elsewhere*: each subset of image, docker root and
  containerd root given, data-root and config.toml's root unset, plain, with a detour of dots
  and doubled slashes, climbing out of the image, or relative, with a different container in
  each root, so that a wrong root shows in the list. *cgroups*: every combination of the numbers of
  cgroup.events, cgroup.procs and state.json for a containerd and a docker container, and a
  second record of the same ID. *doubles*, for `list_namespaces`: one ID in two namespaces.

`CHECK_DEADLOCK` is left on in every run: a command that has returned takes the
stuttering step `Done`, and `ImageExport` can always call again.

## 5. Fairness

There is one thread, so the only fairness is weak fairness of the program's own steps: if the
next step can be taken, it is taken. This includes that each external command and system call
returns, in success or failure. The code gives commands no deadline (`utils/command.go:36`),
so this is an assumption about the tools and not about the program; a tool that hangs, hangs
the program. `Call`, `Interrupt`, `LateWriteback`, `WriteBack`, `LastUserGone`, `DamageImage`
and `Close` by a user of the interface get no fairness of their own. In `ContainerExport` the
fairness of `FinishImage` and `FinishArchive` stands for what `EveryCallReturns` shows of the
exports. `PodmanMount` states no fairness and no liveness: its loops are over lists that only
get shorter. `Commands` states weak fairness and no liveness property, for the same reason.

## 6. What is proved

### ImageExport

`FileExports_proof.tla`, for every set of containers, without assumptions on it:

- `TypeCorrect`: `Spec => []TypeOK`.
- `Invariant`: `Spec => []IInv`, the inductive invariant, from `InitIInv` and
  `NextIInv` with one step per action.
- `RemovalIsSafe`, `ResultsAreTrue`, `LeftoversExplained`: the safety invariants that the
  run checks (`NeverRemoveThroughMount`, `ResultIsTrue`, `ResidueExplained`) follow from
  `IInv`.
- `UnlinkIsLast`: the action property, from `IInv` and the actions.
- `Refinement`: `Spec => ImplementsPromise`. Initial states map to initial states, and
  each step maps to a step of `ExportPromise` or a stutter.

Why an invariant is needed: `NeverRemoveThroughMount` speaks of one program point and
says nothing of how it was reached. `IInv` is the conjunction of `TypeOK` with

- `MountInv`: at each program point, how the kernel's `live` relates to the locals
  `mounted` and `unmounted`. This is what makes the guards of the deferred functions right;
- `TriedInv`: which commands have been tried and have failed by the time the later
  deferred functions run, and that only a refused umount leaves a file system lingering,
  which explains the residue;
- `DirtyInv`: a file that is not flushed has a file system in it, mounted, lingering or
  pinned, so that somebody will write it back;
- `OutcomeInv` and `CopyInv`: what the file holds at each program point and after each
  result, which gives `OkMeansPopulated` and `ErrorMeansAbsent`;
- `CorruptInv`: only a stale file is corrupt, which makes `held` the right mapping for
  the promise;
- `ResidueInv`: where the loop device and the directory can be, and that a device whose
  detach returned 0 stays only as long as the file system on it.

The refinement mapping takes `success`, not the return, as the moment at which a call
is `populated`: from line 197 on the call can no longer fail. It takes a file that is
`dirty` or `complete` as `populated`, `corrupt` as `damaged`, `stale` as `held`, and
the calls whose directory or unlink was refused as `kept`. Copying is `Fill`, setting
`success` is `Populate`, `RemoveFile` is `ReturnOk`, `Withdraw` or `Refuse`.

### ArchiveExport

The same module, whose second half has `ArchiveExport` as the instance `Archive` with
variables of its own, for every set of containers:

- `ArchiveTypeCorrect`: `Archive!Spec => []Archive!TypeOK`.
- `ArchiveInvariant`: `Archive!Spec => []ArchiveInv`, which is `TypeOK` with
  `ArchiveBusyInv`: the ID of the call in progress is the one that is busy in the promise,
  and `success` is set only at the deferred removal, with a complete archive.
- `ArchiveRefinement`: `Archive!Spec => Archive!ImplementsPromise`. As above, `success` and
  not the return makes a call `populated`. `StartTar` is `Rewrite`, `FinishTar` is `Populate`
  or a stutter, `RemoveFile` is `ReturnOk`, `Withdraw` or `Refuse`, an output directory that
  cannot be made is `Refuse`, `Interrupt` is `Kill`. `ArchiveBusyInv` is what makes the guards
  of those steps hold.

The two refinements say that whatever `ContainerExport` concludes from `ExportPromise`
holds of the code of both exports.

### ContainerExport

`ContainerExport_proof.tla`, for every set of IDs and mount points and any number of
refused clean-ups. It assumes `SetupsAssumption`, which says no more than the types of a
setup: the engines and the listing of each are sequences, records have known IDs, and
ListNamespaces gives a number of namespaces. That the calls which a command line leads to
are of the setup's own engines and known IDs is proved (`CallsAre`, from `PassesAre` and
`IncludedAre`).

- `TypeCorrect`: `Spec => []TypeOK`.
- `SourceIsOwn`: `Spec => []FilesHoldOwn`.
- `NothingIsLost`: `Spec => []MountsAccounted`.
- `NilIsTrue`: `Spec => []NilMeansExported`.

- `SelectionOnly`: `Spec => []SelectionIsExported`.

None of them says enough to be kept by a step. `IInv` has six parts, each kept by a
lemma of its own (`NextCallInv`, ..., `NextSelectInv`):

- `CallInv`: the call under way is one of the setup's.
- `MountInv`: `PendingInv`, what the defer stack says of mounts and directories, with the
  one that is being made or unmounted apart; `PointInv`, which mount each program point
  relies on; `PassInv`, that the stack is never longer than the passes made. The mount
  point that is drawn is not a directory yet, hence not on the stack, hence the stack has
  no mount point twice: this is why no unmount takes away the source of a copy, and
  why what is at the mount point of a copy was left by the mount of this very call.
- `StatusInv`: what a populated status says of its file, from the steps of
  `ExportPromise`. That a damaged image stays `held` is what a nil relies on.
- `ResultInv`: what the exports have answered at each program point, and that the
  container under way has no result, so that its statuses may change.

- `SourceInv`: `FilesHoldOwn`, and the same of the image whose copy has just ended and is not
  yet populated.
- `SelectInv`: the calls to come and the one under way are for selected containers, the
  files are theirs, and each selected container of an engine that lists is still to come,
  under way or has its result. The property itself speaks of the end only. This needs both
  directions of what `Calls` computes (`Selected`, `SelectedOnce`, `Flattened` below).

`Push` and `Pop` state what pushing and popping do to a stack without repetitions.

### SequenceLemmas

The models' lists come from `Only`, `First`, `FlattenSeq`, `Head` and `Tail`, and their
walks are recursive functions. `SequenceLemmas.tla` states what each of these gives:
`TakenIs` and `FirstIs` for `Selection`, `Flattening` and `Flattened` for `FlattenSeq`,
`Dequeued` for a loop that takes its head, and the `...Once` lemmas for lists without
repetitions. `Least`, `Induction`, `Recursion` and `Iteration` are induction over the
naturals and the existence of recursive functions stated with a *set* of numbers and a
*step function* where the library has operators: they are what makes the walks over
parents and links provable. The base is the well-foundedness of `<` in the library.

### DockerMount

`DockerMount_proof.tla`, for every docker root, damaged in any way, and every command. It
assumes `EvidenceAssumption`: lists are sequences and a parent is a bucket, 0, or beyond
the end. It does not assume that chains end: parents may form cycles.

- `TypeCorrect`: `Spec => []TypeOK`.
- `LayersMatch`: `Spec => []LayersAreOwn`.
- `Served`: `Spec => []EachIsServed`.
- `IntactFound`: `Spec => []IntactIsFound`.

`IInv` adds to the properties:

- `LoopInv`: what the loop has left, and that success comes at its end only;
- `ServedInv`: each wanted container is still to do, under way or handled. `EachIsServed`
  speaks of the end and is kept by no step alone;
- `WalkInv`, with `Climbed`: the set `visited` is the first part of the line of parents
  from the container's own snapshot, `bucket` is the next of that line, and `lowerPaths`
  are the layers in between, in order.

`LineTurns` shows that a line which comes back to a bucket never reaches 0, so the check
of `visited` refuses no intact chain (`ChainFails`); `ClimbedIsChain` that a walk which
ends has collected the reference's layers, which are chosen without the loop; `MatchIsOwn`
that the exact key wins over every longer one.

### PodmanMount

`PodmanMount_proof.tla`, for all users, stores and commands. `EvidenceAssumption` says that
the graph root of a user with a shell is one of the evidence's stores.

- `TypeCorrect`: `Spec => []TypeOK`.
- `KeyMounted`: `Spec => []KeyIsMounted`.
- `EachHasItsTurn`: `Spec => []EachGetsItsTurn`.
- `OwnByName`: `Spec => []OwnUnderUniqueNames`.

`IInv` is `CallInv` (in mount --all the key is the title of the listed entry), `MountInv`
(what was mounted has the key it was looked up by), and `TurnInv` (each entry that is due is
still to do, under way or handled). `RootsFound` and `EntriesAre` tie the listing to the
stores, so that `EachGetsItsTurn` speaks of every container there and not of the list alone.

Proving `OwnByName` showed that names which differ from each other are not enough: a name
that is another container's *ID* is found in its place, too. `NamesAreUnique` says so.

### ContainerdMount

`ContainerdMount_proof.tla`, for all evidence, commands and bounds on chains. It assumes
`EvidenceAssumption` (records are listed once each and have IDs, buckets have names, a
command names listed records, `mount` names one) and `MaxChain \in Nat`.

- `TypeCorrect`: `Spec => []TypeOK`.
- `Completed`: `Spec => []ResolutionFinds`.
- `Accounted`: `Spec => []OkAccounts`.
- `OwnUnmixed`: `Spec => []LayersAreOwnUnmixed`.

`LayersAreOwn` itself is false (`mount_mixed`). Its proof attempt listed what it needs, and
`NothingMixed` is that list: no two records of one ID, one snapshotter among the containers
a command names, for each snapshotter a directory that is its own and the only one it is
found in, with a work directory, and a layer cache that has the name the code looks for.
Each item excludes a way in which the code takes one thing for another; none speaks of
`snapshotFile`, which is what the theorem is about.

`IInv` is the conjunction of `LayersAreOwnUnmixed` with

- `CallInv`: what the call under way knows, and that its record has the ID that was asked for;
- `FileInv`: which database is open. mount --all and drift clear it before each container, the
  other commands keep it, and then it is that of one of the command's own containers;
- `WalkInv`: the names collected are those of the snapshot and its ancestors, one for each
  step of the walk, in the record's namespace and snapshotter;
- `DoneInv`, `MountInv`, `DriftInv`: each selected container is still to do, under way,
  skipped, failed or done, and in mount and mount --all only one of these; a failure leaves
  no success.

`Walked` and `LayersOwn` turn the names into the reference's layers, for overlay and native.

### DriftScan

`DriftScan_proof.tla`, for every finite file system. `FileSystemAssumption`: `DiffDir` is a
directory, what has a parent has it in a directory and is listed once, what is no link names
itself. Links may lead anywhere, in cycles and out of the directory.

- `TypeCorrect`: `Spec => []TypeOK`.
- `ReportedOnce`: `Spec => []ReportedExactlyOnce`.
- `Classified`: `Spec => []WellClassified`.

`IInv` is `WellClassified` with

- `TypeInv`, which has that the path given resolves to `DiffDir`;
- `OnceInv`: `todo` has nothing twice and nothing that was reported, and all of both came
  from directories that were listed. That each directory is listed once, under its real
  path, is why an entry cannot come again;
- `WalkInv`: nothing of a listed directory is forgotten: it is closed, still to walk, entered
  or reported; and so for the path given.

`Everywhere` climbs down from `DiffDir`, by induction over the parents: when the walk is over,
each node below it that can be reached through readable directories was walked. The proof
needs the path given to be readable: if it is a link to a directory and its own `Lstat` is
refused, the walk reports nothing and ends. The property has that premise.

### Commands

`Commands_proof.tla`, for all flags, disks and commands: any number of containers, images,
namespaces and stores, damaged anywhere. It assumes `ScenariosAssumption`: flags, evidence and
command have their types, each containerd root is `WellFormed`, and no configured root joins
to the topmost directory (`LeadsDown`). Nothing is assumed of podman's and docker's IDs or
names, which may be shared.

- `TypeCorrect`: `Spec => []TypeOK`.
- `RootsAlwaysBelong`: `Spec => []RootsBelong`.
- `FoundWhereKnown`: `Spec => []FoundIfKnown`.
- `EachEngineServed`: `Spec => []EachServed`.
- `MountsApart`: `Spec => []MountPointsApart`.
- `RowsAlwaysBacked`: `Spec => []RowsBacked`.
- `ListedExactly`: `Spec => []ListsExactly`.

`CtlInv` is the invariant that the others build on (`Control`): what is given is a scenario
(`GivenInv`), the roots are those of `InitializeRuntime` (`ConfigInv`), `xplrs` is the end of
`opened`, and docker and containerd are open only where they can be (`OpenedInv`), and what
each place of the run leaves empty (`PlaceInv`). Each property then adds what it does not
say itself:

- `FindInv`: the explorers that have been asked (`Asked`) could not tell. `SearchIs` shows for
  each engine that the search fails exactly where the evidence, read without it, cannot tell.
- `LoopInv`, with `InTurn`: an engine whose turn has not come has served nothing; one whose
  turn has come has served and still has left exactly what is due, or failed for a reason that
  is named. `CandidatesAre` shows, engine by engine, that the heads of the loops (`Candidates`)
  have exactly the containers that are `Meant`. That containerd's places are apart is
  what shows that the place where its loop ended was not mounted.
- `ApartInv`: no ID that is left has been tried. It is kept from one engine to the next only by
  `UniqueIDs`, and by the exclusion of docker's namespace in containerd.
- `RowsInv`: the rows that were merged so far are `Sound` and have the IDs, or the pairs of
  namespace and name, of the explorers asked. `Fits` is what a row may say of its ID: its
  status and PID have evidence, and its labels and its mark as a support container are those
  that the reference `Wanted` goes by.

A row of a listing need not fit by itself: where two namespaces have records of one ID, the
second row has the cgroup of the first record (`TaskOf` looks the ID up again) and the PID,
labels and mark of its own, which the references do not go by. The invariant of the merge is
therefore about order (`Ordered`): a row that does not fit comes after one of its ID that
does, and then it adds nothing (`MergeOne`). That the listings come in such an order is a
lemma for each of them (`DockerLists`, `PodmanListsContainers`, `PodmanListsTasks`,
`ContainerdLists`), and `FirstFits` the reason: the first record of an ID is its own.

`RootsBelong` compares the join of two paths with the cleaning of one. `JoinIs` is the
induction over the names of a path: as long as it does not climb, what has been entered from
the image on is the image followed by what would have been entered from the topmost directory
on (`EnteredTyped`, `EnteredBelow`, `WalkSteps`). `RootsFit` takes the three cases of a root
together.

`CollectIs`, `OneByOne` and `NestedOnce` are what a loop over listings gives; `TakenOnce` and
`MadeOnce` carry lists without repetitions through filters and conversions; `MergedIs` is the
induction over the merge, from `Recursion` in `SequenceLemmas`.

What the proof attempts changed in the model. The evidence had no types, so that nothing could
be said of a PID; it has them now. `RootsBelong` forgot that a root that was given may itself
be called like the root guessed from it. `UniqueIDs` compared containers, and one container
listed twice in damaged evidence was then unique: it compares the places in the evidence.
`Collect`, the merge and the choices from lists were built on operators that take operators,
and are now a least index, a recursive function, and `Only` and `First`.
`WellFormed` was implicit in the examples that TLC checks.

## 7. What is only model-checked, and what is not modelled

Every invariant and every action property that a passing run checks is a theorem, and so are
both refinements. Only model-checked:

- liveness (`EveryCallReturns`, `CommandReturns`, `ScanReturns`) and everything about
  fairness and `ENABLED`, which are out of the prover's reach;
- that violations are there: the four runs of that kind are counterexamples, and need no
  proof;
- that the references (`Chain`, `OwnLayers`, `Resolve`) are what a reader takes them for. The
  proofs are relative to them, and the runs show them on examples that can be read.

Not modelled:

- sizes, and so whether an image is large enough for its files (`utils/file.go:77`): cp
  may fail for any reason;
- the random source behind a mount point's name: a drawn name is any that is free;
- a lock on metadata.db held by a running containerd: evidence is at rest;
- FIFOs, on which hashing would block (`fileinfo.go:62`);
- a cycle of parents in containerd's snapshots, on which `snapshotKeys` would not end
  (`snapshot.go:279`);
- metadata and hashes of files, formats of output, logging;
- the friendly names that docker gives images (`GetRepositories`), what `InfoContainer`
  prints of a container that was found, and letter case in the support criteria;
- parsing of the databases (bbolt, SQLite, JSON, TOML), which is the libraries' work: the
  models start from the records they return, missing ones included;
- an error of `ListNamespaces` on a database that was opened: reading the buckets of an open
  database fails only if it has been closed, so `list namespaces` (`list.go:63`) has none;
- the data types of `explorers/*.go`, which have no operations.

The models of the commands compose the explorers' listings step by step, but not their
mounts: in `Commands` a mount succeeds or fails, and which layers it takes is the subject
of `ContainerdMount`, `DockerMount` and `PodmanMount`.

## 8. Plan

1. `ImageSizing` (`utils/file.go:77-133`, `export.go:48-59`): sizes with their width,
   against what a copy needs.
2. FIFOs in `DriftScan`, a cycle of parents in `ContainerdMount`.

A theorem to come with them: that an image of the size chosen holds its files, or the case
in which it does not.

## 9. Running

    tlc -config ImageExport.cfg ImageExport.tla
    tlc -config Export.cfg MCContainerExport.tla
    tlapm FileExports_proof.tla

The modules with proofs are `SequenceLemmas` and `FileExports_proof`, `ContainerExport_proof`,
`DockerMount_proof`, `PodmanMount_proof`, `ContainerdMount_proof`, `DriftScan_proof` and
`Commands_proof`. The last three take several minutes each, `Commands_proof` the longest.

Each other configuration belongs to the module that `PROJECT.json` names beside it.
The longest run takes less than two minutes.
