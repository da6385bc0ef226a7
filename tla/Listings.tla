------------------------------ MODULE Listings ------------------------------
(***************************************************************************)
(* What each of the three explorers lists: containers, tasks, images,      *)
(* contents and snapshots.  A listing is a pure function of the evidence.  *)
(* It gives [res, items]: the items in order, an error that loses all of   *)
(* them, or a panic that ends the process.                                 *)
(***************************************************************************)
EXTENDS TaskStatus, Selection

(* The evidence.  Labels are pairs <<key, value>>. *)
Labels == SUBSET (STRING \X STRING)

\* A docker root: the configurations, whether there is a directory of
\* repositories, and the repositories of each storage.
ConfigFile ==
  [id : STRING, ok : BOOLEAN, name : STRING, labels : Labels,
   started : BOOLEAN, running : BOOLEAN, paused : BOOLEAN, pid : Int]
ImageRepository == [ok : BOOLEAN, images : Seq(STRING)]
DockerEvidence ==
  [configs : Seq(ConfigFile), imageDir : BOOLEAN,
   repositories : Seq(ImageRepository)]

\* A podman root: whether containers.json can be read, its entries, the state
\* of the database and of the containers in it, and the images.
ContainerConfig ==
  [id : STRING, metadata : BOOLEAN, name : STRING, title : STRING]
ContainerState == [id : STRING, pid : Int, status : STRING]
ImageNames == [ok : BOOLEAN, names : Seq(STRING)]
PodmanEvidence ==
  [ok : BOOLEAN, entries : Seq(ContainerConfig),
   db : {"absent", "bad", "ok"}, states : Seq(ContainerState),
   images : ImageNames]

\* A containerd root: the state of meta.db and of overlayfs' metadata.db, and
\* the namespaces.  readable is about the records of the images; labelled is
\* whether meta.db has labels of a snapshot, and overlay what metadata.db has
\* under its name, "odd" for a kind that does not exist.
ImageName == [registry : STRING, port : BOOLEAN, repo : STRING]
ContainerRecord ==
  [id : STRING, ok : BOOLEAN, labels : Labels, image : ImageName,
   specs : SUBSET Specification, cgroup : CgroupFiles, init : Int]
BlobRecord == [digest : STRING, ok : BOOLEAN]
SnapshotRecord ==
  [key : STRING, labelled : BOOLEAN,
   overlay : {"none", "plain", "labelled", "odd"}]
NamespaceRecord ==
  [name : STRING, ctrs : Seq(ContainerRecord), readable : BOOLEAN,
   images : Seq(ImageName), blobs : Seq(BlobRecord),
   snapshots : Seq(SnapshotRecord)]
ContainerdEvidence ==
  [db : {"absent", "bad", "ok"}, ssdb : {"absent", "bad", "ok"},
   nss : Seq(NamespaceRecord)]

\* Namespaces and their records are buckets of meta.db, whose names differ; a
\* record has one specification at most.  The namespaces of a database that is
\* open can be told: their listing fails only on one that is closed.
WellFormed(root) ==
  /\ \A i, j \in DOMAIN root.nss :
       root.nss[i].name = root.nss[j].name => i = j
  /\ \A n \in ToSet(root.nss) :
       /\ \A i, j \in DOMAIN n.ctrs : n.ctrs[i].id = n.ctrs[j].id => i = j
       /\ \A c \in ToSet(n.ctrs) : \A s, t \in c.specs : s = t

Ok(items) == [res |-> "ok", items |-> items]
Failed == [res |-> "error", items |-> <<>>]
Panics == [res |-> "panic", items |-> <<>>]

\* The listings of the parts, one after another: the first part that does not
\* return decides.
Collect(parts) ==
  LET stops == {i \in DOMAIN parts : parts[i].res # "ok"}
  IN  IF stops = {}
      THEN Ok(FlattenSeq([k \in DOMAIN parts |-> parts[k].items]))
      ELSE [res |-> parts[Min(stops)].res, items |-> <<>>]

Row(type, ns, id, name, pid, status) ==
  [type |-> type, ns |-> ns, id |-> id, name |-> name, pid |-> pid,
   status |-> status, labels |-> {}, support |-> FALSE]

-----------------------------------------------------------------------------
(* Support containers.  sc is the set of the criteria that were read, at   *)
(* most one.  An image or a host name contains the names that are its      *)
(* parts.                                                                  *)

Criteria ==
  [images : SUBSET STRING, names : SUBSET STRING, labels : Labels]

\* imageBasename of containerd: cut at the first colon, which in the name of
\* a registry with a port comes before the repository.
ImageBase(image) ==
  IF image.port THEN {image.registry} ELSE {image.registry, image.repo}

SupportContainerImage(sc, image) ==
  \E k \in sc : k.images \cap ImageBase(image) # {}

\* convertToContainerExplorerContainer: a name of the pod, the host name, or
\* that of the environment.  Without the section process, a host name that
\* is not given is looked for in vain, and the process ends.
PodName(c) == {l[2] : l \in {l \in c.labels : l[1] = "io.kubernetes.pod.name"}}
HostnamePanics(c) ==
  PodName(c) = {} /\ \E s \in c.specs : s.hostname = "" /\ ~s.process
Hostname(c) ==
  IF PodName(c) # {} THEN PodName(c)
  ELSE {IF s.hostname # "" THEN s.hostname ELSE s.env : s \in c.specs}

IsSupportContainer(sc, c) ==
  \/ SupportContainerImage(sc, c.image)
  \/ \E k \in sc : k.names \cap Hostname(c) # {}
  \/ \E k \in sc : k.labels \cap c.labels # {}

-----------------------------------------------------------------------------
(* Label filters.  A filter is a sequence of terms, and a term the         *)
(* sequence of its parts between equality signs.                           *)

\* The loops of list, mount --all and drift: a term without a sign is no
\* condition, and what follows a second sign is dropped.
Matches(filter, labels) ==
  \A i \in DOMAIN filter :
    Len(filter[i]) > 1 => <<filter[i][1], filter[i][2]>> \in labels

-----------------------------------------------------------------------------
(* docker *)

DockerStatus(c) ==
  CASE ~c.started -> "CREATED"
    [] c.started /\ c.running -> IF c.paused THEN "PAUSED" ELSE "RUNNING"
    [] OTHER -> IF c.paused THEN "UNKNOWN" ELSE "STOPPED"

\* GetCEContainer: the labels of the configuration are not taken over.
DockerContainers(root) ==
  Collect([i \in DOMAIN root.configs |->
    LET c == root.configs[i]
    IN  IF c.ok
        THEN Ok(<<Row("docker", "", c.id, c.name, c.pid, DockerStatus(c))>>)
        ELSE Failed])

\* ListTasks has another spelling of the status, and none at rest.
DockerTasks(root) ==
  Collect([i \in DOMAIN root.configs |->
    LET c == root.configs[i]
        status == IF c.paused THEN "paused"
                  ELSE IF c.running THEN "running" ELSE ""
    IN  IF c.ok THEN Ok(<<Row("docker", "", c.id, "", c.pid, status)>>)
        ELSE Failed])

Image(type, ns, name, support) ==
  [type |-> type, ns |-> ns, id |-> name, support |-> support]

DockerImages(root) ==
  LET Names(r) == IF r.ok THEN r.images ELSE <<>>
      names == FlattenSeq([i \in DOMAIN root.repositories |->
                            Names(root.repositories[i])])
  IN  IF root.imageDir
      THEN Ok([i \in DOMAIN names |-> Image("docker", "", names[i], FALSE)])
      ELSE Failed

-----------------------------------------------------------------------------
(* podman, over all its roots *)

\* The metadata are decoded into one variable for all entries of a root.
Title(root, k) ==
  LET named == {i \in 1..k : /\ root.entries[i].metadata
                             /\ root.entries[i].title # ""}
  IN  IF named = {} THEN "" ELSE root.entries[Max(named)].title

PodmanOf(root) ==
  IF ~root.ok THEN <<>>
  ELSE FlattenSeq([k \in DOMAIN root.entries |->
         IF root.entries[k].metadata
         THEN <<Row("podman", "", root.entries[k].id, Title(root, k), 0, "")>>
         ELSE <<>>])

PodmanContainers(roots) ==
  Ok(FlattenSeq([r \in DOMAIN roots |-> PodmanOf(roots[r])]))

PodmanTasks(roots) ==
  Collect([r \in DOMAIN roots |->
    LET root == roots[r]
        TaskOf(s) == Row("podman", "", s.id, "", s.pid, s.status)
    IN  CASE root.db = "absent" -> Ok(<<>>)
          [] root.db = "bad" -> Failed
          [] OTHER -> Ok([i \in DOMAIN root.states |->
                           TaskOf(root.states[i])])])

PodmanImages(roots) ==
  LET Names(root) == IF root.images.ok THEN root.images.names ELSE <<>>
      names == FlattenSeq([r \in DOMAIN roots |-> Names(roots[r])])
  IN  Ok([i \in DOMAIN names |-> Image("podman", "", names[i], FALSE)])

-----------------------------------------------------------------------------
(* containerd.  rooted says whether there is an image root, below which    *)
(* /sys and /run are looked for.                                           *)

\* getContainerStoreInfo: the first namespace that has a readable record.
FirstNs(root, id) ==
  First(root.nss, {n \in ToSet(root.nss) :
                    \E c \in ToSet(n.ctrs) : c.id = id /\ c.ok})
Stored(root, id) ==
  LET ctrs == root.nss[FirstNs(root, id)].ctrs
  IN  ctrs[First(ctrs, {c \in ToSet(ctrs) : c.id = id /\ c.ok})]

Absent(cg) == [cg EXCEPT !.there = FALSE]

\* The specification is that of the first record of the ID, the state that
\* of the record itself.
TaskOf(root, rooted, c) ==
  LET first == Stored(root, c.id)
  IN  GetContainerTask(first.specs,
                       IF rooted THEN first.cgroup ELSE Absent(first.cgroup),
                       IF rooted THEN c.init ELSE 0)

\* Mutant: a record whose task cannot be told ends the listing.
ContainerdRecordStrict(root, sc, rooted, ns, c) ==
  LET t == TaskOf(root, rooted, c)
  IN  IF ~c.ok \/ t.res = "error" THEN Failed
      ELSE [res |-> t.res,
            items |-> <<[Row(t.task.type, ns, c.id, c.id, t.task.pid,
                             t.task.status) EXCEPT !.labels = c.labels]>>]

\* The row of one record.  An error of the task is only logged.
ContainerdRecord(root, sc, rooted, ns, c) ==
  LET t == TaskOf(root, rooted, c)
  IN  CASE ~c.ok -> Failed
        [] c.ok /\ (HostnamePanics(c) \/ t.res = "panic") ->
             Panics
        [] OTHER ->
             Ok(<<[Row(t.task.type, ns, c.id, c.id, t.task.pid,
                       t.task.status)
                   EXCEPT !.labels = c.labels,
                          !.support = IsSupportContainer(sc, c)]>>)

\* store.List decodes all records of a namespace before the first is used.
ContainerdNamespace(root, sc, rooted, n) ==
  IF \E i \in DOMAIN n.ctrs : ~n.ctrs[i].ok THEN Failed
  ELSE Collect([i \in DOMAIN n.ctrs |->
                 ContainerdRecord(root, sc, rooted, n.name, n.ctrs[i])])

ContainerdContainers(root, sc, rooted) ==
  Collect([k \in DOMAIN root.nss |->
            ContainerdNamespace(root, sc, rooted, root.nss[k])])

\* ListTasks: none without an image root, and an error of one task is one of
\* all of them.
ContainerdTasks(root, sc, rooted) ==
  LET listed == ContainerdContainers(root, sc, rooted)
      Untold(n) == \E i \in DOMAIN n.ctrs :
                     TaskOf(root, rooted, n.ctrs[i]).res = "error"
  IN  CASE ~rooted -> Ok(<<>>)
        [] rooted /\ listed.res = "ok"
             /\ (\E k \in DOMAIN root.nss : Untold(root.nss[k])) -> Failed
        [] OTHER -> listed

ContainerdImages(root, sc) ==
  Collect([k \in DOMAIN root.nss |->
    LET n == root.nss[k]
    IN  IF ~n.readable THEN Failed
        ELSE Ok([i \in DOMAIN n.images |->
                  Image("containerd", n.name, n.images[i].repo,
                        SupportContainerImage(sc, n.images[i]))])])

\* Contents have no type.
ContainerdContents(root) ==
  Collect([k \in DOMAIN root.nss |->
    LET n == root.nss[k]
    IN  IF \E i \in DOMAIN n.blobs : ~n.blobs[i].ok THEN Failed
        ELSE Ok([i \in DOMAIN n.blobs |->
                  Image("", n.name, n.blobs[i].digest, FALSE)])])

\* What metadata.db has is added to what meta.db has.  readOverlaysnapshotKey
\* fails on a kind that does not exist, and puts labels into a map that does
\* not exist if meta.db has none.
ContainerdSnapshot(root, ns, s) ==
  CASE root.ssdb = "ok" /\ s.overlay = "odd" -> Failed
    [] root.ssdb = "ok" /\ s.overlay = "labelled" /\ ~s.labelled ->
         Panics
    [] OTHER -> Ok(<<Image("containerd", ns, s.key, FALSE)>>)

ContainerdSnapshots(root) ==
  Collect([k \in DOMAIN root.nss |->
    LET n == root.nss[k]
    IN  Collect([i \in DOMAIN n.snapshots |->
                  ContainerdSnapshot(root, n.name, n.snapshots[i])])])
=============================================================================
