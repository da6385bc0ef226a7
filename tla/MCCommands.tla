----------------------------- MODULE MCCommands -----------------------------
(***************************************************************************)
(* Evidence for Commands: roots of docker, containerd and podman, intact   *)
(* and each with one damage, below an image and elsewhere, and the         *)
(* commands.  docker's d1 and d2 are in the namespace moby as well.        *)
(***************************************************************************)
EXTENDS Commands

Config(id, ok, running, paused, pid) ==
  [id |-> id, ok |-> ok, name |-> id, labels |-> {<<"app", "web">>},
   started |-> TRUE, running |-> running, paused |-> paused, pid |-> pid]
D1 == Config("d1", TRUE, TRUE, FALSE, 11)
D2 == Config("d2", TRUE, FALSE, FALSE, 0)
D3 == Config("d3", TRUE, TRUE, TRUE, 12)
Unreadable == Config("d2", FALSE, FALSE, FALSE, 0)

Repositories == <<[ok |-> FALSE, images |-> <<"none">>],
                  [ok |-> TRUE, images |-> <<"nginx", "busybox">>]>>
Docker(configs, dir) ==
  [configs |-> configs, imageDir |-> dir, repositories |-> Repositories]
Dockers == {Docker(<<D1, D2, D3>>, TRUE), Docker(<<D1, Unreadable>>, TRUE),
            Docker(<<>>, FALSE)}

Cgroup(there, events, populated, frozen, procs) ==
  [there |-> there, events |-> events, populated |-> populated,
   frozen |-> frozen, procs |-> procs]
Alive == Cgroup(TRUE, TRUE, 1, 0, 21)
Gone == Cgroup(FALSE, FALSE, -1, -1, -1)
Cgroups == {Gone} \cup
  {Cgroup(TRUE, e, p, f, i) :
     e \in BOOLEAN, p \in {-1, 0, 1}, f \in {-1, 0, 1}, i \in {-1, 21}}

Spec1(path) == [process |-> TRUE, linux |-> TRUE, cgroupsPath |-> path,
                hostname |-> "", env |-> "node"]
Web == [registry |-> "gcr.io", port |-> FALSE, repo |-> "web"]
Pause == [registry |-> "gcr.io", port |-> FALSE, repo |-> "pause"]
PausePort == [registry |-> "local", port |-> TRUE, repo |-> "pause"]
App == <<"app", "web">>

Ctr(id, labels, image, specs, cgroup, init) ==
  [id |-> id, ok |-> TRUE, labels |-> labels, image |-> image,
   specs |-> specs, cgroup |-> cgroup, init |-> init]
C1 == Ctr("c1", {App}, Web, {Spec1("own")}, Alive, 22)
C2 == Ctr("c2", {<<"io.kubernetes.pod.name", "dns">>, App}, Pause,
          {Spec1("own")}, Gone, 0)
C3 == Ctr("c1", {}, PausePort, {Spec1("own")},
          Cgroup(TRUE, TRUE, 0, 0, -1), 23)
M1 == Ctr("d1", {App}, Web, {Spec1("docker")}, Alive, 0)
M2 == Ctr("d2", {}, Web, {Spec1("docker")}, Gone, 0)
Bad == [C2 EXCEPT !.ok = FALSE]
Specless == [C2 EXCEPT !.specs = {}]
Bare == [C2 EXCEPT !.specs = {[Spec1("own") EXCEPT !.linux = FALSE]}]
Nameless == [C3 EXCEPT !.id = "c2",
                       !.specs = {[Spec1("own") EXCEPT !.process = FALSE]}]
Cgroupfs == [M2 EXCEPT !.specs = {Spec1("dockerfs")}]

Blob(d, ok) == [digest |-> d, ok |-> ok]
Snapshot(key, labelled, overlay) ==
  [key |-> key, labelled |-> labelled, overlay |-> overlay]
Namespace(name, ctrs, images, blobs, snapshots) ==
  [name |-> name, ctrs |-> ctrs, readable |-> TRUE,
   images |-> images, blobs |-> blobs, snapshots |-> snapshots]
Containerd(db, ssdb, k8s, moby, other, blob, overlay) ==
  [db |-> db, ssdb |-> ssdb,
   nss |-> <<Namespace("k8s", k8s, <<Web, Pause>>, <<Blob("b1", TRUE)>>,
                       <<Snapshot("s1", TRUE, "labelled"),
                         Snapshot("s2", FALSE, overlay)>>),
             Namespace("moby", moby, <<>>, <<>>, <<>>),
             Namespace("other", other, <<PausePort>>, <<blob>>,
                       <<Snapshot("s1", FALSE, "none")>>)>>]
Whole(k8s, moby, other) ==
  Containerd("ok", "ok", k8s, moby, other, Blob("b1", TRUE), "plain")
Intact1 == Whole(<<C1, C2>>, <<M1, M2>>, <<>>)
Doubled == Whole(<<C1>>, <<M1>>, <<C3>>)
Containerds ==
  {Intact1, Doubled,
   Whole(<<C1, Bad>>, <<M1, M2>>, <<>>),
   Whole(<<C1, Specless>>, <<M1>>, <<>>),
   Whole(<<Bare, C1>>, <<>>, <<>>),
   Whole(<<C1>>, <<M1>>, <<Nameless>>),
   Whole(<<C1>>, <<M1, Cgroupfs>>, <<>>),
   [Intact1 EXCEPT !.db = "bad"], [Intact1 EXCEPT !.db = "absent"],
   [Intact1 EXCEPT !.ssdb = "bad"],
   Containerd("ok", "ok", <<C1>>, <<M1>>, <<>>, Blob("b2", FALSE),
              "labelled"),
   Containerd("ok", "absent", <<>>, <<>>, <<>>, Blob("b2", TRUE),
              "labelled"),
   [Containerd("ok", "ok", <<>>, <<>>, <<C3>>, Blob("b2", TRUE), "odd")
    EXCEPT !.nss[3].readable = FALSE]}

Entry(id, metadata, name, title) ==
  [id |-> id, metadata |-> metadata, name |-> name, title |-> title]
State(id, pid, status) == [id |-> id, pid |-> pid, status |-> status]
Podman(ok, entries, db) ==
  [ok |-> ok, entries |-> entries, db |-> db,
   states |-> <<State("p1", 31, "running"), State("p3", 33, "paused")>>,
   images |-> [ok |-> ok, names |-> <<"alpine">>]]
\* One container of podman is called like one of containerd.
Podmans ==
  {<<>>,
   <<Podman(TRUE, <<Entry("p1", TRUE, "pod", "c1"),
                    Entry("p2", FALSE, "c1", ""),
                    Entry("p3", TRUE, "", "")>>, "ok"),
     Podman(FALSE, <<Entry("p4", TRUE, "q", "q")>>, "absent")>>,
   <<Podman(TRUE, <<Entry("p1", TRUE, "web", "web")>>, "ok"),
     Podman(TRUE, <<>>, "bad")>>}

-----------------------------------------------------------------------------
Img == <<"img">>
Below(name) == Img \o DefaultRoot(name).names
Case == <<"case", "docker">>
CaseCtd == <<"case", "containerd">>

FlagsOf(image, docker, containerd, support, readable) ==
  [image |-> image, docker |-> docker, containerd |-> containerd,
   support |-> support, readable |-> readable]
PauseOrDns == [images |-> {"pause"}, names |-> {"dns"}, labels |-> {}]
ByLabel == [images |-> {}, names |-> {"node"}, labels |-> {App}]

Disk(dockers, containerds, podman, data, conf) ==
  [dataRoot |-> data, configRoot |-> conf, dockers |-> dockers,
   containerds |-> containerds, podman |-> podman]
At(path, root) == [p \in {path} |-> root]
Nowhere == [p \in {} |-> 0]

Cmd(kind, engine, filter, key, all, json) ==
  [kind |-> kind, engine |-> engine, filter |-> filter, key |-> key,
   all |-> all, json |-> json]
AppFilter == <<<<"app", "web">>>>
Terms == {<<>>, AppFilter, <<<<"app">>, <<"app", "web", "x">>>>,
          <<<<"app", "web">>, <<"app", "db">>>>}
Lists == {Cmd("containers", "", f, "", a, j) :
            f \in Terms, a \in BOOLEAN, j \in BOOLEAN}
         \cup {Cmd("images", "", <<>>, "", a, FALSE) : a \in BOOLEAN}
Plain == {Cmd(k, "", <<>>, "", FALSE, FALSE) :
            k \in {"namespaces", "tasks", "contents", "snapshots"}}
Loops == {Cmd("mount all", e, f, "", a, FALSE) :
            e \in {"all", "Docker", "containerd"}, f \in {<<>>, AppFilter},
            a \in BOOLEAN}
         \cup {Cmd("drift", "", <<>>, k, FALSE, FALSE) : k \in {"", "c1"}}
Finders == {Cmd(k, "", <<>>, i, FALSE, FALSE) :
              k \in FindKinds, i \in {"d1", "c1", "c2", "p1", "x"}}

\* One image with every combination of roots, and every command.
OnImage ==
  [flags : {FlagsOf(Img, <<>>, <<>>, {}, TRUE)},
   disk : {Disk(At(Below("docker"), d), At(Below("containerd"), c), p,
                Unset, Unset) :
             d \in Dockers, c \in Containerds, p \in Podmans},
   command : {c \in Lists : c.json \/ c.filter = <<>>} \cup Plain \cup Finders
             \cup {c \in Loops : ~c.all}]

\* Support containers and filters.
WithSupport ==
  [flags : {FlagsOf(Img, <<>>, <<>>, {PauseOrDns}, r) : r \in BOOLEAN}
           \cup {FlagsOf(Img, <<>>, <<>>, {ByLabel}, TRUE)},
   disk : {Disk(At(Below("docker"), Docker(<<D1, D2>>, TRUE)),
                At(Below("containerd"), c), <<>>, Unset, Unset) :
             c \in {Intact1, Doubled}},
   command : Lists \cup Loops]

\* Roots that are given, configured, found beside the other one, or missing.
\* The image has three docker roots and two of containerd, and the case folder
\* one of each.  Configured are a plain path, one with a detour, one that
\* leads out of the image, and one that does not begin with a slash.
Conf(rooted, names) == [rooted |-> rooted, names |-> names]
DataRoots == {Unset, Conf(TRUE, <<"data", "d">>),
              Conf(TRUE, <<"data", "..", "", "data", ".", "d">>),
              Conf(TRUE, <<"..", "case", "docker">>),
              Conf(FALSE, <<"data", "d">>)}
ConfigRoots == {Unset, Conf(TRUE, <<"data", "..", "ctd">>)}
Elsewhere ==
  [flags : {FlagsOf(i, d, c, {}, TRUE) : i \in {<<>>, Img}, d \in {<<>>, Case},
                                    c \in {<<>>, CaseCtd, Case}},
   disk : {Disk([p \in {Below("docker"), Img \o <<"data", "d">>,
                        Img \o <<"datad">>, Case} |->
                   Docker(<<[D1 EXCEPT !.id = Last(p)]>>, FALSE)],
                [p \in {Below("containerd"), Img \o <<"ctd">>, CaseCtd} |->
                   Whole(<<[C1 EXCEPT !.id = p[1]]>>, <<>>, <<>>)],
                <<>>, d, c) : d \in DataRoots, c \in ConfigRoots},
   command : {Cmd("containers", "", <<>>, "", FALSE, FALSE),
              Cmd("tasks", "", <<>>, "", FALSE, FALSE),
              Cmd("mount all", "all", <<>>, "", FALSE, FALSE)}]

\* What is left of a cgroup, for containers of containerd and of docker.
WithCgroups ==
  [flags : {FlagsOf(Img, <<>>, <<>>, {}, TRUE)},
   disk : {Disk(At(Below("docker"), Docker(<<D2>>, FALSE)),
                At(Below("containerd"),
                   Whole(<<[C1 EXCEPT !.cgroup = g, !.init = i]>>,
                         <<[M2 EXCEPT !.cgroup = g]>>, <<C3>>)),
                <<>>, Unset, Unset) : g \in Cgroups, i \in {0, 22}},
   command : {Cmd("containers", "", <<>>, "", FALSE, FALSE),
              Cmd("tasks", "", <<>>, "", FALSE, FALSE)}]

Doubles ==
  [flags : {FlagsOf(Img, <<>>, <<>>, {}, TRUE)},
   disk : {Disk(Nowhere, At(Below("containerd"), Doubled), <<>>,
                Unset, Unset)},
   command : {Cmd("containers", "", <<>>, "", FALSE, TRUE)}]

CONSTANT Families
MCScenarios ==
  UNION {CASE f = "image" -> OnImage [] f = "support" -> WithSupport
           [] f = "elsewhere" -> Elsewhere [] f = "cgroups" -> WithCgroups
           [] OTHER -> Doubles : f \in Families}
=============================================================================
