------------------------- MODULE MCContainerExport -------------------------
(***************************************************************************)
(* ContainerExport for TLC: the evidence and the options of the runs.      *)
(***************************************************************************)
EXTENDS ContainerExport

CONSTANTS c1, c2, x1, x2

CONSTANTS web, none         \* the name of a podman container, and no name

Rec(i, xs, s, m) ==
  [id |-> i, name |-> none, yields |-> xs, support |-> s, match |-> m]

Engine(t, n, ok, recs) ==
  [type |-> t, namespaces |-> n, names |-> TRUE, lists |-> ok,
   listing |-> recs]

\* docker and containerd both know c1 (docker's containers are in the moby
\* namespace); c2 is a Kubernetes support container, or does not match.
Docker == Engine("docker", 2, TRUE, <<Rec(c1, {x1}, FALSE, TRUE)>>)
Containerd(match) ==
  Engine("containerd", 2, TRUE,
         <<Rec(c1, {x1}, FALSE, TRUE), Rec(c2, {x2}, TRUE, match)>>)
Podman == Engine("podman", 1, TRUE,
                 <<[Rec(c2, {x2}, FALSE, TRUE) EXCEPT !.name = web]>>)

\* ListNamespaces fails: containerd cannot list, docker's listing can.
Nameless(e) ==
  [e EXCEPT !.names = FALSE, !.lists = @ /\ e.type = "docker"]

\* The snapshot of c1 is of an unsupported snapshotter, or cannot be told
\* from that of c2.
Doubtful ==
  Engine("containerd", 1, TRUE,
         <<Rec(c1, {None}, FALSE, TRUE), Rec(c2, {x1, x2}, FALSE, TRUE)>>)

\* The ID c1 is in two namespaces of containerd.
Doubled ==
  Engine("containerd", 2, TRUE,
         <<Rec(c1, {x1}, FALSE, TRUE), Rec(c1, {x2}, FALSE, TRUE)>>)

\* export <id>, with each combination of the two file options.
OneSetups ==
  [engines : {<<Docker, Containerd(TRUE)>>, <<Podman, Containerd(TRUE)>>,
              <<Nameless(Docker), Nameless(Containerd(TRUE)), Podman>>},
   image : BOOLEAN, archive : BOOLEAN, support : {FALSE}, all : {FALSE},
   arg : {c1, c2, web}]

\* export <id> where containerd finds the ID but a record breaks the listing.
UnlistedSetups ==
  [engines : {<<Engine("containerd", 2, FALSE,
                       <<Rec(c1, {x1}, FALSE, TRUE)>>)>>},
   image : {TRUE}, archive : {FALSE}, support : {FALSE}, all : {FALSE},
   arg : {c1}]

\* export --all over two explorers.
AllSetups ==
  UnlistedSetups \cup
  [engines : {<<Docker, Podman>>, <<Containerd(TRUE)>>, <<Containerd(FALSE)>>,
              <<Nameless(Docker), Podman>>, <<Doubtful>>, <<Doubled>>},
   image : {TRUE}, archive : {FALSE}, support : BOOLEAN, all : {TRUE},
   arg : {c1}]

\* The commands of the export run.
ExportSetups == OneSetups \cup AllSetups
=============================================================================
