------------------------- MODULE MCContainerdMount -------------------------
(***************************************************************************)
(* ContainerdMount for TLC: containerd roots and commands.                 *)
(***************************************************************************)
EXTENDS ContainerdMount

R(n, i, s, k) == [ns |-> n, id |-> i, snapshotter |-> s, key |-> k,
                  support |-> FALSE, match |-> TRUE]
Dir(o, holds, ids) == [owner |-> o, holds |-> holds, db |-> TRUE,
                       ids |-> ids, work |-> o # "native"]
Entry(n, p) == [name |-> n, parent |-> p]

\* Two namespaces with the same image, two snapshotters with different ids
\* for the same names, complete and incomplete container records.
a == R("default", "a", "overlayfs", "a")
b == R("default", "b", "native", "b")
c == R("k8s.io", "c", "", "")
d == R("k8s.io", "d", "stargz", "")
e == R("moby", "e", "overlayfs", "e")
f == [R("k8s.io", "f", "overlayfs", "f") EXCEPT !.support = TRUE]

Meta ==
  (<<"default", "overlayfs", "a">> :> Entry("n1", "base")) @@
  (<<"default", "overlayfs", "base">> :> Entry("n2", "")) @@
  (<<"default", "native", "b">> :> Entry("n1", "base")) @@
  (<<"default", "native", "base">> :> Entry("n2", "")) @@
  (<<"k8s.io", "overlayfs", "c-rw">> :> Entry("n3", "mid")) @@
  (<<"k8s.io", "overlayfs", "mid">> :> Entry("n4", "base")) @@
  (<<"k8s.io", "overlayfs", "base">> :> Entry("n5", "")) @@
  (<<"k8s.io", "stargz", "d">> :> Entry("n3", "base")) @@
  (<<"k8s.io", "stargz", "base">> :> Entry("n4", ""))

\* Every snapshotter numbers its snapshots from 1, in its own order.
Names == <<"n1", "n2", "n3", "n4", "n5">>
Ids(x) == [n \in ToSet(Names) |->
             LET k == CHOOSE i \in DOMAIN Names : Names[i] = n
             IN  1 + ((x + k) % Len(Names))]

Healthy ==
  [records |-> <<a, b, c, d, e, f>>,
   buckets |-> <<"native", "overlayfs", "stargz">>,
   keys |-> <<"a", "b", "base", "c-rw", "d", "mid">>,
   meta |-> Meta,
   mentions |-> {<<"c-rw", "c">>},
   dirs |-> <<Dir("content", {}, <<>>), Dir("native", {"native"}, Ids(1)),
              Dir("overlayfs", {"overlayfs"}, Ids(2)),
              Dir("stargz", {"stargz"}, Ids(3))>>,
   links |-> {1, 2, 4, 5}, cache |-> ""]

\* A parent is missing, and an identifier.
NoParent == [Healthy EXCEPT !.meta =
  Restrict(Meta, DOMAIN Meta \ {<<"k8s.io", "overlayfs", "mid">>})]
NoId == [Healthy EXCEPT !.dirs[3].ids = Restrict(Ids(2), {"n1", "n3", "n5"})]
NoDatabase == [Healthy EXCEPT !.dirs[4].db = FALSE]
Cached == [Healthy EXCEPT !.cache = "layers"]

NoWork == [Healthy EXCEPT !.dirs[4].work = FALSE]

\* One ID in two namespaces; the second container has no mount.
Twice == [NoWork EXCEPT !.records = @ \o <<R("k8s.io", "a", "stargz", "d")>>]

SoundEvidence == {Healthy, NoParent, NoId, NoDatabase, Cached, NoWork, Twice}

All == [kind |-> "all", calls |-> <<>>]
One(r) == [kind |-> "mount", calls |-> <<r>>]
Export(s) == [kind |-> "export", calls |-> s]
Drift(s) == [kind |-> "drift", calls |-> s]

\* Exports of containers of one snapshotter, each in two passes.
SoundCommands ==
  [x \in SoundEvidence |->
     {All, Drift(<<>>), Drift(<<c>>)} \cup
     {Export(<<a, a, c, c>>), Export(<<d, d>>), Export(<<b>>)} \cup
     {One(r) : r \in {a, b, c, d, e, f}}]

\* containerd's export --all over two snapshotters.
MixedEvidence == {Healthy}
MixedCommands == [x \in MixedEvidence |-> {Export(<<a, d>>)}]
=============================================================================
