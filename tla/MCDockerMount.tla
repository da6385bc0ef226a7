--------------------------- MODULE MCDockerMount ---------------------------
(***************************************************************************)
(* DockerMount for TLC: one docker root with containers of both drivers,   *)
(* and what may be wrong with it.                                          *)
(***************************************************************************)
EXTENDS DockerMount

C(i, d) == [id |-> i, config |-> TRUE, driver |-> d, match |-> TRUE]
S(n, k, l, p) == [ns |-> n, key |-> k, layer |-> l, parent |-> p]

\* a and b use overlay2 with a common lower layer; c and d use overlayfs,
\* each with its init layer over a common base; v uses another driver.
\* Another namespace has a key that is the ID of c.
Sound ==
  [containers |-> <<C("a", "overlay2"), C("b", "overlay2"),
                    C("c", "overlayfs"), C("d", "overlayfs"), C("v", "vfs"),
                    [C("w", "overlay2") EXCEPT !.match = FALSE]>>,
   mountID |-> [i \in {"a", "b", "w"} |-> i],
   link |-> [i \in {"a", "b", "w"} |-> IF i = "a" THEN "A" ELSE "B"],
   lower |-> [i \in {"a", "b", "w"} |-> IF i = "a" THEN <<"Ai", "L">>
                                        ELSE <<"Bi", "L">>],
   open |-> TRUE,
   snapshots |-> <<S("k8s.io", "c", "1", 0), S("moby", "base", "2", 0),
                   S("moby", "c", "3", 4), S("moby", "c-init", "4", 2),
                   S("moby", "d", "5", 6), S("moby", "d-init", "6", 2)>>,
   longer |-> {<<"c-init", "c">>, <<"d-init", "d">>}]

Without(f, x) == [i \in DOMAIN f \ {x} |-> f[i]]

\* One thing that is wrong: a file that cannot be read, a database that is
\* not there, a chain that is broken or turns back.
Damages ==
  {[Sound EXCEPT !.containers[1].config = FALSE],
   [Sound EXCEPT !.containers = <<>>],
   [Sound EXCEPT !.mountID = Without(@, "a")],
   [Sound EXCEPT !.link = Without(@, "a")],
   [Sound EXCEPT !.lower = Without(@, "a")],
   [Sound EXCEPT !.open = FALSE],
   [Sound EXCEPT !.snapshots[4].layer = ""],
   [Sound EXCEPT !.snapshots[4].parent = 9],
   [Sound EXCEPT !.snapshots[4].parent = 3],
   [Sound EXCEPT !.snapshots[2].parent = 6],
   [Sound EXCEPT !.snapshots[3].parent = 0],
   [Sound EXCEPT !.snapshots[3].key = "gone"]}

Roots == {Sound} \cup Damages

AllCommands ==
  [kind : {"all"}, id : {""}] \cup [kind : {"drift"}, id : {"", "c"}]
    \cup [kind : {"mount"}, id : {"a", "c", "v", "x"}]
=============================================================================
