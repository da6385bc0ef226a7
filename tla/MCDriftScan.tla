---------------------------- MODULE MCDriftScan ----------------------------
(***************************************************************************)
(* DriftScan for TLC: all small file systems of one shape.  root has the   *)
(* directory d (a file and a whiteout) and, in either, a second directory  *)
(* e with an executable and two links to anything; "l" links to root, as   *)
(* the short names of overlay2 do; out is a directory of the host.         *)
(***************************************************************************)
EXTENDS DriftScan

Nodes == {"root", "d", "e", "f", "x", "w", "k1", "k2", "l", "out", "o"}
Links == {"k1", "k2"}
Inner == Nodes \ {"l", "out", "o"}

KindOf ==
  [n \in Nodes |-> CASE n \in {"root", "d", "e", "out"} -> "dir"
                     [] n \in Links \cup {"l"} -> "link"
                     [] n = "x" -> "exec" [] n = "w" -> "whiteout"
                     [] OTHER -> "file"]

\* Links sort before or after the directories they name.
Orders == {<<"k1", "k2", "d", "e", "f", "w", "x", "o">>,
           <<"d", "e", "f", "k1", "o", "w", "x", "k2">>}

System(e, k, order, t1, t2, closed) ==
  [kind |-> KindOf,
   parent |-> [n \in Nodes |-> CASE n \in {"root", "l", "out"} -> n
                                 [] n = "d" -> "root" [] n = "e" -> e
                                 [] n = "x" -> "e" [] n = "o" -> "out"
                                 [] n \in {"f", "w"} -> "d"
                                 [] n = "k1" -> k [] n = "k2" -> "e"],
   order |-> order,
   target |-> [n \in Nodes |-> CASE n = "k1" -> t1 [] n = "k2" -> t2
                                 [] n = "l" -> "root" [] OTHER -> n],
   closed |-> closed]

Systems(targets) ==
  {System(e, k, order, t1, t2, closed) :
     e \in {"root", "d"}, k \in {"root", "d"}, order \in Orders,
     t1 \in targets, t2 \in targets, closed \in {{}, {"e"}, {"f"}}}

AllSystems == Systems(Inner \cup {"out"})
=============================================================================
