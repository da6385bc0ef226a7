-------------------------- MODULE DockerMount_proof --------------------------
(***************************************************************************)
(* The docker explorer, for every docker root and every command: the layers *)
(* that are mounted are the container's own, each container is served, and *)
(* an intact one fails only by its commands.  Three invariants carry the   *)
(* proofs: what the loop has left, the walk over the parents, and what     *)
(* was mounted and what failed.                                            *)
(***************************************************************************)
EXTENDS DockerMount, SequenceLemmas

Containers == ToSet(ev.containers)

\* The program points of one container.
Busy == {"driver", "files", "pick", "walk", "use"}

\* What the loop over the containers has left to do.
LoopInv ==
  /\ ev \in Evidence /\ command \in Commands
  /\ pc \in {"list", "next", "end"} \cup Busy
  /\ result \in {"running", "ok", "error"}
  /\ todo \in Seq(ToSet(todo)) /\ ToSet(todo) \subseteq Containers
  /\ container \in Containers \cup {<<>>}
  /\ pc \in Busy => container \in Containers
  /\ result = "ok" => pc = "end" /\ todo = <<>>
  /\ pc \in {"list", "next"} \cup Busy => result = "running"

\* What has been mounted, scanned and failed, and what of it is due.
Handled(c) ==
  \/ \E m \in ToSet(mounts) \cup ToSet(scans) : m[1] = c
  \/ \E f \in failed : f[1] = c

ServedInv ==
  /\ mounts \in Seq(ToSet(mounts)) /\ scans \in Seq(ToSet(scans))
  /\ \A m \in ToSet(mounts) \cup ToSet(scans) : m[1] \in Containers
  /\ command.kind \in {"all", "drift"} /\ pc # "list" /\ result # "error" =>
       \A c \in Containers : Wanted(c) =>
         \/ c \in ToSet(todo) \/ (pc \in Busy /\ c = container) \/ Handled(c)

\* The walk has gone from the container's snapshot up to bucket; visited are
\* the buckets on the way, and their layers have been collected in order.
Climbed ==
  LET n == Cardinality(visited)
      line == Line(ev, active)
  IN  /\ active \in Snapshots
      /\ ev.open
      /\ Exact(container.id) # {} => active \in Exact(container.id)
      /\ visited = {line[k] : k \in 0..(n - 1)} /\ visited \subseteq Readable
      /\ bucket = line[n]
      /\ Len(lowerPaths) = IF n = 0 THEN 0 ELSE n - 1
      /\ \A k \in 1..Len(lowerPaths) :
           lowerPaths[k] = ev.snapshots[line[k]].layer
      /\ n > 0 => upper = ev.snapshots[active].layer

WalkInv ==
  /\ bucket \in Nat /\ active \in Snapshots \cup {0}
  /\ visited \subseteq Snapshots
  /\ upper \in Layer \cup {""} /\ lowerPaths \in Seq(Layer)
  /\ pc = "files" => container.driver = "overlay2"
  /\ pc \in {"pick", "walk"} => container.driver = "overlayfs"
  /\ pc = "walk" => Climbed
  /\ pc = "use" =>
       \/ container.driver = "overlayfs" /\ Climbed /\ bucket = 0
       \/ /\ container.driver = "overlay2"
          /\ upper = ev.link[ev.mountID[container.id]]
          /\ command.kind # "drift" =>
               lowerPaths = ev.lower[ev.mountID[container.id]]

IInv == LoopInv /\ ServedInv /\ WalkInv /\ LayersAreOwn /\ IntactIsFound
-----------------------------------------------------------------------------
\* The model's operators

\* The line of a bucket goes from each bucket to its parent.
LEMMA LineClimbs ==
  ASSUME NEW e \in Evidence, NEW i \in Nat
  PROVE  /\ Line(e, i) \in [Nat -> Nat] /\ Line(e, i)[0] = i
         /\ \A n \in Nat : Line(e, i)[n + 1] = Parent(e)[Line(e, i)[n]]
<1>1. Parent(e) \in [Nat -> Nat]
  BY EvidenceAssumption DEF Parent
<1>2. Initial(Nat) /\ Line(e, i) = Iterate(Nat, i, Parent(e))
  BY DEF Line, Iterate, Initial
<1> DEFINE line == Line(e, i)
<1> HIDE DEF line
<1>3. /\ line \in [Nat -> Nat] /\ line[0] = i
      /\ \A n \in Nat : n # 0 => line[n] = Parent(e)[line[n - 1]]
  <2> DEFINE D == Nat
             next == Parent(e)
  <2>1. /\ next \in Maps(D) /\ i \in D /\ Initial(D)
        /\ line = Iterate(D, i, next)
    BY <1>1, <1>2 DEF line, Maps
  <2> HIDE DEF D, next
  <2>2. IsIterate(line, D, D, i, next)
    BY <2>1, Iteration
  <2>3. QED
    BY <2>2 DEF D, next, IsIterate
<1>4. ASSUME NEW n \in Nat PROVE line[n + 1] = Parent(e)[line[n]]
  <2>1. n + 1 # 0 /\ (n + 1) - 1 = n
    OBVIOUS
  <2>2. QED
    BY <1>3, <2>1
<1>5. QED
  BY <1>3, <1>4 DEF line

\* A line that meets itself never comes to an end, unless it was there.
LEMMA LineTurns ==
  ASSUME NEW e \in Evidence, NEW i \in Nat, NEW n \in Nat,
         NEW k \in 0..(n - 1),
         Line(e, i)[n] = Line(e, i)[k],
         NEW m \in Nat, Line(e, i)[m] = 0
  PROVE  \E l \in 0..(n - 1) : Line(e, i)[l] = 0
<1> DEFINE line == Line(e, i)
           Zero == {l \in Nat : line[l] = 0}
<1>1. /\ line \in [Nat -> Nat]
      /\ \A l \in Nat : line[l + 1] = Parent(e)[line[l]]
  BY LineClimbs
<1> HIDE DEF line
<1>2. PICK l \in Zero : \A o \in Zero : l <= o
  BY Least DEF line
<1>3. CASE l < n
  BY <1>2, <1>3 DEF line
<1>4. CASE l >= n
  <2> DEFINE P == {o \in Nat : line[n + o] = line[k + o]}
  <2>1. 0 \in P
    BY DEF line
  <2>2. ASSUME NEW o \in Nat, o \in P PROVE o + 1 \in P
    <3>1. /\ line[n + o + 1] = Parent(e)[line[n + o]]
          /\ line[k + o + 1] = Parent(e)[line[k + o]]
      BY <1>1
    <3>2. n + (o + 1) = n + o + 1 /\ k + (o + 1) = k + o + 1
      OBVIOUS
    <3>3. QED
      BY <2>2, <3>1, <3>2
  <2>3. Nat \subseteq P
    <3> HIDE DEF P
    <3> QED
      BY <2>1, <2>2, Induction
  <2>4. l - n \in Nat /\ n + (l - n) = l /\ k + (l - n) \in Nat
        /\ k + (l - n) < l
    BY <1>4
  <2>5. line[k + (l - n)] = 0
    BY <1>2, <2>3, <2>4
  <2>6. QED
    BY <1>2, <2>4, <2>5
<1>5. QED
  BY <1>2, <1>3, <1>4
\* The visited buckets are finitely many, and no more than there are.
LEMMA VisitedBounded ==
  ASSUME ev \in Evidence, visited \subseteq Snapshots
  PROVE  /\ Len(ev.snapshots) \in Nat /\ Snapshots = 1..Len(ev.snapshots)
         /\ IsFiniteSet(visited) /\ Cardinality(visited) \in Nat
         /\ Cardinality(visited) <= Len(ev.snapshots)
         /\ (Cardinality(visited) = 0 <=> visited = {})
<1> DEFINE L == Len(ev.snapshots)
<1>1. L \in Nat /\ Snapshots = 1..L
  BY EvidenceAssumption, LenProperties DEF Snapshots
<1> HIDE DEF L
<1>2. IsFiniteSet(1..L) /\ Cardinality(1..L) = L
  BY <1>1, FS_Interval
<1>3. IsFiniteSet(visited) /\ Cardinality(visited) <= L
  BY <1>1, <1>2, FS_Subset
<1>4. Cardinality(visited) \in Nat
  BY <1>3, FS_CardinalityType
<1>5. Cardinality(visited) = 0 <=> visited = {}
  BY <1>3, FS_EmptySet
<1>6. QED
  BY <1>1, <1>3, <1>4, <1>5 DEF L

\* The snapshot that the search ends with is one, and the container's own if
\* it has any.
LEMMA MatchIsOwn ==
  ASSUME LoopInv, WalkInv, NEW id
  PROVE  /\ Match(id) \in Snapshots \cup {0} /\ Match(id) \in Nat
         /\ Exact(id) # {} => Match(id) \in Exact(id)
         /\ 0 \notin Snapshots
<1> DEFINE L == Len(ev.snapshots)
<1>1. L \in Nat /\ Snapshots = 1..L
  BY VisitedBounded DEF LoopInv, WalkInv
<1> HIDE DEF L
<1>2. ASSUME NEW S \in SUBSET Snapshots, S # {} PROVE Max(S) \in S
  <2>1. S \in SUBSET (0..L)
    BY <1>1
  <2>2. QED
    BY <1>1, <1>2, <2>1, MaxIsGreatest
<1>3. Exact(id) \in SUBSET Snapshots /\ Longer(id) \in SUBSET Snapshots
  BY DEF Exact, Longer
<1>4. Cardinality(Longer(id)) = 1 => Longer(id) # {}
  BY FS_EmptySet
<1>5. /\ Match(id) \in Snapshots \cup {0}
      /\ Exact(id) # {} => Match(id) \in Exact(id)
  <2>1. CASE Exact(id) # {}
    BY <1>2, <1>3, <2>1 DEF Match
  <2>2. CASE Exact(id) = {}
    BY <1>2, <1>3, <1>4, <2>2 DEF Match
  <2>3. QED
    BY <2>1, <2>2
<1>6. QED
  BY <1>1, <1>5

\* Where the walk has come to a bucket without parent, it has collected the
\* chain of the bucket where it began.
LEMMA ClimbedIsChain ==
  ASSUME LoopInv, WalkInv, Climbed, bucket = 0
  PROVE  <<upper>> \o lowerPaths = Chain(ev, active)
<1> DEFINE n == Cardinality(visited)
           line == Line(ev, active)
           L == Len(ev.snapshots)
           Ends(m) == line[m] \in Snapshots /\ Parent(ev)[line[m]] = 0
           layers == <<upper>> \o lowerPaths
           S == Layer \cup {""}
<1>1. /\ L \in Nat /\ Snapshots = 1..L /\ n \in Nat /\ n <= L
      /\ ev \in Evidence /\ active \in Nat
  <2>1. ev \in Evidence /\ visited \subseteq Snapshots /\ active \in Snapshots
    BY DEF LoopInv, WalkInv, Climbed
  <2>2. L \in Nat /\ Snapshots = 1..L /\ n \in Nat /\ n <= L
    <3> HIDE DEF n, L
    <3> QED
      BY <2>1, VisitedBounded DEF n, L
  <2> HIDE DEF n, L
  <2>3. active \in Nat
    BY <2>1, <2>2
  <2>4. QED
    BY <2>1, <2>2, <2>3
<1>2. /\ line \in [Nat -> Nat] /\ line[0] = active
      /\ \A m \in Nat : line[m + 1] = Parent(ev)[line[m]]
  BY <1>1, LineClimbs
<1> HIDE DEF line, n, L
<1>3. /\ \A k \in 0..(n - 1) : line[k] \in Snapshots /\ line[k] # 0
      /\ line[n] = 0 /\ active # 0
  <2>1. /\ visited = {line[k] : k \in 0..(n - 1)} /\ line[n] = bucket
        /\ active \in Snapshots /\ visited \subseteq Snapshots
    BY DEF Climbed, WalkInv, line, n
  <2>2. \A k \in 0..(n - 1) : line[k] \in Snapshots
    BY <2>1
  <2>3. 0 \notin Snapshots
    BY <1>1
  <2>4. QED
    BY <2>1, <2>2, <2>3
<1>4. n # 0 /\ n - 1 \in 0..(n - 1) /\ (n - 1) + 1 = n /\ n - 1 \in 0..L
  <2>1. n # 0
    BY <1>2, <1>3
  <2>2. QED
    BY <1>1, <2>1
<1>5. Ends(n - 1)
  <2>1. n - 1 \in Nat
    BY <1>4
  <2>2. line[(n - 1) + 1] = Parent(ev)[line[n - 1]]
    BY <1>2, <2>1
  <2>3. QED
    BY <1>3, <1>4, <2>2
<1>6. \A m \in 0..L : Ends(m) => m = n - 1
  <2> DEFINE P == {o \in Nat : line[n + o] = 0}
  <2>1. 0 \in P
    BY <1>1, <1>3
  <2>2. ASSUME NEW o \in Nat, o \in P PROVE o + 1 \in P
    <3>1. n + o \in Nat /\ n + (o + 1) = (n + o) + 1
      BY <1>1
    <3>2. line[n + (o + 1)] = Parent(ev)[0]
      BY <1>2, <2>2, <3>1
    <3>3. Parent(ev)[0] = 0
      BY <1>1 DEF Parent, Snapshots
    <3>4. QED
      BY <3>2, <3>3
  <2>3. Nat \subseteq P
    <3> HIDE DEF P
    <3> QED
      BY <2>1, <2>2, Induction
  <2> SUFFICES ASSUME NEW m \in 0..L, Ends(m), m # n - 1 PROVE FALSE
    OBVIOUS
  <2>4. CASE m >= n
    <3>1. m - n \in Nat /\ n + (m - n) = m
      BY <1>1, <2>4
    <3>2. line[m] = 0
      BY <2>3, <3>1
    <3>3. QED
      BY <1>1, <3>2
  <2>5. CASE m < n
    <3>1. m + 1 \in 0..(n - 1) /\ m \in Nat
      BY <1>1, <2>5
    <3>2. line[m + 1] = 0
      BY <1>2, <3>1
    <3>3. QED
      BY <1>3, <3>1, <3>2
  <2>6. QED
    BY <1>1, <2>4, <2>5
<1>7. Chain(ev, active) = [k \in 1..n |-> ev.snapshots[line[k - 1]].layer]
  <2> DEFINE c == CHOOSE m \in 0..L : Ends(m)
  <2>1. Chain(ev, active) =
          [k \in 1..(c + 1) |-> ev.snapshots[line[k - 1]].layer]
    BY DEF Chain, line, L, Snapshots
  <2>2. c \in 0..L /\ Ends(c)
    <3> HIDE DEF Ends
    <3> QED
      BY <1>4, <1>5
  <2> HIDE DEF c, Ends
  <2>3. c = n - 1
    BY <1>6, <2>2
  <2>4. c + 1 = n
    BY <1>4, <2>3
  <2>5. QED
    BY <2>1, <2>4
<1>8. /\ upper = ev.snapshots[line[0]].layer /\ Len(lowerPaths) = n - 1
      /\ \A k \in 1..(n - 1) : lowerPaths[k] = ev.snapshots[line[k]].layer
  BY <1>1, <1>2, <1>4 DEF Climbed, n, line
<1>9. /\ layers \in Seq(S) /\ Len(layers) = n
      /\ \A k \in 1..n :
           layers[k] = IF k = 1 THEN upper ELSE lowerPaths[k - 1]
  <2>1. lowerPaths \in Seq(S) /\ upper \in S
    BY SeqMonotonic DEF WalkInv
  <2> HIDE DEF S
  <2>2. <<upper>> \in Seq(S) /\ Len(<<upper>>) = 1 /\ <<upper>>[1] = upper
    BY <2>1
  <2> DEFINE u == <<upper>>
  <2> HIDE DEF u
  <2>3. /\ u \in Seq(S) /\ Len(u) = 1 /\ u[1] = upper
           /\ layers = u \o lowerPaths
    BY <2>2 DEF u
  <2>4. /\ u \o lowerPaths \in Seq(S) /\ Len(u \o lowerPaths) = 1 + (n - 1)
        /\ \A k \in 1..(1 + (n - 1)) :
             (u \o lowerPaths)[k] = IF k <= 1 THEN u[k] ELSE lowerPaths[k - 1]
    BY <1>8, <2>1, <2>3, ConcatProperties
  <2>5. 1 + (n - 1) = n /\ \A k \in 1..n : k <= 1 <=> k = 1
    BY <1>4
  <2>6. QED
    BY <2>3, <2>4, <2>5
<1>10. layers = [k \in 1..n |-> layers[k]]
  <2> HIDE DEF layers, S
  <2>1. QED
    BY <1>9, LenProperties
<1>11. \A k \in 1..n : layers[k] = ev.snapshots[line[k - 1]].layer
  <2> HIDE DEF layers, S
  <2> SUFFICES ASSUME NEW k \in 1..n
               PROVE  layers[k] = ev.snapshots[line[k - 1]].layer
    OBVIOUS
  <2>1. CASE k = 1
    BY <1>8, <1>9, <2>1
  <2>2. CASE k # 1
    <3>1. k - 1 \in 1..(n - 1)
      BY <1>1, <2>2
    <3>2. QED
      BY <1>8, <1>9, <2>2, <3>1
  <2>3. QED
    BY <2>1, <2>2
<1>12. QED
  <2> HIDE DEF layers
  <2>1. layers = Chain(ev, active)
    BY <1>7, <1>10, <1>11
  <2>2. QED
    BY <2>1 DEF layers
\* There the upper layer is that of the bucket where the walk began.
LEMMA ClimbedUpper ==
  ASSUME LoopInv, WalkInv, Climbed, bucket = 0
  PROVE  upper = ev.snapshots[active].layer
<1> DEFINE n == Cardinality(visited)
           L == Len(ev.snapshots)
<1>1. /\ n \in Nat /\ ev \in Evidence /\ active \in Nat /\ active # 0
  <2>1. /\ n \in Nat /\ ev \in Evidence /\ active \in Snapshots
        /\ Snapshots = 1..L /\ L \in Nat
    BY VisitedBounded DEF LoopInv, WalkInv, Climbed
  <2> HIDE DEF L, n
  <2>2. QED
    BY <2>1
<1>2. Line(ev, active)[0] = active
  BY <1>1, LineClimbs
<1>3. n # 0
  <2>1. n = 0 => bucket = active
    BY <1>2 DEF Climbed
  <2>2. QED
    BY <1>1, <2>1
<1>4. n > 0
  BY <1>1, <1>3
<1>5. QED
  BY <1>4 DEF Climbed

\* Where the walk fails the chain is broken, or turns back into itself.
LEMMA ChainFails ==
  ASSUME LoopInv, WalkInv, pc = "walk", bucket # 0,
         bucket \notin Readable \ visited
  PROVE  ~Intact(container)
<1> DEFINE n == Cardinality(visited)
           line == Line(ev, active)
           L == Len(ev.snapshots)
           reached == {line[m] : m \in 0..(L + 1)}
<1>1. Climbed /\ container.driver = "overlayfs"
  BY DEF WalkInv
<1>2. /\ L \in Nat /\ Snapshots = 1..L /\ n \in Nat /\ n <= L
      /\ ev \in Evidence
  BY VisitedBounded DEF LoopInv, WalkInv
<1>3. active \in Nat /\ 0 \notin Snapshots
  <2> HIDE DEF L
  <2>1. active \in Snapshots
    BY <1>1 DEF Climbed
  <2>2. QED
    BY <1>2, <2>1
<1> SUFFICES ASSUME Intact(container) PROVE FALSE
  OBVIOUS
<1>4. /\ 0 \in reached /\ reached \subseteq Snapshots \cup {0}
      /\ \A k \in reached \ {0} : ev.snapshots[k].layer # ""
  <2>1. /\ Exact(container.id) # {}
        /\ \A i \in Exact(container.id) : Unbroken(ev, i)
    BY <1>1 DEF Intact
  <2>2. active \in Exact(container.id)
    BY <1>1, <2>1 DEF Climbed
  <2>3. QED
    BY <2>1, <2>2 DEF Unbroken, Snapshots
<1>5. /\ visited = {line[k] : k \in 0..(n - 1)} /\ visited \subseteq Snapshots
      /\ bucket = line[n]
  BY <1>1 DEF Climbed, WalkInv
<1> HIDE DEF n, L, line
<1>6. n \in 0..(L + 1)
  BY <1>2
<1>7. bucket \in visited
  <2>1. bucket \in reached
    BY <1>5, <1>6
  <2> HIDE DEF reached
  <2>2. bucket \in Snapshots /\ ev.snapshots[bucket].layer # ""
    BY <1>4, <2>1
  <2>3. QED
    BY <2>2 DEF Readable
<1>8. PICK k \in 0..(n - 1) : line[n] = line[k]
  BY <1>5, <1>7
<1>9. PICK m \in Nat : line[m] = 0
  <2>1. PICK m \in 0..(L + 1) : line[m] = 0
    BY <1>4
  <2>2. QED
    BY <1>2, <2>1
<1>10. PICK l \in 0..(n - 1) : line[l] = 0
  BY <1>2, <1>3, <1>8, <1>9, LineTurns DEF line
<1>11. QED
  BY <1>3, <1>5, <1>10

-----------------------------------------------------------------------------
\* The steps

\* The steps for the container under way, and how one of them ends: it goes
\* on, it fails, or it has mounted or scanned.
Work == \/ ChooseDriver \/ ReadLayers \/ PickSnapshot \/ FollowParent
        \/ MountLayers \/ ScanLayer

GoesOn == pc' \in Busy /\ UNCHANGED <<failed, result, mounts, scans>>

Fails ==
  /\ \E what \in {"driver", "files", "snapshot", "chain", "mount", "scan"} :
       failed' = failed \cup {<<container, what>>}
  /\ \/ pc' = "end" /\ result' = "error"
     \/ pc' = "next" /\ UNCHANGED result
  /\ UNCHANGED <<mounts, scans>>

Mounts ==
  /\ pc = "use" /\ command.kind # "drift"
  /\ mounts' = Append(mounts, <<container, <<upper>> \o lowerPaths>>)
  /\ pc' = "next" /\ UNCHANGED <<failed, result, scans>>

Scans ==
  /\ pc = "use" /\ command.kind = "drift"
  /\ scans' = Append(scans, <<container, upper>>)
  /\ pc' = "next" /\ UNCHANGED <<failed, result, mounts>>

LEMMA WorkEffects ==
  ASSUME Work
  PROVE  /\ pc \in Busy /\ UNCHANGED <<ev, command, todo, container>>
         /\ GoesOn \/ Fails \/ Mounts \/ Scans
<1> USE DEF Fail, Goto, Busy, GoesOn, Fails
<1>1. CASE ChooseDriver
  BY <1>1 DEF ChooseDriver
<1>2. CASE ReadLayers
  BY <1>2 DEF ReadLayers
<1>3. CASE PickSnapshot
  BY <1>3 DEF PickSnapshot
<1>4. CASE FollowParent
  BY <1>4 DEF FollowParent
<1>5. CASE MountLayers
  BY <1>5 DEF MountLayers, Mounts
<1>6. CASE ScanLayer
  BY <1>6 DEF ScanLayer, Scans
<1>7. QED
  BY <1>1, <1>2, <1>3, <1>4, <1>5, <1>6 DEF Work

\* The loop's part is kept by every step.
LEMMA LoopStep ==
  ASSUME LoopInv, [Next]_vars
  PROVE  LoopInv'
<1> USE DEF Containers
<1>1. CASE ListForAll
  <2>1. ev.containers \in Seq(ToSet(ev.containers))
    BY EvidenceAssumption DEF LoopInv
  <2>2. QED
    BY <1>1, <2>1 DEF ListForAll, LoopInv, Busy
<1>2. CASE ListForOne
  <2>1. \A c : <<c>> \in Seq(ToSet(<<c>>)) /\ ToSet(<<c>>) = {c}
    BY DEF ToSet
  <2>2. todo' \in Seq(ToSet(todo')) /\ ToSet(todo') \subseteq Containers
    <3>1. CASE UNCHANGED todo
      BY <3>1 DEF LoopInv
    <3>2. CASE \E c \in Containers : todo' = <<c>>
      BY <2>1, <3>2
    <3>3. QED
      BY <1>2, <3>1, <3>2 DEF ListForOne
  <2>3. QED
    BY <1>2, <2>2 DEF ListForOne, LoopInv, Busy
<1>3. CASE SkipContainer \/ NextContainer
  <2>1. /\ todo' = Tail(todo) /\ todo # <<>> /\ pc = "next"
        /\ UNCHANGED <<ev, command, result>> /\ pc' \in {"next", "driver"}
        /\ \/ UNCHANGED container /\ pc' = "next"
           \/ container' = Head(todo)
    BY <1>3 DEF SkipContainer, NextContainer
  <2>2. /\ todo' \in Seq(ToSet(todo')) /\ Head(todo) \in ToSet(todo)
        /\ ToSet(todo') \subseteq ToSet(todo)
    BY <2>1, Dequeued DEF LoopInv
  <2>3. QED
    BY <2>1, <2>2 DEF LoopInv, Busy
<1>4. CASE Finish
  BY <1>4 DEF Finish, LoopInv, Busy
<1>5. CASE Work
  <2>1. /\ pc \in Busy /\ UNCHANGED <<ev, command, todo, container>>
        /\ \/ pc' \in Busy /\ UNCHANGED result
           \/ pc' = "end" /\ result' = "error"
           \/ pc' = "next" /\ UNCHANGED result
    BY <1>5, WorkEffects DEF GoesOn, Fails, Mounts, Scans
  <2>2. QED
    BY <2>1 DEF LoopInv, Busy
<1>6. CASE UNCHANGED vars
  BY <1>6 DEF vars, LoopInv
<1>7. QED
  BY <1>1, <1>2, <1>3, <1>4, <1>5, <1>6 DEF Next, Step, Done, Work

\* Every container that is wanted is to do, under way, or handled.
LEMMA ServedStep ==
  ASSUME LoopInv, ServedInv, [Next]_vars
  PROVE  ServedInv'
<1> USE DEF Containers
<1>1. CASE ListForAll
  BY <1>1 DEF ListForAll, LoopInv, ServedInv, Busy, Wanted, Handled
<1>2. CASE ListForOne
  BY <1>2 DEF ListForOne, LoopInv, ServedInv, Busy
<1>3. CASE SkipContainer
  <2>1. ToSet(todo) = {Head(todo)} \cup ToSet(todo')
    BY <1>3, Dequeued DEF SkipContainer, LoopInv
  <2>2. QED
    BY <1>3, <2>1 DEF SkipContainer, ServedInv, Busy, Wanted, Handled
<1>4. CASE NextContainer
  <2>1. ToSet(todo) = {Head(todo)} \cup ToSet(todo')
    BY <1>4, Dequeued DEF NextContainer, LoopInv
  <2>2. \/ pc' = "driver" /\ container' = Head(todo) /\ UNCHANGED failed
        \/ <<Head(todo), "mkdir">> \in failed' /\ failed \subseteq failed'
    BY <1>4 DEF NextContainer
  <2>3. \A c : Handled(c) => Handled(c)'
    BY <1>4, <2>2 DEF NextContainer, Handled
  <2>4. \A c : c = Head(todo) =>
                 Handled(c)' \/ (pc' \in Busy /\ container' = c)
    BY <2>2 DEF Handled, Busy
  <2>5. /\ pc \notin Busy /\ pc # "list"
        /\ UNCHANGED <<ev, command, result, mounts, scans>>
    BY <1>4 DEF NextContainer, Busy
  <2>6. command.kind \in {"all", "drift"} /\ result # "error" =>
          \A c \in Containers : Wanted(c) =>
            \/ c \in ToSet(todo') \/ Handled(c)'
            \/ pc' \in Busy /\ c = container'
    BY <2>1, <2>3, <2>4, <2>5 DEF ServedInv
  <2>7. QED
    BY <2>5, <2>6 DEF ServedInv, Wanted
<1>5. CASE Finish
  BY <1>5 DEF Finish, LoopInv, ServedInv, Busy, Wanted, Handled
<1>6. CASE Work
  <2>1. /\ pc \in Busy /\ UNCHANGED <<ev, command, todo, container>>
        /\ GoesOn \/ Fails \/ Mounts \/ Scans
    BY <1>6, WorkEffects
  <2>2. container \in Containers /\ pc # "list" /\ result # "error"
    BY <2>1 DEF LoopInv, Busy
  <2>3. /\ mounts' \in Seq(ToSet(mounts')) /\ scans' \in Seq(ToSet(scans'))
        /\ \A m \in ToSet(mounts') \cup ToSet(scans') :
             m \in ToSet(mounts) \cup ToSet(scans) \/ m[1] = container
        /\ ToSet(mounts) \subseteq ToSet(mounts')
        /\ ToSet(scans) \subseteq ToSet(scans')
    <3>1. CASE Mounts
      BY <3>1, Appended DEF Mounts, ServedInv
    <3>2. CASE Scans
      BY <3>2, Appended DEF Scans, ServedInv
    <3>3. CASE GoesOn \/ Fails
      BY <3>3 DEF GoesOn, Fails, ServedInv
    <3>4. QED
      BY <2>1, <3>1, <3>2, <3>3
  <2>4. \A c : Handled(c) => Handled(c)'
    BY <2>1, <2>3 DEF Handled, GoesOn, Fails, Mounts, Scans
  <2>5. \A c : c = container => pc' \in Busy \/ Handled(c)'
    <3>1. CASE Mounts
      <4>1. <<container, <<upper>> \o lowerPaths>> \in ToSet(mounts')
        BY <3>1, Appended DEF Mounts, ServedInv
      <4>2. QED
        BY <4>1 DEF Handled
    <3>2. CASE Scans
      <4>1. <<container, upper>> \in ToSet(scans')
        BY <3>2, Appended DEF Scans, ServedInv
      <4>2. QED
        BY <4>1 DEF Handled
    <3>3. CASE Fails
      <4>1. PICK what : <<container, what>> \in failed'
        BY <3>3 DEF Fails
      <4>2. QED
        BY <4>1 DEF Handled
    <3>4. QED
      BY <2>1, <3>1, <3>2, <3>3 DEF GoesOn
  <2>6. \A m \in ToSet(mounts') \cup ToSet(scans') : m[1] \in Containers'
    BY <2>1, <2>2, <2>3 DEF ServedInv
  <2>7. QED
    BY <2>1, <2>2, <2>3, <2>4, <2>5, <2>6 DEF ServedInv, Wanted
<1>7. CASE UNCHANGED vars
  BY <1>7 DEF vars, ServedInv, Busy, Wanted, Handled
<1>8. QED
  BY <1>1, <1>2, <1>3, <1>4, <1>5, <1>6, <1>7 DEF Next, Step, Done, Work

\* The walk keeps to the line of the container's snapshot.
LEMMA WalkStep ==
  ASSUME LoopInv, WalkInv, [Next]_vars
  PROVE  WalkInv'
<1> DEFINE Still == UNCHANGED <<ev, container, bucket, active, visited, upper,
                                lowerPaths>>
<1>1. ASSUME Still, pc' \notin Busy PROVE WalkInv'
  BY <1>1 DEF WalkInv, Busy, Layer, Snapshots
<1>2. CASE ListForAll \/ ListForOne \/ SkipContainer \/ Finish
  BY <1>1, <1>2 DEF ListForAll, ListForOne, SkipContainer, Finish, locals, Busy
<1>3. CASE NextContainer
  BY <1>3 DEF NextContainer, WalkInv, locals, Layer, Snapshots
<1>4. CASE ChooseDriver
  <2>1. /\ UNCHANGED <<ev, container, bucket, active, visited, upper,
                       lowerPaths>>
        /\ \/ pc' \notin Busy
           \/ container.driver = "overlay2" /\ pc' = "files"
           \/ container.driver = "overlayfs" /\ pc' = "pick"
    BY <1>4 DEF ChooseDriver, Fail, Goto, locals, Busy
  <2>2. QED
    BY <1>1, <2>1 DEF WalkInv, Layer, Snapshots
<1>5. CASE ReadLayers
  <2>1. ev \in Evidence
        /\ UNCHANGED <<ev, command, container, bucket, active, visited>>
    BY <1>5 DEF ReadLayers, LoopInv
  <2>2. CASE UNCHANGED <<upper, lowerPaths>> /\ pc' \notin Busy
    BY <1>1, <2>1, <2>2
  <2>3. CASE ~(UNCHANGED <<upper, lowerPaths>> /\ pc' \notin Busy)
    <3> DEFINE d == ev.mountID[container.id]
    <3>1. /\ pc = "files" /\ pc' = "use"
          /\ d \in DOMAIN ev.link /\ upper' = ev.link[d]
          /\ \/ command.kind = "drift" /\ lowerPaths' = <<>>
             \/ /\ command.kind # "drift"
                /\ d \in DOMAIN ev.lower /\ lowerPaths' = ev.lower[d]
      BY <1>5, <2>3 DEF ReadLayers, Fail, Goto, Busy
    <3>2. container.driver = "overlay2"
      BY <3>1 DEF WalkInv
    <3>3. upper' \in Layer
      BY <3>1 DEF Layer
    <3>4. lowerPaths' \in Seq(Layer)
      <4>1. CASE lowerPaths' = <<>>
        BY <4>1
      <4>2. CASE d \in DOMAIN ev.lower /\ lowerPaths' = ev.lower[d]
        <5>1. lowerPaths' \in Seq(ToSet(lowerPaths'))
          BY <2>1, <4>2, EvidenceAssumption
        <5>2. ToSet(lowerPaths') \subseteq Layer
          BY <4>2 DEF Layer
        <5>3. QED
          BY <5>1, <5>2, SeqMonotonic
      <4>3. QED
        BY <3>1, <4>1, <4>2
    <3>5. Layer' = Layer /\ Snapshots' = Snapshots
      BY <2>1 DEF Layer, Snapshots
    <3>6. QED
      BY <2>1, <3>1, <3>2, <3>3, <3>4, <3>5 DEF WalkInv
  <2>4. QED
    BY <2>2, <2>3
<1>6. CASE PickSnapshot
  <2> DEFINE id == container.id
             found == IF ev.open THEN Match(id) ELSE 0
  <2>1. /\ pc = "pick" /\ visited' = {} /\ lowerPaths' = <<>> /\ upper' = ""
        /\ active' = found /\ bucket' = found
        /\ IF found = 0 THEN pc' \notin Busy ELSE pc' = "walk"
        /\ UNCHANGED <<ev, command, container>>
    BY <1>6 DEF PickSnapshot, Fail, Goto, Busy
  <2>2. /\ found \in Snapshots \cup {0} /\ found \in Nat
        /\ found # 0 => /\ ev.open
                        /\ Exact(id) # {} => found \in Exact(id)
    <3> HIDE DEF id
    <3> QED
      BY MatchIsOwn
  <2> HIDE DEF found
  <2>3. /\ Layer' = Layer /\ Snapshots' = Snapshots
        /\ Exact(container.id)' = Exact(id)
    BY <2>1 DEF Layer, Snapshots, Exact
  <2>4. pc' = "walk" => Climbed'
    <3> SUFFICES ASSUME pc' = "walk" PROVE Climbed'
      OBVIOUS
    <3>1. found \in Snapshots /\ found # 0
      BY <2>1, <2>2 DEF Busy
    <3>2. Cardinality(visited') = 0
      BY <2>1, FS_EmptySet
    <3>3. Line(ev, found)[0] = found
      BY <2>2, LineClimbs DEF LoopInv
    <3>4. 0..(0 - 1) = {}
      OBVIOUS
    <3>5. Len(lowerPaths') = 0 /\ 1..0 = {}
      <4>1. lowerPaths' = <<>>
        BY <2>1
      <4>2. 1..0 = {}
        OBVIOUS
      <4>3. QED
        BY <4>1, <4>2
    <3> DEFINE line == Line(ev, found)
    <3>6. Line(ev', active') = line
      BY <2>1
    <3> HIDE DEF line
    <3>7. /\ line[0] = found
          /\ visited' = {line[k] : k \in 0..(0 - 1)}
             /\ visited' \subseteq Readable'
          /\ \A k \in 1..Len(lowerPaths') :
               lowerPaths'[k] = ev'.snapshots[line[k]].layer
      BY <2>1, <3>3, <3>4, <3>5 DEF line
    <3>8. /\ active' \in Snapshots' /\ ev'.open /\ bucket' = found
          /\ Exact(container.id)' # {} => active' \in Exact(container.id)'
      BY <2>1, <2>2, <2>3, <3>1
    <3>9. QED
      BY <3>2, <3>5, <3>6, <3>7, <3>8 DEF Climbed
  <2>5. /\ visited' \subseteq Snapshots' /\ lowerPaths' \in Seq(Layer')
        /\ active' \in Snapshots' \cup {0} /\ bucket' \in Nat
    <3>1. <<>> \in Seq(Layer')
      OBVIOUS
    <3>2. QED
      BY <2>1, <2>2, <2>3, <3>1
  <2>6. pc' \notin {"files", "pick", "use"} /\ container.driver = "overlayfs"
    BY <2>1 DEF WalkInv, Busy
  <2>7. QED
    BY <2>1, <2>4, <2>5, <2>6 DEF WalkInv
<1>7. CASE FollowParent
  <2>1. pc = "walk" /\ Climbed /\ container.driver = "overlayfs"
    BY <1>7 DEF FollowParent, WalkInv
  <2>2. CASE UNCHANGED <<bucket, visited, upper, lowerPaths>>
    <3>1. Still /\ (pc' \notin Busy \/ (pc' = "use" /\ bucket = 0))
      <4>1. UNCHANGED <<ev, container, active>>
        BY <1>7 DEF FollowParent
      <4>2. visited' # visited \cup {bucket} \/ bucket \in visited
        BY <2>2
      <4>3. QED
        BY <1>7, <2>2, <4>1, <4>2 DEF FollowParent, Fail, Goto, Busy
    <3>2. CASE pc' \notin Busy
      BY <1>1, <3>1, <3>2
    <3>3. CASE pc' = "use" /\ bucket = 0
      <4>1. Climbed'
        BY <2>1, <3>1 DEF Climbed, Exact, Readable, Snapshots
      <4>2. QED
        BY <2>1, <3>1, <3>3, <4>1 DEF WalkInv, Layer, Snapshots
    <3>4. QED
      BY <3>1, <3>2, <3>3
  <2>3. CASE /\ bucket \in Readable \ visited /\ pc' = "walk"
             /\ visited' = visited \cup {bucket}
             /\ bucket' = ev.snapshots[bucket].parent
             /\ IF bucket = active
                THEN upper' = ev.snapshots[bucket].layer
                /\ UNCHANGED lowerPaths
                ELSE /\ lowerPaths' =
                          Append(lowerPaths, ev.snapshots[bucket].layer)
                     /\ UNCHANGED upper
             /\ UNCHANGED <<ev, container, active>>
    <3> DEFINE n == Cardinality(visited)
               line == Line(ev, active)
               layer == ev.snapshots[bucket].layer
    <3>1. /\ n \in Nat /\ IsFiniteSet(visited)
             /\ Snapshots = DOMAIN ev.snapshots
          /\ ev \in Evidence /\ active \in Nat /\ 0 \notin Snapshots
      <4>1. /\ Len(ev.snapshots) \in Nat /\ Snapshots = 1..Len(ev.snapshots)
            /\ n \in Nat /\ IsFiniteSet(visited)
        BY VisitedBounded DEF LoopInv, WalkInv
      <4>2. active \in Snapshots /\ ev \in Evidence
        BY <2>1 DEF Climbed, LoopInv
      <4> HIDE DEF n
      <4>3. QED
        BY <4>1, <4>2 DEF Snapshots
    <3>2. /\ line \in [Nat -> Nat] /\ line[0] = active
          /\ \A k \in Nat : line[k + 1] = Parent(ev)[line[k]]
      BY <3>1, LineClimbs
    <3>3. Cardinality(visited') = n + 1
      BY <2>3, <3>1, FS_AddElement
    <3> HIDE DEF line, n
    <3>4. /\ Exact(container.id) # {} => active \in Exact(container.id)
          /\ active \in Snapshots /\ ev.open
          /\ visited = {line[k] : k \in 0..(n - 1)}
             /\ visited \subseteq Readable
          /\ bucket = line[n]
          /\ Len(lowerPaths) = IF n = 0 THEN 0 ELSE n - 1
          /\ \A k \in 1..Len(lowerPaths) :
               lowerPaths[k] = ev.snapshots[line[k]].layer
          /\ n > 0 => upper = ev.snapshots[active].layer
      BY <2>1 DEF Climbed, line, n
    <3>5. bucket = active <=> n = 0
      <4>1. n = 0 => bucket = active
        BY <3>2, <3>4
      <4>2. ASSUME n # 0 PROVE bucket # active
        <5>1. 0 \in 0..(n - 1)
          BY <3>1, <4>2
        <5>2. active \in visited
          BY <3>2, <3>4, <5>1
        <5>3. QED
          BY <2>3, <5>2
      <4>3. QED
        BY <4>1, <4>2
    <3>6. bucket \in Snapshots /\ layer \in Layer
      BY <2>3 DEF Readable, Layer
    <3>7. bucket' = line[n + 1] /\ bucket' \in Nat
      <4>1. bucket \in Nat /\ Parent(ev)[bucket] = ev.snapshots[bucket].parent
        BY <3>1, <3>6 DEF WalkInv, Parent
      <4>2. bucket' = Parent(ev)[line[n]]
        BY <2>3, <3>4, <4>1
      <4>3. line[n + 1] = Parent(ev)[line[n]] /\ line[n + 1] \in Nat
        BY <3>1, <3>2
      <4>4. QED
        BY <4>2, <4>3
    <3>8. visited' = {line[k] : k \in 0..((n + 1) - 1)}
      <4>1. 0..((n + 1) - 1) = 0..(n - 1) \cup {n}
        BY <3>1
      <4>2. QED
        BY <2>3, <3>4, <4>1
    <3>9. /\ upper' \in Layer \cup {""} /\ lowerPaths' \in Seq(Layer)
          /\ Len(lowerPaths') = n
          /\ upper' = ev.snapshots[active].layer
          /\ \A k \in 1..n : lowerPaths'[k] = ev.snapshots[line[k]].layer
      <4>1. CASE n = 0
        <5>1. upper' = layer /\ lowerPaths' = lowerPaths /\ 1..n = {}
          BY <2>3, <3>5, <4>1
        <5>2. QED
          BY <3>4, <3>5, <3>6, <4>1, <5>1 DEF WalkInv
      <4>2. CASE n # 0
        <5>1. upper' = upper /\ lowerPaths' = Append(lowerPaths, layer)
          BY <2>3, <3>5, <4>2
        <5>2. Len(lowerPaths) = n - 1 /\ (n - 1) + 1 = n /\ n > 0
          BY <3>1, <3>4, <4>2
        <5>3. /\ lowerPaths' \in Seq(Layer) /\ Len(lowerPaths') = n
              /\ \A k \in 1..(n - 1) : lowerPaths'[k] = lowerPaths[k]
              /\ lowerPaths'[n] = layer
          <6> DEFINE more == Append(lowerPaths, layer)
          <6>1. /\ more \in Seq(Layer) /\ Len(more) = Len(lowerPaths) + 1
                /\ \A k \in 1..Len(lowerPaths) : more[k] = lowerPaths[k]
                /\ more[Len(lowerPaths) + 1] = layer
            <7> HIDE DEF layer
            <7>1. layer \in Layer /\ lowerPaths \in Seq(Layer)
              BY <3>6 DEF WalkInv
            <7>2. QED
              BY <7>1, AppendProperties
          <6> HIDE DEF more
          <6>2. lowerPaths' = more
            BY <5>1 DEF more
          <6>3. QED
            BY <5>2, <6>1, <6>2
        <5>4. ASSUME NEW k \in 1..n
              PROVE  lowerPaths'[k] = ev.snapshots[line[k]].layer
          <6>1. CASE k = n
            BY <3>4, <5>3, <6>1
          <6>2. CASE k # n
            <7>1. k \in 1..(n - 1)
              BY <3>1, <6>2
            <7>2. QED
              BY <3>4, <5>2, <5>3, <7>1
          <6>3. QED
            BY <6>1, <6>2
        <5>5. upper' \in Layer \cup {""} /\ upper' = ev.snapshots[active].layer
          BY <3>4, <5>1, <5>2 DEF WalkInv
        <5>6. QED
          BY <5>3, <5>4, <5>5
      <4>3. QED
        BY <4>1, <4>2
    <3>10. (n + 1) - 1 = n /\ n + 1 # 0 /\ n + 1 > 0
      BY <3>1
    <3>11. Climbed'
      <4>1. /\ line' = line /\ Snapshots' = Snapshots /\ Readable' = Readable
            /\ Exact(container.id)' = Exact(container.id)
        BY <2>3 DEF line, Snapshots, Readable, Exact
      <4>2. visited' \subseteq Readable
        BY <2>3, <3>4
      <4>3. Line(ev', active') = line
        BY <2>3 DEF line
      <4>4. /\ Len(lowerPaths') = (n + 1) - 1
            /\ \A k \in 1..Len(lowerPaths') :
                 lowerPaths'[k] = ev'.snapshots[line[k]].layer
            /\ upper' = ev'.snapshots[active'].layer
        BY <2>3, <3>9, <3>10
      <4>5. /\ active' \in Snapshots' /\ ev'.open
            /\ Exact(container.id)' # {} => active' \in Exact(container.id)'
            /\ visited' \subseteq Readable'
        BY <2>3, <3>4, <4>1, <4>2
      <4>6. QED
        BY <3>3, <3>7, <3>8, <3>10, <4>3, <4>4, <4>5 DEF Climbed
    <3>12. visited' \subseteq Snapshots
      BY <2>3, <3>6 DEF WalkInv
    <3>13. QED
      BY <2>1, <2>3, <3>7, <3>9, <3>11, <3>12 DEF WalkInv, Layer, Snapshots
  <2>4. QED
    BY <1>7, <2>2, <2>3 DEF FollowParent, Goto
<1>8. CASE MountLayers \/ ScanLayer
  BY <1>1, <1>8 DEF MountLayers, ScanLayer, Fail, Goto, locals, Busy
<1>9. CASE UNCHANGED vars
  <2>1. UNCHANGED <<ev, container, bucket, active, visited, upper, lowerPaths,
                    pc, command>>
    BY <1>9 DEF vars, locals
  <2>2. Climbed' = Climbed
    BY <2>1 DEF Climbed, Exact, Readable, Snapshots
  <2>3. QED
    BY <2>1, <2>2 DEF WalkInv, Layer, Snapshots
<1>10. QED
  BY <1>2, <1>3, <1>4, <1>5, <1>6, <1>7, <1>8, <1>9 DEF Next, Step, Done

\* What is mounted and scanned is the container's own.
LEMMA LayersStep ==
  ASSUME LoopInv, ServedInv, WalkInv, LayersAreOwn, [Next]_vars
  PROVE  LayersAreOwn'
<1>1. ASSUME UNCHANGED <<ev, mounts, scans>> PROVE LayersAreOwn'
  BY <1>1 DEF LayersAreOwn, HasOwn, OwnLayers, OwnUpper, Exact, Snapshots
<1>2. CASE ListForAll \/ ListForOne \/ SkipContainer \/ NextContainer \/ Finish
  BY <1>1, <1>2
     DEF ListForAll, ListForOne, SkipContainer, NextContainer, Finish
<1>3. CASE Work
  <2>1. /\ UNCHANGED <<ev, container>>
        /\ GoesOn \/ Fails \/ Mounts \/ Scans
    BY <1>3, WorkEffects
  <2>2. \A c : HasOwn(c)' = HasOwn(c) /\ OwnLayers(c)' = OwnLayers(c)
               /\ OwnUpper(c)' = OwnUpper(c)
    BY <2>1 DEF HasOwn, OwnLayers, OwnUpper, Exact, Snapshots
  <2>3. CASE GoesOn \/ Fails
    BY <1>1, <2>1, <2>3 DEF GoesOn, Fails
  <2>4. ASSUME pc = "use", HasOwn(container)
        PROVE  /\ upper \in OwnUpper(container)
               /\ command.kind # "drift" =>
                    <<upper>> \o lowerPaths \in OwnLayers(container)
    <3>1. CASE container.driver = "overlay2"
      BY <2>4, <3>1 DEF WalkInv, OwnUpper, OwnLayers
    <3>2. CASE container.driver # "overlay2"
      <4>1. Climbed /\ bucket = 0 /\ Exact(container.id) # {}
        BY <2>4, <3>2 DEF WalkInv, HasOwn
      <4>2. <<upper>> \o lowerPaths = Chain(ev, active)
        BY <4>1, ClimbedIsChain
      <4>3. active \in Exact(container.id)
        BY <4>1 DEF Climbed
      <4>4. upper = ev.snapshots[active].layer
        BY <4>1, ClimbedUpper
      <4>5. QED
        BY <3>2, <4>2, <4>3, <4>4 DEF OwnUpper, OwnLayers
    <3>3. QED
      BY <3>1, <3>2
  <2>5. CASE Mounts
    <3> DEFINE m == <<container, <<upper>> \o lowerPaths>>
    <3>1. ToSet(mounts') = ToSet(mounts) \cup {m} /\ UNCHANGED scans
      BY <2>5, Appended DEF Mounts, ServedInv
    <3>2. HasOwn(m[1]) => m[2] \in OwnLayers(m[1])
      BY <2>4, <2>5 DEF Mounts
    <3> HIDE DEF m
    <3>3. QED
      BY <2>2, <3>1, <3>2 DEF LayersAreOwn
  <2>6. CASE Scans
    <3> DEFINE m == <<container, upper>>
    <3>1. ToSet(scans') = ToSet(scans) \cup {m} /\ UNCHANGED mounts
      BY <2>6, Appended DEF Scans, ServedInv
    <3>2. HasOwn(m[1]) => m[2] \in OwnUpper(m[1])
      BY <2>4, <2>6 DEF Scans
    <3> HIDE DEF m
    <3>3. QED
      BY <2>2, <3>1, <3>2 DEF LayersAreOwn
  <2>7. QED
    BY <2>1, <2>3, <2>5, <2>6
<1>4. CASE UNCHANGED vars
  BY <1>1, <1>4 DEF vars
<1>5. QED
  BY <1>2, <1>3, <1>4 DEF Next, Step, Done, Work

\* A container whose evidence is intact does not fail by it.
LEMMA IntactStep ==
  ASSUME LoopInv, WalkInv, IntactIsFound, [Next]_vars
  PROVE  IntactIsFound'
<1> DEFINE Own == {"mkdir", "mount", "scan"}
<1>1. ASSUME UNCHANGED ev,
             \A f \in failed' :
               f \in failed \/ f[2] \in Own \/ ~Intact(f[1])
      PROVE  IntactIsFound'
  <2>1. \A c : Intact(c)' = Intact(c)
    <3>1. Snapshots' = Snapshots /\ \A id : Exact(id)' = Exact(id)
      BY <1>1 DEF Exact, Snapshots
    <3>2. QED
      BY <1>1, <3>1 DEF Intact
  <2>2. QED
    BY <1>1, <2>1 DEF IntactIsFound
<1>2. ASSUME UNCHANGED <<ev, failed>> PROVE IntactIsFound'
  BY <1>1, <1>2
<1>3. CASE ListForAll \/ ListForOne \/ SkipContainer \/ Finish
  BY <1>2, <1>3 DEF ListForAll, ListForOne, SkipContainer, Finish
<1>4. CASE NextContainer
  <2>1. UNCHANGED ev /\ \A f \in failed' : f \in failed \/ f[2] \in Own
    BY <1>4 DEF NextContainer
  <2>2. QED
    BY <1>1, <2>1
<1>5. ASSUME NEW what, UNCHANGED <<ev, failed>> \/
               (UNCHANGED ev /\ failed' = failed \cup {<<container, what>>}
                /\ (what \in Own \/ ~Intact(container)))
      PROVE  IntactIsFound'
  <2>1. CASE UNCHANGED <<ev, failed>>
    BY <1>2, <2>1
  <2>2. CASE /\ UNCHANGED ev /\ failed' = failed \cup {<<container, what>>}
             /\ what \in Own \/ ~Intact(container)
    <3> DEFINE f == <<container, what>>
    <3>1. f[1] = container /\ f[2] = what
      OBVIOUS
    <3> HIDE DEF f
    <3>2. failed' = failed \cup {f}
      BY <2>2 DEF f
    <3>3. QED
      BY <1>1, <2>2, <3>1, <3>2
  <2>3. QED
    BY <1>5, <2>1, <2>2
<1>6. CASE ChooseDriver
  <2>1. UNCHANGED <<ev, failed>> \/
          (UNCHANGED ev /\ failed' = failed \cup {<<container, "driver">>}
           /\ ~Intact(container))
    BY <1>6 DEF ChooseDriver, Fail, Goto, Intact
  <2>2. QED
    BY <1>5, <2>1
<1>7. CASE ReadLayers
  <2>1. UNCHANGED <<ev, failed>> \/
          (UNCHANGED ev /\ failed' = failed \cup {<<container, "files">>}
           /\ ~Intact(container))
    <3>1. container.driver = "overlay2"
      BY <1>7 DEF ReadLayers, WalkInv
    <3>2. QED
      BY <1>7, <3>1 DEF ReadLayers, Fail, Goto, Intact
  <2>2. QED
    BY <1>5, <2>1
<1>8. CASE PickSnapshot
  <2>1. UNCHANGED <<ev, failed>> \/
          (/\ UNCHANGED ev /\ failed' = failed \cup {<<container, "snapshot">>}
           /\ ~ev.open \/ Match(container.id) = 0)
    BY <1>8 DEF PickSnapshot, Fail, Goto
  <2>2. ~ev.open \/ Match(container.id) = 0 => ~Intact(container)
    <3>1. container.driver = "overlayfs"
      BY <1>8 DEF PickSnapshot, WalkInv
    <3>2. Exact(container.id) # {} => Match(container.id) # 0
      BY MatchIsOwn DEF Exact
    <3>3. QED
      BY <3>1, <3>2 DEF Intact
  <2>3. QED
    BY <1>5, <2>1, <2>2
<1>9. CASE FollowParent
  <2>1. \/ UNCHANGED <<ev, failed>>
        \/ /\ UNCHANGED ev /\ failed' = failed \cup {<<container, "chain">>}
           /\ pc = "walk" /\ bucket # 0 /\ bucket \notin Readable \ visited
    BY <1>9 DEF FollowParent, Fail, Goto
  <2>2. ASSUME pc = "walk", bucket # 0, bucket \notin Readable \ visited
        PROVE  ~Intact(container)
    BY <2>2, ChainFails
  <2>3. QED
    BY <1>5, <2>1, <2>2
<1>10. CASE MountLayers
  <2>1. UNCHANGED <<ev, failed>> \/
          (UNCHANGED ev /\ failed' = failed \cup {<<container, "mount">>})
    BY <1>10 DEF MountLayers, Fail, Goto
  <2>2. QED
    BY <1>5, <2>1
<1>11. CASE ScanLayer
  <2>1. UNCHANGED <<ev, failed>> \/
          (UNCHANGED ev /\ failed' = failed \cup {<<container, "scan">>})
    BY <1>11 DEF ScanLayer, Fail, Goto
  <2>2. QED
    BY <1>5, <2>1
<1>12. CASE UNCHANGED vars
  BY <1>2, <1>12 DEF vars
<1>13. QED
  BY <1>3, <1>4, <1>6, <1>7, <1>8, <1>9, <1>10, <1>11, <1>12
     DEF Next, Step, Done

\* The five parts together.
LEMMA InitInv == Init => IInv
<1> SUFFICES ASSUME Init PROVE IInv
  OBVIOUS
<1>1. <<>> \in Seq(ToSet(<<>>)) /\ ToSet(<<>>) = {}
  BY NothingIn
<1>2. LoopInv
  BY <1>1 DEF Init, LoopInv, Busy
<1>3. ServedInv
  BY <1>1 DEF Init, ServedInv
<1>4. WalkInv
  <2>1. <<>> \in Seq(Layer)
    OBVIOUS
  <2>2. QED
    BY <2>1 DEF Init, WalkInv
<1>5. LayersAreOwn /\ IntactIsFound
  BY <1>1 DEF Init, LayersAreOwn, IntactIsFound
<1>6. QED
  BY <1>2, <1>3, <1>4, <1>5 DEF IInv

LEMMA Invariant == Spec => []IInv
<1>1. IInv /\ [Next]_vars => IInv'
  BY LoopStep, ServedStep, WalkStep, LayersStep, IntactStep DEF IInv
<1>2. QED
  BY InitInv, <1>1, PTL DEF Spec

\* Every state of every run is of its type.
THEOREM TypeCorrect == Spec => []TypeOK
<1>1. IInv => TypeOK
  <2> SUFFICES ASSUME IInv PROVE TypeOK
    OBVIOUS
  <2>1. ToSet(lowerPaths) \subseteq Layer
    BY ElementsOf DEF IInv, WalkInv
  <2>2. QED
    BY <2>1 DEF IInv, LoopInv, ServedInv, WalkInv, TypeOK, Containers, Busy
<1>2. QED
  BY Invariant, <1>1, PTL

\* What mount and drift take for the layers of a container are its own, for
\* both drivers, whatever snapshots the evidence has (docker.go:421-650).
THEOREM LayersMatch == Spec => []LayersAreOwn
<1>1. IInv => LayersAreOwn
  BY DEF IInv
<1>2. QED
  BY Invariant, <1>1, PTL

\* mount --all and drift leave no selected container out, however many there
\* are and however many of them fail (docker.go:671-727, 752-870).
THEOREM Served == Spec => []EachIsServed
<1>1. IInv => EachIsServed
  <2> SUFFICES ASSUME IInv, command.kind \in {"all", "drift"}, result = "ok",
                      NEW c \in Containers, Wanted(c)
               PROVE  Handled(c)
    BY DEF EachIsServed, Handled, Containers
  <2>1. pc = "end" /\ todo = <<>>
    BY DEF IInv, LoopInv
  <2>2. ToSet(todo) = {} /\ pc \notin Busy
    BY <2>1, NothingIn DEF Busy
  <2>3. QED
    BY <2>1, <2>2 DEF IInv, ServedInv
<1>2. QED
  BY Invariant, <1>1, PTL

\* A container whose files or chain of snapshots is intact is never lost by
\* the search: a cycle is reported only where there is one (docker.go:505-611).
THEOREM IntactFound == Spec => []IntactIsFound
<1>1. IInv => IntactIsFound
  BY DEF IInv
<1>2. QED
  BY Invariant, <1>1, PTL
=============================================================================
