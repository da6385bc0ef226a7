------------------------ MODULE ContainerdMount_proof ------------------------
(***************************************************************************)
(* The containerd explorer, for all evidence and every command: an incom-  *)
(* plete record is completed where it can be, success accounts for every   *)
(* container, and where nothing can be taken for something else each mount *)
(* and each scan is of the container's own layers.                         *)
(***************************************************************************)
EXTENDS ContainerdMount, SequenceLemmas

Records == ToSet(ev.records)
Busy == pc \in {"lookup", "open", "walk", "mount", "unsupported"}
Known == pc \in {"open", "walk", "mount", "unsupported"}
Opened == pc \in {"walk", "mount", "unsupported"}

\* Where the command is, and what the call under way has found out.
CallInv ==
  /\ ev \in Evidence /\ command \in Commands[ev]
  /\ pc \in {"list", "next", "lookup", "open", "walk", "mount", "unsupported"}
  /\ result \in {"running", "ok", "error"} /\ closed \in BOOLEAN
  /\ result # "running" => pc = "next" /\ todo = <<>>
  /\ todo \in Seq(Records) /\ (pc = "list" => todo = <<>>)
  /\ want \in Records \cup {<<>>} /\ (Busy => want \in Records)
  /\ rec \in Records \cup {<<>>}
  /\ Known => /\ rec \in Records /\ rec.id = want.id
              /\ command.kind = "drift" => rec = want
              /\ snapshotter = Resolve(rec)[1]
  /\ pc = "open" => key = Resolve(rec)[2] /\ names = <<>>

\* The database that is open.
FileInv ==
  /\ handles \in Nat /\ snapshotFile \in 0..Len(ev.dirs)
  /\ Opened => snapshotFile # 0
  /\ pc = "unsupported" =>
       snapshotter # "native" /\ ~ev.dirs[snapshotFile].work
  /\ command.kind \in {"all", "drift", "mount"} =>
       /\ pc \in {"lookup", "open"} => snapshotFile = 0
       /\ Opened => snapshotFile = SnapshotRoot(snapshotter)
  /\ command.kind = "mount" =>
       /\ todo = <<>> \/ Tail(todo) = <<>>
       /\ Busy => todo = <<>>
       /\ pc = "list" \/ todo # <<>> => snapshotFile = 0
  /\ command.kind \in {"mount", "export"} =>
       /\ ToSet(todo) \subseteq ToSet(command.calls)
       /\ Busy => want \in ToSet(command.calls)
       /\ NothingMixed /\ snapshotFile # 0 =>
            \E r \in ToSet(command.calls) :
              snapshotFile = SnapshotRoot(Resolve(r)[1])

\* The names collected are those of the snapshot and of its ancestors.
WalkInv ==
  LET own == <<rec.ns, snapshotter, Resolve(rec)[2]>>
      line == Line(ev, own)
  IN  /\ names \in Seq(ToSet(names)) /\ Len(names) <= MaxChain
      /\ pc \in {"walk", "mount"} =>
           /\ names = <<>> => pc = "walk" /\ key = Resolve(rec)[2]
           /\ names # <<>> => own \in DOMAIN ev.meta
           /\ \A i \in 1..Len(names) :
                /\ names[i] = ev.meta[line[i - 1]].name
                /\ line[i - 1] = <<rec.ns, snapshotter, line[i - 1][3]>>
                /\ line[i - 1] \in DOMAIN ev.meta
                /\ i < Len(names) => ev.meta[line[i - 1]].parent # ""
                /\ i = Len(names) => 
                     /\ pc = "walk" => /\ ev.meta[line[i - 1]].parent = key
                                       /\ key # ""
                     /\ pc = "mount" => ev.meta[line[i - 1]].parent = ""

\* What has been mounted, scanned, skipped and failed.
DoneInv ==
  /\ mounts \in Seq(ToSet(mounts)) /\ scans \in Seq(ToSet(scans))
  /\ \A m \in ToSet(mounts) \cup ToSet(scans) : m[1] \in Records
  /\ failed \cup skipped \subseteq Records

\* Of mount and mount --all: a call is still to make, under way, skipped or
\* made, unless there is nothing to make it with, and a skipped one is none
\* of the others.
MountInv ==
  command.kind \in {"mount", "all"} =>
    /\ command.kind = "mount" => skipped = {} 
    /\ pc = "list" => mounts = <<>> /\ skipped = {} /\ failed = {}
    /\ IsInjective(todo)
    /\ result # "error" => failed = {}
    /\ pc # "list" /\ result # "error" =>
         /\ \A r \in ToSet(Calls(ev, command)) :
              \/ r \in ToSet(todo) \/ (Busy /\ r = want)
              \/ r \in skipped \/ WasMounted(r) \/ HasNoMount(r)
         /\ \A r \in Records :
              \/ r \in ToSet(todo) \/ (Busy /\ r = want) \/ WasMounted(r)
              => r \in ToSet(Calls(ev, command)) /\ r \notin skipped
         /\ \A r \in Records :
              r \in ToSet(todo) \/ (Busy /\ r = want) => ~WasMounted(r)
         /\ Busy => want \notin ToSet(todo)

\* Of drift: a container that can be scanned is still to do, under way,
\* failed or scanned.
Scannable(r) ==
  Resolve(r)[1] # "native" /\ ~Unsupported(Resolve(r)[1])

DriftInv ==
  command.kind = "drift" /\ pc # "list" /\ result # "error" =>
    \A r \in ToSet(Calls(ev, command)) : Scannable(r) =>
      \/ r \in ToSet(todo) \/ (Busy /\ r = want)
      \/ r \in failed \/ WasScanned(r)

IInv == /\ CallInv /\ FileInv /\ WalkInv /\ DoneInv /\ MountInv /\ DriftInv
        /\ LayersAreOwnUnmixed

-----------------------------------------------------------------------------
\* The model's operators

LEMMA EvidenceIs ==
  ASSUME ev \in Evidence
  PROVE  /\ ev.records \in Seq(Records) /\ IsInjective(ev.records)
         /\ \A r \in Records : r.id # ""
         /\ ev.buckets \in Seq(ToSet(ev.buckets))
         /\ ev.keys \in Seq(ToSet(ev.keys)) /\ "" \notin ToSet(ev.keys)
         /\ ev.dirs \in Seq(ToSet(ev.dirs))
  BY EvidenceAssumption DEF Records

LEMMA CommandIs ==
  ASSUME ev \in Evidence, command \in Commands[ev]
  PROVE  /\ command.kind \in {"all", "mount", "export", "drift"}
         /\ command.calls \in Seq(Records)
         /\ command.kind = "mount" => Len(command.calls) = 1
  BY EvidenceAssumption DEF Records

\* The calls of a command are for records; each is made once, but export
\* makes them as often as it is told to.
LEMMA CallsAre ==
  ASSUME ev \in Evidence, command \in Commands[ev]
  PROVE  /\ Calls(ev, command) \in Seq(Records)
         /\ command.kind \in {"all", "drift", "mount"} =>
              IsInjective(Calls(ev, command))
         /\ command.kind \in {"mount", "export"} =>
              Calls(ev, command) = command.calls
<1> DEFINE wanted == {r \in ToSet(ev.records) :
                        Selected(r) /\ (command.calls # <<>> =>
                                          r.id = command.calls[1].id)}
<1>1. CASE command.kind \in {"all", "drift"}
  <2>1. Calls(ev, command) = Only(ev.records, wanted)
    BY <1>1 DEF Calls
  <2>2. /\ Only(ev.records, wanted) \in Seq(Records)
        /\ IsInjective(Only(ev.records, wanted))
    <3> HIDE DEF wanted
    <3> QED
      BY EvidenceIs, TakenIs, SelectedOnce
  <2>3. QED
    BY <1>1, <2>1, <2>2
<1>2. CASE command.kind \notin {"all", "drift"}
  <2>1. Calls(ev, command) = command.calls /\ command.calls \in Seq(Records)
    BY <1>2, CommandIs DEF Calls
  <2>2. command.kind = "mount" => IsInjective(command.calls)
    <3>1. Len(command.calls) = 1 =>
            \A i, j \in DOMAIN command.calls : i = j
      BY <2>1, LenProperties
    <3>2. QED
      BY <3>1, CommandIs DEF IsInjective
  <2>3. QED
    BY <1>2, <2>1, <2>2
<1>3. QED
  BY <1>1, <1>2

\* The directory of a snapshotter is one of the directories.
LEMMA RootIs ==
  ASSUME ev \in Evidence, NEW s
  PROVE  SnapshotRoot(s) \in 0..Len(ev.dirs)
<1> DEFINE holding == {d \in ToSet(ev.dirs) : s \in d.holds}
           i == First(ev.dirs, holding)
<1>1. i \in 0..Len(ev.dirs) /\ 0 \in 0..Len(ev.dirs)
  <2> HIDE DEF holding
  <2>1. i \in 0..Len(ev.dirs)
    BY EvidenceIs, FirstIs
  <2>2. Len(ev.dirs) \in Nat
    BY EvidenceIs, LenProperties
  <2> HIDE DEF i
  <2>3. QED
    BY <2>1, <2>2
<1>2. SnapshotRoot(s) = IF i # 0 /\ ev.dirs[i].db THEN i ELSE 0
  BY DEF SnapshotRoot
<1>3. QED
  BY <1>1, <1>2

\* What a step leaves alone when it leaves the evidence alone.
LEMMA Static ==
  ASSUME UNCHANGED <<ev, command>>
  PROVE  /\ Records' = Records
         /\ \A r : Resolve(r)' = Resolve(r)
         /\ \A s : SnapshotRoot(s)' = SnapshotRoot(s)
         /\ \A r : HasNoMount(r)' = HasNoMount(r)
         /\ \A r : Scannable(r)' = Scannable(r)
         /\ \A r : OwnLayers(r)' = OwnLayers(r)
         /\ NothingMixed' = NothingMixed
<1>1. \A s, r : KeyIn(s, r)' = KeyIn(s, r)
  BY DEF KeyIn, Has
<1>2. \A r : Resolve(r)' = Resolve(r)
  BY <1>1, ZenonT(40) DEF Resolve
<1>3. \A s : SnapshotRoot(s)' = SnapshotRoot(s)
  BY DEF SnapshotRoot
<1>4. \A i, j, k : Layer(i, j, k)' = Layer(i, j, k)
  BY DEF Layer
<1>5. \A r : OwnLayers(r)' = OwnLayers(r)
  BY <1>2, <1>4 DEF OwnLayers
<1>6. NothingMixed' = NothingMixed
  <2>1. \A s : OwnDirectory(s)' = OwnDirectory(s)
    BY <1>3 DEF OwnDirectory
  <2>2. \A r : NoLink(r)' = NoLink(r)
    BY <1>2, <1>3 DEF NoLink
  <2>3. QED
    BY <1>2, <2>1, <2>2 DEF NothingMixed
<1>7. /\ \A r : HasNoMount(r)' = HasNoMount(r)
      /\ \A r : Scannable(r)' = Scannable(r)
  <2>1. \A s : Unsupported(s)' = Unsupported(s)
    BY <1>3 DEF Unsupported
  <2>2. QED
    BY <1>2, <2>1 DEF HasNoMount, Scannable
<1>8. QED
  BY <1>2, <1>3, <1>5, <1>6, <1>7 DEF Records

\* A key that is taken is there, and is what the record says or is named for
\* the container; one is taken if there is one.
Fits(r, s, k) ==
  /\ Has(s, k, r.ns)
  /\ \/ r.key = k
     \/ r.key = "" /\ (k = r.id \/ <<k, r.id>> \in ev.mentions)

LEMMA KeyIs ==
  ASSUME ev \in Evidence, NEW r \in Records, NEW s
  PROVE  /\ KeyIn(s, r) # "" => Fits(r, s, KeyIn(s, r))
         /\ \A k \in ToSet(ev.keys) : Fits(r, s, k) => KeyIn(s, r) # ""
<1> DEFINE named == {m \in ToSet(ev.keys) :
                       Has(s, m, r.ns) /\ <<m, r.id>> \in ev.mentions}
           i == First(ev.keys, named)
<1>1. /\ i = 0 <=> ToSet(ev.keys) \cap named = {}
      /\ i # 0 => ev.keys[i] \in named /\ ev.keys[i] \in ToSet(ev.keys)
  <2> HIDE DEF named
  <2> QED
    BY EvidenceIs, FirstIs
<1>2. KeyIn(s, r) = IF Has(s, IF r.key # "" THEN r.key ELSE r.id, r.ns)
                    THEN IF r.key # "" THEN r.key ELSE r.id
                    ELSE IF r.key # "" \/ i = 0 THEN "" ELSE ev.keys[i]
  BY DEF KeyIn
<1>3. r.id # "" /\ "" \notin ToSet(ev.keys)
  BY EvidenceIs
<1> HIDE DEF i
<1>4. QED
  BY <1>1, <1>2, <1>3 DEF Fits

\* A record that lacks something is completed with a candidate, if any.
LEMMA ResolvesToCandidate ==
  ASSUME ev \in Evidence, NEW r \in Records, r.snapshotter = "" \/ r.key = "",
         NEW s \in ToSet(ev.buckets), NEW k \in ToSet(ev.keys),
         Candidate(r, s, k)
  PROVE  Candidate(r, Resolve(r)[1], Resolve(r)[2])
<1> DEFINE fitting == {b \in ToSet(ev.buckets) :
                         r.snapshotter \in {"", b} /\ KeyIn(b, r) # ""}
           i == First(ev.buckets, fitting)
<1>1. s \in fitting
  BY KeyIs DEF Candidate, Fits
<1>2. i # 0 /\ ev.buckets[i] \in fitting
  <2> HIDE DEF fitting
  <2> QED
    BY <1>1, EvidenceIs, FirstIs, ZenonT(40)
<1> DEFINE b == ev.buckets[i]
           m == KeyIn(b, r)
<1>3. Resolve(r)[1] = b /\ Resolve(r)[2] = m
  BY <1>2 DEF Resolve
<1>4. Fits(r, b, m) /\ r.snapshotter \in {"", b}
  BY <1>2, KeyIs
<1> HIDE DEF b, m
<1>5. Candidate(r, b, m)
  BY <1>4 DEF Candidate, Fits
<1>6. QED
  BY <1>3, <1>5

\* The line of a snapshot goes from parent to parent as long as there are.
LEMMA LineIs ==
  ASSUME NEW d \in DOMAIN ev.meta, NEW n \in Nat
  PROVE  /\ Line(ev, d)[0] = d
         /\ Line(ev, d)[n] \in DOMAIN ev.meta
         /\ LET x == Line(ev, d)[n]
                up == <<x[1], x[2], ev.meta[x].parent>>
            IN  up \in DOMAIN ev.meta => Line(ev, d)[n + 1] = up
<1> DEFINE D == DOMAIN ev.meta
           parent == Parent(ev)
           line == Line(ev, d)
<1>1. parent \in Maps(D)
  BY DEF Parent, Maps
<1>2. line = Iterate(Nat, d, parent)
  BY DEF Line, Iterate
<1>3. IsIterate(line, Nat, D, d, parent)
  <2>1. Initial(Nat)
    BY DEF Initial
  <2> DEFINE N == Nat
  <2> HIDE DEF D, parent, line, N
  <2>2. IsIterate(Iterate(N, d, parent), N, D, d, parent)
    BY <1>1, <2>1, Iteration DEF N, D
  <2>3. QED
    BY <1>2, <2>2 DEF N
<1> HIDE DEF line
<1>4. line[0] = d /\ line[n] \in D /\ line[n + 1] = parent[line[n]]
  BY <1>3 DEF IsIterate
<1>5. QED
  BY <1>4 DEF Parent, line

-----------------------------------------------------------------------------
\* Where the command is

\* An error ends the command, or this call of it.
LEMMA Failing ==
  ASSUME Fail
  PROVE  /\ pc' = "next" /\ failed' = failed \cup {want}
         /\ \/ /\ command.kind \in {"export", "drift"}
               /\ todo' = todo /\ result' = result
            \/ /\ command.kind \notin {"export", "drift"}
               /\ todo' = <<>> /\ result' = "error"
  BY DEF Fail

\* The record that is looked up is one with the ID.
LEMMA FoundIs ==
  ASSUME ev \in Evidence, want \in Records, LookUp, pc' = "open"
  PROVE  /\ rec' \in Records /\ rec'.id = want.id
         /\ command.kind = "drift" => rec' = want
         /\ snapshotter' = Resolve(rec')[1] /\ key' = Resolve(rec')[2]
<1>1. PICK found \in IF command.kind = "drift" THEN {want}
                      ELSE {r \in ToSet(ev.records) : r.id = want.id} :
        /\ rec' = found
        /\ snapshotter' = Resolve(found)[1] /\ key' = Resolve(found)[2]
  BY Failing DEF LookUp
<1>2. /\ found \in Records /\ found.id = want.id
      /\ command.kind = "drift" => found = want
  BY <1>1 DEF Records
<1>3. QED
  BY <1>1, <1>2

LEMMA CallInit ==
  ASSUME Init PROVE CallInv
<1>1. <<>> \in Seq(Records)
  OBVIOUS
<1>2. QED
  BY <1>1 DEF Init, CallInv, Busy, Known

LEMMA CallStep ==
  ASSUME CallInv, [Next]_vars
  PROVE  CallInv'
<1> USE DEF CallInv, Busy, Known
<1>1. UNCHANGED <<ev, command>>
  BY DEF Next, Step, Done, vars, locals, List, NextContainer, Finish, LookUp,
         OpenDatabase, FollowParent, MountLayers, ScanLayer, UseNothing, Close
<1>2. Records' = Records /\ \A r : Resolve(r)' = Resolve(r)
  BY <1>1, Static
<1>3. <<>> \in Seq(Records)
  OBVIOUS
<1>4. CASE List
  <2>1. Calls(ev, command) \in Seq(Records)
    BY CallsAre
  <2>2. QED
    BY <1>1, <1>2, <1>4, <2>1 DEF List, locals
<1>5. CASE NextContainer
  <2>1. Head(todo) \in Records /\ Tail(todo) \in Seq(Records)
    BY <1>5, HeadAndTail DEF NextContainer
  <2>2. QED
    BY <1>1, <1>2, <1>5, <2>1 DEF NextContainer
<1>6. CASE Finish
  BY <1>1, <1>2, <1>6 DEF Finish, locals
<1>7. CASE LookUp
  <2>1. want' = want /\ closed' = closed /\ names' = <<>> /\ want \in Records
    BY <1>7 DEF LookUp
  <2>2. CASE pc' = "open"
    <3>1. /\ rec' \in Records /\ rec'.id = want.id
          /\ command.kind = "drift" => rec' = want
          /\ snapshotter' = Resolve(rec')[1] /\ key' = Resolve(rec')[2]
      BY <1>7, <2>1, <2>2, FoundIs
    <3>2. todo' = todo /\ result' = result
      BY <1>7, <2>2, Failing DEF LookUp, Continue
    <3>3. result = "running"
      BY <1>7 DEF LookUp
    <3>4. QED
      BY <1>1, <1>2, <2>1, <2>2, <3>1, <3>2, <3>3
  <2>3. CASE pc' # "open"
    <3>1. Fail /\ UNCHANGED rec
      BY <1>7, <2>3 DEF LookUp, Continue
    <3>2. result = "running"
      BY <1>7 DEF LookUp
    <3>3. QED
      BY <1>1, <1>2, <1>3, <2>1, <3>1, <3>2, Failing
  <2>4. QED
    BY <2>2, <2>3
<1>8. CASE OpenDatabase
  <2>1. UNCHANGED <<want, rec, snapshotter, key, names, closed>>
        /\ pc = "open"
    BY <1>8 DEF OpenDatabase, locals
  <2>2. CASE Fail
    BY <1>1, <1>2, <1>3, <2>1, <2>2, Failing
  <2>3. CASE ~Fail
    <3>1. pc' \in {"walk", "unsupported"} /\ UNCHANGED <<todo, result>>
      BY <1>8, <2>3 DEF OpenDatabase, Continue
    <3>2. QED
      BY <1>1, <1>2, <2>1, <3>1
  <2>4. QED
    BY <2>2, <2>3
<1>9. CASE FollowParent
  <2>1. UNCHANGED <<want, rec, snapshotter, closed>> /\ pc = "walk"
    BY <1>9 DEF FollowParent
  <2>2. CASE Fail
    BY <1>1, <1>2, <1>3, <2>1, <2>2, Failing
  <2>3. CASE ~Fail
    <3>1. pc' \in {"walk", "mount"} /\ UNCHANGED <<todo, result>>
      BY <1>9, <2>3 DEF FollowParent, Continue
    <3>2. QED
      BY <1>1, <1>2, <2>1, <3>1
  <2>4. QED
    BY <2>2, <2>3
<1>10. CASE MountLayers \/ ScanLayer \/ UseNothing
  <2>1. UNCHANGED <<want, rec, snapshotter, key, names, closed>>
        /\ pc \in {"mount", "unsupported"} /\ (Fail \/ Succeed)
    BY <1>10 DEF MountLayers, ScanLayer, UseNothing, locals
  <2>2. CASE Fail
    BY <1>1, <1>2, <1>3, <2>1, <2>2, Failing
  <2>3. CASE Succeed
    BY <1>1, <1>2, <2>1, <2>3 DEF Succeed
  <2>4. QED
    BY <2>1, <2>2, <2>3
<1>11. CASE Close
  BY <1>1, <1>2, <1>11 DEF Close, locals
<1>12. CASE UNCHANGED vars
  BY <1>1, <1>2, <1>12 DEF Done, vars, locals
<1>13. QED
  BY <1>4, <1>5, <1>6, <1>7, <1>8, <1>9, <1>10, <1>11, <1>12
     DEF Next, Step, Done

-----------------------------------------------------------------------------
\* What has been done

\* What was done for a record is added to what was done for records.
LEMMA Grown ==
  ASSUME NEW s, s \in Seq(ToSet(s)), NEW S, NEW w \in S, NEW l,
         \A m \in ToSet(s) : m[1] \in S
  PROVE  LET t == Append(s, <<w, l>>)
         IN  /\ t \in Seq(ToSet(t)) /\ ToSet(t) = ToSet(s) \cup {<<w, l>>}
             /\ \A m \in ToSet(t) : m[1] \in S
<1> DEFINE e == <<w, l>>
<1>1. e[1] \in S
  OBVIOUS
<1> HIDE DEF e
<1>2. /\ Append(s, e) \in Seq(ToSet(Append(s, e)))
      /\ ToSet(Append(s, e)) = ToSet(s) \cup {e}
  BY Appended
<1>3. QED
  BY <1>1, <1>2 DEF e

LEMMA DoneInit ==
  ASSUME Init PROVE DoneInv
  BY NothingIn DEF Init, DoneInv

LEMMA DoneStep ==
  ASSUME CallInv, DoneInv, [Next]_vars
  PROVE  DoneInv'
<1>1. UNCHANGED <<ev, command>> /\ Records' = Records
  BY Static
     DEF Next, Step, Done, vars, locals, List, NextContainer, Finish, LookUp,
         OpenDatabase, FollowParent, MountLayers, ScanLayer, UseNothing, Close
<1>2. failed' \subseteq Records
  <2>1. failed' = failed \/ (Fail /\ Busy)
    BY DEF Next, Step, Done, vars, List, NextContainer, Finish, LookUp, Busy,
           OpenDatabase, FollowParent, MountLayers, ScanLayer, UseNothing,
           Close, Continue, Succeed
  <2>2. QED
    BY <2>1, Failing DEF DoneInv, CallInv
<1>3. skipped' \subseteq Records
  <2>1. \/ skipped' = skipped
        \/ NextContainer /\ skipped' = skipped \cup {Head(todo)}
    BY DEF Next, Step, Done, vars, List, NextContainer, Finish, LookUp,
           OpenDatabase, FollowParent, MountLayers, ScanLayer, UseNothing,
           Close
  <2>2. NextContainer => Head(todo) \in Records
    BY HeadAndTail DEF NextContainer, CallInv
  <2>3. QED
    BY <2>1, <2>2 DEF DoneInv
<1>4. /\ mounts' \in Seq(ToSet(mounts'))
      /\ \A m \in ToSet(mounts') : m[1] \in Records
  <2>1. \/ mounts' = mounts
        \/ Busy /\ \E l : mounts' = Append(mounts, <<want, l>>)
    BY DEF Next, Step, Done, vars, List, NextContainer, Finish, LookUp, Busy,
           OpenDatabase, FollowParent, MountLayers, ScanLayer, UseNothing,
           Close
  <2>2. CASE mounts' = mounts
    BY <2>2 DEF DoneInv
  <2>3. CASE Busy /\ \E l : mounts' = Append(mounts, <<want, l>>)
    <3>1. PICK l : mounts' = Append(mounts, <<want, l>>)
      BY <2>3
    <3>2. want \in Records
      BY <2>3 DEF CallInv
    <3>3. QED
      BY <3>1, <3>2, Grown DEF DoneInv
  <2>4. QED
    BY <2>1, <2>2, <2>3
<1>5. /\ scans' \in Seq(ToSet(scans'))
      /\ \A m \in ToSet(scans') : m[1] \in Records
  <2>1. \/ scans' = scans
        \/ Busy /\ \E l : scans' = Append(scans, <<want, l>>)
    BY DEF Next, Step, Done, vars, List, NextContainer, Finish, LookUp, Busy,
           OpenDatabase, FollowParent, MountLayers, ScanLayer, UseNothing,
           Close
  <2>2. CASE scans' = scans
    BY <2>2 DEF DoneInv
  <2>3. CASE Busy /\ \E l : scans' = Append(scans, <<want, l>>)
    <3>1. PICK l : scans' = Append(scans, <<want, l>>)
      BY <2>3
    <3>2. want \in Records
      BY <2>3 DEF CallInv
    <3>3. QED
      BY <3>1, <3>2, Grown DEF DoneInv
  <2>4. QED
    BY <2>1, <2>2, <2>3
<1>6. QED
  BY <1>1, <1>2, <1>3, <1>4, <1>5 DEF DoneInv

-----------------------------------------------------------------------------
\* The database that is open

\* A record is the one asked for when there is one of each ID.
LEMMA OwnRecord ==
  ASSUME CallInv, NothingMixed, Known
  PROVE  rec = want /\ want \in Records
  BY DEF CallInv, NothingMixed, Known, Busy, Records

LEMMA FileInit ==
  ASSUME Init PROVE FileInv
<1>1. Len(ev.dirs) \in Nat
  BY EvidenceIs, LenProperties DEF Init
<1>2. ToSet(<<>>) \subseteq ToSet(command.calls)
  BY NothingIn
<1>3. pc = "list" /\ todo = <<>> /\ snapshotFile = 0 /\ handles = 0
  BY DEF Init
<1>4. 0 \in 0..Len(ev.dirs) /\ 0 \in Nat
  BY <1>1
<1>5. QED
  BY <1>2, <1>3, <1>4 DEF FileInv, Opened, Busy

LEMMA FileStep ==
  ASSUME CallInv, FileInv, [Next]_vars
  PROVE  FileInv'
<1> USE DEF FileInv, Busy, Opened
<1>1. UNCHANGED <<ev, command>>
  BY DEF Next, Step, Done, vars, locals, List, NextContainer, Finish, LookUp,
         OpenDatabase, FollowParent, MountLayers, ScanLayer, UseNothing, Close
<1>2. /\ \A r : Resolve(r)' = Resolve(r)
      /\ \A s : SnapshotRoot(s)' = SnapshotRoot(s)
      /\ NothingMixed' = NothingMixed
  BY <1>1, Static
<1>3. ToSet(<<>>) \subseteq ToSet(command.calls)
  BY NothingIn
<1>4. CASE List
  <2>1. command.kind \in {"mount", "export"} =>
          Calls(ev, command) = command.calls
    BY CallsAre DEF CallInv
  <2>2. UNCHANGED <<snapshotFile, handles, snapshotter>> /\ pc' = "next"
        /\ pc = "list"
        /\ (todo' = Calls(ev, command) \/ command.kind \in {"all", "drift"})
    BY <1>4 DEF List, locals
  <2>3. command.kind = "mount" => Tail(command.calls) = <<>>
    <3>1. command.calls \in Seq(Records)
          /\ (command.kind = "mount" => Len(command.calls) = 1)
      BY CommandIs DEF CallInv
    <3> DEFINE calls == command.calls
    <3> HIDE DEF calls
    <3>2. ASSUME calls \in Seq(Records), Len(calls) = 1
          PROVE  Tail(calls) = <<>>
      <4>1. calls # <<>>
        BY <3>2, EmptySeq
      <4>2. Tail(calls) \in Seq(Records) /\ Len(Tail(calls)) = Len(calls) - 1
        BY <3>2, <4>1, HeadTailProperties
      <4> DEFINE rest == Tail(calls)
      <4> HIDE DEF rest
      <4>3. rest \in Seq(Records) /\ Len(rest) = 0 => rest = <<>>
        BY EmptySeq
      <4>4. Len(calls) - 1 = 0
        BY <3>2
      <4>5. QED
        BY <4>2, <4>3, <4>4 DEF rest
    <3>3. QED
      BY <3>1, <3>2 DEF calls
  <2>4. QED
    BY <1>1, <1>2, <2>1, <2>2, <2>3
<1>5. CASE NextContainer
  <2>1. Head(todo) \in ToSet(todo) /\ ToSet(Tail(todo)) \subseteq ToSet(todo)
    BY <1>5, HeadAndTail DEF NextContainer, CallInv
  <2>2. 0 \in 0..Len(ev.dirs)
    OBVIOUS
  <2>3. command.kind = "mount" => todo' = <<>> /\ pc' = "lookup"
    BY <1>5 DEF NextContainer
  <2>4. QED
    BY <1>1, <1>2, <1>5, <2>1, <2>2, <2>3 DEF NextContainer
<1>6. CASE Finish \/ Close \/ UNCHANGED vars
  BY <1>1, <1>2, <1>6 DEF Finish, Close, Done, vars, locals
<1>7. CASE LookUp
  <2>1. UNCHANGED <<want, snapshotFile, handles>> /\ pc = "lookup"
        /\ (Fail \/ Continue("open"))
    BY <1>7 DEF LookUp
  <2>2. QED
    BY <1>1, <1>2, <1>3, <2>1, Failing DEF Continue
<1>8. CASE OpenDatabase
  <2>1. /\ UNCHANGED <<want, snapshotter>> /\ pc = "open"
        /\ snapshotFile' = IF snapshotFile = 0 THEN SnapshotRoot(snapshotter)
                                               ELSE snapshotFile
    BY <1>8 DEF OpenDatabase, locals
  <2>2. snapshotFile' \in 0..Len(ev.dirs)
    BY <2>1, RootIs DEF CallInv
  <2>3. command.kind \in {"mount", "export"} =>
          (NothingMixed /\ snapshotFile' # 0 =>
             \E r \in ToSet(command.calls) :
               snapshotFile' = SnapshotRoot(Resolve(r)[1]))
    <3> SUFFICES ASSUME command.kind \in {"mount", "export"}, NothingMixed,
                        snapshotFile = 0
                 PROVE  \E r \in ToSet(command.calls) :
                          snapshotFile' = SnapshotRoot(Resolve(r)[1])
      BY <2>1
    <3>1. rec = want /\ snapshotter = Resolve(rec)[1]
      BY <2>1, OwnRecord DEF CallInv, Known
    <3>2. want \in ToSet(command.calls)
      BY <2>1
    <3>3. QED
      BY <2>1, <3>1, <3>2
  <2>4. CASE Fail
    <3>1. UNCHANGED handles
      BY <1>8, <2>1, <2>4 DEF OpenDatabase, Fail, Continue
    <3>2. QED
      BY <1>1, <1>2, <1>3, <2>1, <2>2, <2>3, <2>4, <3>1, Failing
  <2>5. CASE ~Fail
    <3>1. /\ snapshotFile' # 0 /\ handles' = handles + 1 /\ todo' = todo
          /\ \/ pc' = "walk"
             \/ /\ pc' = "unsupported" /\ snapshotter # "native"
                /\ ~ev.dirs[snapshotFile'].work
      BY <1>8, <2>5 DEF OpenDatabase, Continue
    <3>2. QED
      BY <1>1, <1>2, <2>1, <2>2, <2>3, <3>1
  <2>6. QED
    BY <2>4, <2>5
<1>9. CASE FollowParent
  <2>1. UNCHANGED <<want, snapshotter, snapshotFile, handles>> /\ pc = "walk"
        /\ (Fail \/ Continue("walk") \/ Continue("mount"))
    BY <1>9 DEF FollowParent
  <2>2. QED
    BY <1>1, <1>2, <1>3, <2>1, Failing DEF Continue
<1>10. CASE MountLayers \/ ScanLayer \/ UseNothing
  <2>1. UNCHANGED <<want, snapshotter, snapshotFile, handles>>
        /\ (Fail \/ Succeed)
    BY <1>10 DEF MountLayers, ScanLayer, UseNothing, locals
  <2>2. QED
    BY <1>1, <1>2, <1>3, <2>1, Failing DEF Succeed
<1>11. QED
  BY <1>4, <1>5, <1>6, <1>7, <1>8, <1>9, <1>10 DEF Next, Step, Done

-----------------------------------------------------------------------------
\* The walk

LEMMA WalkInit ==
  ASSUME Init PROVE WalkInv
<1>1. Len(<<>>) <= MaxChain /\ 1..Len(<<>>) = {}
  BY MaxChainAssumption
<1>2. pc = "list" /\ names = <<>>
  BY DEF Init
<1>3. QED
  BY <1>1, <1>2, NothingIn DEF WalkInv

\* One parent more.
LEMMA WalkFurther ==
  ASSUME CallInv, WalkInv, FollowParent, ~Fail
  PROVE  WalkInv'
<1> DEFINE own == <<rec.ns, snapshotter, Resolve(rec)[2]>>
           line == Line(ev, own)
           here == <<rec.ns, snapshotter, key>>
           n == Len(names)
           entry == ev.meta[here]
<1>1. /\ pc = "walk" /\ here \in DOMAIN ev.meta /\ n < MaxChain
      /\ names' = Append(names, entry.name)
      /\ \/ entry.parent = "" /\ pc' = "mount" /\ UNCHANGED key
         \/ entry.parent # "" /\ pc' = "walk" /\ key' = entry.parent
      /\ UNCHANGED <<ev, command, rec, snapshotter>>
  BY DEF FollowParent, Has, Continue
<1>2. /\ names \in Seq(ToSet(names))
      /\ names = <<>> => key = Resolve(rec)[2]
      /\ names # <<>> => own \in DOMAIN ev.meta
      /\ \A i \in 1..n :
           /\ names[i] = ev.meta[line[i - 1]].name
           /\ line[i - 1] = <<rec.ns, snapshotter, line[i - 1][3]>>
           /\ line[i - 1] \in DOMAIN ev.meta
           /\ i < n => ev.meta[line[i - 1]].parent # ""
           /\ i = n => ev.meta[line[i - 1]].parent = key /\ key # ""
  BY <1>1 DEF WalkInv
<1>3. n \in Nat /\ (names = <<>> <=> n = 0)
  BY <1>2, LenProperties, EmptySeq
<1>4. own \in DOMAIN ev.meta
  BY <1>1, <1>2
<1>5. line[n] = here
  <2>1. CASE n = 0
    <3>1. line[0] = own
      BY <1>4, LineIs
    <3>2. QED
      BY <1>2, <1>3, <2>1, <3>1
  <2>2. CASE n # 0
    <3> DEFINE m == n - 1
               x == line[m]
    <3>1. m \in Nat /\ m + 1 = n /\ n \in 1..n
      BY <1>3, <2>2
    <3>2. <<x[1], x[2], ev.meta[x].parent>> = here
      <4>1. x = <<rec.ns, snapshotter, x[3]>> /\ ev.meta[x].parent = key
        BY <1>2, <3>1
      <4> HIDE DEF x
      <4>2. x[1] = rec.ns /\ x[2] = snapshotter
        BY <4>1
      <4>3. QED
        BY <4>1, <4>2
    <3>3. line[m + 1] = here
      <4> HIDE DEF m, own
      <4> QED
        BY <1>1, <1>4, <3>1, <3>2, LineIs
    <3>4. QED
      BY <3>1, <3>3
  <2>3. QED
    BY <2>1, <2>2
<1> DEFINE more == Append(names, entry.name)
<1>6. /\ more \in Seq(ToSet(more)) /\ Len(more) = n + 1 /\ more # <<>>
      /\ \A i \in 1..n : more[i] = names[i]
      /\ more[n + 1] = entry.name
  <2>1. more \in Seq(ToSet(more))
    BY <1>2, Appended
  <2> DEFINE e == entry.name
  <2> HIDE DEF e
  <2>2. /\ Len(Append(names, e)) = n + 1 /\ Append(names, e) # <<>>
        /\ \A i \in 1..n : Append(names, e)[i] = names[i]
        /\ Append(names, e)[n + 1] = e
    BY <1>2, AppendedAt
  <2>3. QED
    BY <2>1, <2>2 DEF e
<1> HIDE DEF more
<1>7. ASSUME NEW i \in 1..(n + 1)
      PROVE  /\ more[i] = ev.meta[line[i - 1]].name
             /\ line[i - 1] = <<rec.ns, snapshotter, line[i - 1][3]>>
             /\ line[i - 1] \in DOMAIN ev.meta
             /\ i < n + 1 => ev.meta[line[i - 1]].parent # ""
             /\ i = n + 1 => ev.meta[line[i - 1]].parent = entry.parent
  <2> HIDE DEF line, n, here
  <2>1. CASE i = n + 1
    <3>1. i - 1 = n
      BY <1>3, <2>1
    <3>2. line[i - 1] = here
      BY <1>5, <3>1
    <3>3. here = <<rec.ns, snapshotter, here[3]>> /\ here \in DOMAIN ev.meta
      BY <1>1 DEF here
    <3>4. more[i] = ev.meta[here].name /\ ~(i < n + 1)
      BY <1>3, <1>6, <2>1
    <3>5. QED
      BY <3>2, <3>3, <3>4
  <2>2. CASE i # n + 1
    <3>1. i \in 1..n /\ (i < n \/ i = n)
      BY <1>3, <2>2
    <3>2. more[i] = names[i] /\ i # n + 1
      BY <1>6, <2>2, <3>1
    <3>3. ev.meta[line[i - 1]].parent # ""
      BY <1>2, <3>1
    <3>4. QED
      BY <1>2, <3>1, <3>2, <3>3
  <2>3. QED
    BY <2>1, <2>2
<1>8. \A r : Resolve(r)' = Resolve(r)
  BY <1>1, Static
<1>9. own' = own /\ line' = line /\ ev' = ev
  BY <1>1, <1>8
<1>10. Len(more) <= MaxChain
  <2>1. n \in Nat /\ n < MaxChain /\ Len(more) = n + 1
    BY <1>1, <1>3, <1>6
  <2> HIDE DEF n
  <2>2. QED
    BY <2>1, MaxChainAssumption
<1> HIDE DEF own, entry
<1>11. names' = more /\ own' \in DOMAIN ev'.meta
  BY <1>1, <1>4, <1>9 DEF more
<1>12. QED
  <2>1. names' \in Seq(ToSet(names')) /\ Len(names') <= MaxChain
        /\ names' # <<>>
    BY <1>6, <1>10, <1>11
  <2>2. \A i \in 1..Len(names') :
          /\ names'[i] = ev'.meta[line'[i - 1]].name
          /\ line'[i - 1] = <<rec'.ns, snapshotter', line'[i - 1][3]>>
          /\ line'[i - 1] \in DOMAIN ev'.meta
          /\ i < Len(names') => ev'.meta[line'[i - 1]].parent # ""
          /\ i = Len(names') =>
               /\ pc' = "walk" => /\ ev'.meta[line'[i - 1]].parent = key'
                                  /\ key' # ""
               /\ pc' = "mount" => ev'.meta[line'[i - 1]].parent = ""
    <3> HIDE DEF line
    <3>1. Len(names') = n + 1 /\ names' = more /\ line' = line /\ ev' = ev
          /\ rec' = rec /\ snapshotter' = snapshotter
      BY <1>1, <1>6, <1>9, <1>11
    <3>2. QED
      BY <1>1, <1>7, <3>1, ZenonT(40)
  <2>3. QED
    BY <2>1, <2>2, <1>11 DEF WalkInv, own

LEMMA WalkStep ==
  ASSUME CallInv, WalkInv, [Next]_vars
  PROVE  WalkInv'
<1>1. UNCHANGED <<ev, command>>
  BY DEF Next, Step, Done, vars, locals, List, NextContainer, Finish, LookUp,
         OpenDatabase, FollowParent, MountLayers, ScanLayer, UseNothing, Close
<1>2. /\ names \in Seq(ToSet(names)) /\ Len(names) <= MaxChain
      /\ <<>> \in Seq(ToSet(<<>>)) /\ Len(<<>>) <= MaxChain
      /\ 1..Len(<<>>) = {}
  <2>1. Len(<<>>) <= MaxChain /\ 1..Len(<<>>) = {}
    BY MaxChainAssumption
  <2>2. QED
    BY <2>1, NothingIn DEF WalkInv
<1>3. CASE List \/ NextContainer \/ Finish \/ MountLayers \/ ScanLayer
           \/ UseNothing \/ Close
  <2>1. names' = names /\ pc' \notin {"walk", "mount"}
    BY <1>3, Failing
       DEF List, NextContainer, Finish, MountLayers, ScanLayer, UseNothing,
           Close, Succeed, CallInv, locals
  <2>2. QED
    BY <1>2, <2>1 DEF WalkInv
<1>4. CASE LookUp
  <2>1. names' = <<>> /\ pc' \notin {"walk", "mount"}
    BY <1>4, Failing DEF LookUp, Continue
  <2>2. QED
    BY <1>2, <2>1 DEF WalkInv
<1>5. CASE OpenDatabase
  <2>1. UNCHANGED <<rec, snapshotter, key, names>> /\ pc = "open"
        /\ pc' # "mount"
    BY <1>5, Failing DEF OpenDatabase, Continue, locals
  <2>2. names = <<>> /\ key = Resolve(rec)[2]
    BY <2>1 DEF CallInv
  <2>3. names' = <<>> /\ key' = Resolve(rec)[2]'
    <3>1. Resolve(rec)' = Resolve(rec)
      BY <1>1, <2>1, Static
    <3>2. QED
      BY <2>1, <2>2, <3>1
  <2>4. QED
    BY <1>2, <2>1, <2>3 DEF WalkInv
<1>6. CASE FollowParent
  <2>1. CASE Fail
    <3>1. names' = names /\ pc' = "next"
      BY <1>6, <2>1, Failing DEF FollowParent, Continue
    <3>2. QED
      BY <1>2, <3>1 DEF WalkInv
  <2>2. CASE ~Fail
    BY <1>6, <2>2, WalkFurther
  <2>3. QED
    BY <2>1, <2>2
<1>7. CASE UNCHANGED vars
  <2>1. UNCHANGED <<ev, rec, snapshotter, key, names, pc>>
    BY <1>7 DEF Done, vars, locals
  <2>2. Resolve(rec)' = Resolve(rec)
    BY <1>1, <2>1, Static
  <2>3. QED
    BY <2>1, <2>2 DEF WalkInv
<1>8. QED
  BY <1>3, <1>4, <1>5, <1>6, <1>7 DEF Next, Step, Done

-----------------------------------------------------------------------------
\* What success accounts for

LEMMA AccountInit ==
  ASSUME Init PROVE MountInv /\ DriftInv
<1>1. IsInjective(<<>>)
  BY DEF IsInjective
<1>2. QED
  BY <1>1 DEF Init, MountInv, DriftInv

LEMMA MountStep ==
  ASSUME CallInv, FileInv, DoneInv, MountInv, [Next]_vars
  PROVE  MountInv'
<1> SUFFICES ASSUME command.kind \in {"mount", "all"}
             PROVE  MountInv'
  <2>1. UNCHANGED command
    BY DEF Next, Step, Done, vars, locals, List, NextContainer, Finish,
           LookUp, OpenDatabase, FollowParent, MountLayers, ScanLayer,
           UseNothing, Close
  <2>2. QED
    BY <2>1 DEF MountInv
<1> USE DEF MountInv, Busy, WasMounted
<1>1. UNCHANGED <<ev, command>>
  BY DEF Next, Step, Done, vars, locals, List, NextContainer, Finish, LookUp,
         OpenDatabase, FollowParent, MountLayers, ScanLayer, UseNothing, Close
<1>2. /\ Records' = Records /\ Calls(ev, command)' = Calls(ev, command)
      /\ \A r : HasNoMount(r)' = HasNoMount(r)
  BY <1>1, Static DEF Calls, Selected
<1>3. IsInjective(<<>>) /\ ToSet(<<>>) = {}
  BY NothingIn DEF IsInjective
<1>4. CASE List
  <2>1. /\ IsInjective(Calls(ev, command))
        /\ Calls(ev, command) \in Seq(Records)
    BY CallsAre DEF CallInv
  <2>2. UNCHANGED <<mounts, skipped, failed>> /\ pc' = "next" /\ pc = "list"
        /\ \/ todo' = Calls(ev, command)
           \/ todo' = todo /\ result' = "error"
    BY <1>4 DEF List
  <2>3. ToSet(mounts) = {} /\ skipped = {} /\ failed = {}
    BY <1>3, <2>2
  <2>4. QED
    BY <1>1, <1>2, <2>1, <2>2, <2>3
<1>5. CASE NextContainer
  <2>1. todo # <<>> /\ todo \in Seq(Records) /\ pc = "next"
    BY <1>5 DEF NextContainer, CallInv
  <2>2. /\ ToSet(todo) = {Head(todo)} \cup ToSet(Tail(todo))
        /\ IsInjective(Tail(todo)) /\ Head(todo) \notin ToSet(Tail(todo))
        /\ Head(todo) \in Records
    BY <2>1, HeadAndTail, DequeuedOnce
  <2>3. /\ todo' = Tail(todo) /\ want' = Head(todo)
        /\ UNCHANGED <<mounts, failed, result>>
        /\ \/ pc' = "lookup" /\ skipped' = skipped
           \/ /\ command.kind = "all" /\ pc' = pc
              /\ skipped' = skipped \cup {Head(todo)}
    BY <1>5 DEF NextContainer
  <2>4. \A r : WasMounted(r)' = WasMounted(r)
    BY <2>3
  <2> HIDE DEF WasMounted
  <2>5. CASE pc' = "lookup" /\ skipped' = skipped
    BY <1>1, <1>2, <2>1, <2>2, <2>3, <2>4, <2>5
  <2>6. CASE command.kind = "all" /\ pc' = pc
             /\ skipped' = skipped \cup {Head(todo)}
    <3>1. \A r : WasMounted(r) /\ result # "error" /\ r \in Records =>
                   r # Head(todo)
      BY <2>1, <2>2
    <3>2. QED
      BY <1>1, <1>2, <2>1, <2>2, <2>3, <2>4, <2>6, <3>1
  <2>7. QED
    BY <2>3, <2>5, <2>6
<1>6. CASE Finish \/ Close \/ UNCHANGED vars
  <2>1. UNCHANGED <<ev, command, pc, todo, want, mounts, skipped, failed>>
        /\ \/ result' = result
           \/ result = "running" /\ result' = "ok"
    BY <1>6 DEF Finish, Close, Done, vars, locals
  <2>2. \A r : WasMounted(r)' = WasMounted(r)
    BY <2>1
  <2> HIDE DEF WasMounted
  <2>3. QED
    BY <1>2, <2>1, <2>2
\* An error ends the command.
<1>7. CASE Fail /\ UNCHANGED skipped
  <2>1. result' = "error" /\ todo' = <<>> /\ pc' = "next"
    BY <1>7, Failing
  <2>2. QED
    BY <1>1, <1>3, <1>7, <2>1
\* The call goes on.
<1>8. CASE /\ Busy /\ pc' \in {"open", "walk", "mount", "unsupported"}
           /\ UNCHANGED <<todo, want, result, failed, skipped, mounts>>
  <2>1. \A r : WasMounted(r)' = WasMounted(r)
    BY <1>8
  <2> HIDE DEF WasMounted
  <2>2. QED
    BY <1>1, <1>2, <1>8, <2>1
\* The container is mounted.
<1>9. CASE /\ Busy /\ Succeed /\ UNCHANGED <<want, skipped>>
           /\ \E l : mounts' = Append(mounts, <<want, l>>)
  <2>1. PICK l : mounts' = Append(mounts, <<want, l>>)
    BY <1>9
  <2>2. /\ want \in Records /\ mounts \in Seq(ToSet(mounts))
        /\ \A m \in ToSet(mounts) : m[1] \in Records
    BY <1>9 DEF DoneInv, CallInv
  <2>3. ToSet(mounts') = ToSet(mounts) \cup {<<want, l>>}
    BY <2>1, <2>2, Grown
  <2>4. \A r : WasMounted(r)' = (WasMounted(r) \/ r = want)
    <3> DEFINE e == <<want, l>>
    <3>1. e[1] = want
      OBVIOUS
    <3> HIDE DEF e
    <3>2. ToSet(mounts') = ToSet(mounts) \cup {e}
      BY <2>3 DEF e
    <3>3. QED
      BY <3>1, <3>2
  <2> HIDE DEF WasMounted
  <2>5. QED
    BY <1>1, <1>2, <1>9, <2>2, <2>4 DEF Succeed
\* There is nothing to mount it with.
<1>10. CASE UseNothing /\ Succeed
  <2>1. /\ pc = "unsupported" /\ Busy
        /\ UNCHANGED <<want, mounts, skipped, todo, failed, result>>
        /\ pc' = "next"
    BY <1>10 DEF UseNothing, Succeed, locals
  <2>2. /\ rec \in Records /\ rec.id = want.id
        /\ snapshotter = Resolve(rec)[1]
    BY <2>1 DEF CallInv, Known
  <2>3. /\ snapshotFile = SnapshotRoot(snapshotter) /\ snapshotFile # 0
        /\ snapshotter # "native" /\ ~ev.dirs[snapshotFile].work
    BY <2>1 DEF FileInv, Opened
  <2>4. HasNoMount(want)
    BY <2>2, <2>3 DEF HasNoMount, Unsupported, Records
  <2>5. \A r : WasMounted(r)' = WasMounted(r)
    BY <2>1
  <2> HIDE DEF WasMounted
  <2>6. QED
    BY <1>1, <1>2, <2>1, <2>4, <2>5
<1>11. QED
  <2>1. CASE LookUp \/ OpenDatabase \/ FollowParent
    BY <1>7, <1>8, <2>1 DEF LookUp, OpenDatabase, FollowParent, Continue,
                            locals
  <2>2. CASE MountLayers \/ UseNothing
    BY <1>7, <1>9, <1>10, <2>2 DEF MountLayers, UseNothing, Succeed, locals
  <2>3. ~ScanLayer
    BY DEF ScanLayer
  <2>4. QED
    BY <1>4, <1>5, <1>6, <2>1, <2>2, <2>3 DEF Next, Step, Done

\* Of drift.
LEMMA DriftStep ==
  ASSUME CallInv, FileInv, DoneInv, DriftInv, [Next]_vars
  PROVE  DriftInv'
<1> SUFFICES ASSUME command.kind = "drift"
             PROVE  DriftInv'
  <2>1. UNCHANGED command
    BY DEF Next, Step, Done, vars, locals, List, NextContainer, Finish,
           LookUp, OpenDatabase, FollowParent, MountLayers, ScanLayer,
           UseNothing, Close
  <2>2. QED
    BY <2>1 DEF DriftInv
<1> DEFINE Scanned(r) == WasScanned(r)
           Can(r) == Scannable(r)
<1> USE DEF DriftInv, Busy
<1>1. UNCHANGED <<ev, command>>
  BY DEF Next, Step, Done, vars, locals, List, NextContainer, Finish, LookUp,
         OpenDatabase, FollowParent, MountLayers, ScanLayer, UseNothing, Close
<1>2. /\ Calls(ev, command)' = Calls(ev, command)
      /\ \A r : Can(r)' = Can(r)
  BY <1>1, Static DEF Calls, Selected
<1> HIDE DEF Can
<1>3. DriftInv' <=>
        (pc' # "list" /\ result' # "error" =>
           \A r \in ToSet(Calls(ev, command)) : Can(r) =>
             \/ r \in ToSet(todo') \/ (pc' \in {"lookup", "open", "walk",
                                      "mount", "unsupported"} /\ r = want')
             \/ r \in failed' \/ Scanned(r)')
  BY <1>1, <1>2 DEF Can
<1>4. pc # "list" /\ result # "error" =>
        \A r \in ToSet(Calls(ev, command)) : Can(r) =>
          \/ r \in ToSet(todo) \/ (Busy /\ r = want)
          \/ r \in failed \/ Scanned(r)
  BY DEF Can
<1> HIDE DEF DriftInv, Scanned
<1>5. CASE List
  BY <1>3, <1>5 DEF List
<1>6. CASE NextContainer
  <2>1. ToSet(todo) = {Head(todo)} \cup ToSet(Tail(todo))
    BY <1>6, HeadAndTail DEF NextContainer, CallInv
  <2>2. /\ todo' = Tail(todo) /\ want' = Head(todo) /\ pc' = "lookup"
        /\ pc = "next" /\ UNCHANGED <<scans, failed, result>>
    BY <1>6 DEF NextContainer
  <2>3. \A r : Scanned(r)' = Scanned(r)
    BY <2>2 DEF Scanned, WasScanned
  <2>4. QED
    BY <1>3, <1>4, <2>1, <2>2, <2>3
<1>7. CASE Finish \/ Close \/ UNCHANGED vars
  <2>1. UNCHANGED <<pc, todo, want, scans, failed>>
        /\ (result' # "error" => result # "error")
    BY <1>7 DEF Finish, Close, Done, vars, locals
  <2>2. \A r : Scanned(r)' = Scanned(r)
    BY <2>1 DEF Scanned, WasScanned
  <2>3. QED
    BY <1>3, <1>4, <2>1, <2>2
\* An error is recorded, and the command goes on.
<1>8. CASE Fail /\ UNCHANGED scans /\ pc # "list"
  <2>1. /\ failed' = failed \cup {want} /\ todo' = todo /\ result' = result
    BY <1>8, Failing
  <2>2. \A r : Scanned(r)' = Scanned(r)
    BY <1>8 DEF Scanned, WasScanned
  <2>3. QED
    BY <1>3, <1>4, <1>8, <2>1, <2>2
\* The call goes on.
<1>9. CASE /\ Busy /\ pc' \in {"open", "walk", "mount", "unsupported"}
           /\ UNCHANGED <<todo, want, result, failed, scans>>
  <2>1. \A r : Scanned(r)' = Scanned(r)
    BY <1>9 DEF Scanned, WasScanned
  <2>2. QED
    BY <1>3, <1>4, <1>9, <2>1
\* The container was scanned, or need not be.
<1>10. CASE /\ Busy /\ Succeed
            /\ \/ ~Can(want) /\ scans' = scans
               \/ \E l : scans' = Append(scans, <<want, l>>)
  <2>1. /\ \A r : Scanned(r) => Scanned(r)'
        /\ \A r : r = want => Scanned(r)' \/ ~Can(r)
    <3>1. CASE scans' = scans
      BY <1>10, <3>1, Grown DEF Scanned, WasScanned, DoneInv, CallInv
    <3>2. CASE \E l : scans' = Append(scans, <<want, l>>)
      <4>1. PICK l : scans' = Append(scans, <<want, l>>)
        BY <3>2
      <4>2. /\ want \in Records /\ scans \in Seq(ToSet(scans))
            /\ \A m \in ToSet(scans) : m[1] \in Records
        BY <1>10 DEF DoneInv, CallInv
      <4> DEFINE e == <<want, l>>
      <4>3. ToSet(scans') = ToSet(scans) \cup {e} /\ e[1] = want
        BY <4>1, <4>2, Grown
      <4> HIDE DEF e
      <4>4. QED
        BY <4>3 DEF Scanned, WasScanned
    <3>3. QED
      BY <1>10, <3>1, <3>2
  <2>2. pc' = "next" /\ UNCHANGED <<todo, failed, result>>
    BY <1>10 DEF Succeed
  <2>3. QED
    BY <1>3, <1>4, <1>10, <2>1, <2>2
<1>11. CASE LookUp \/ OpenDatabase \/ FollowParent
  BY <1>8, <1>9, <1>11 DEF LookUp, OpenDatabase, FollowParent, Continue,
                          locals
<1>12. CASE ScanLayer
  <2>1. pc = "mount" /\ snapshotter = Resolve(want)[1]
    BY <1>12 DEF ScanLayer, CallInv, Known
  <2>2. snapshotter = "native" => ~Can(want)
    BY <2>1 DEF Can, Scannable
  <2>3. QED
    BY <1>8, <1>10, <1>12, <2>2 DEF ScanLayer
<1>13. CASE UseNothing
  <2>1. /\ pc = "unsupported" /\ scans' = scans /\ Succeed
        /\ snapshotter = Resolve(want)[1]
    BY <1>13 DEF UseNothing, CallInv, Known
  <2>2. /\ snapshotFile = SnapshotRoot(snapshotter) /\ snapshotFile # 0
        /\ snapshotter # "native" /\ ~ev.dirs[snapshotFile].work
    BY <2>1 DEF FileInv, Opened
  <2>3. ~Can(want)
    BY <2>1, <2>2 DEF Can, Scannable, Unsupported
  <2>4. QED
    BY <1>10, <2>1, <2>3
<1>14. ~MountLayers
  BY DEF MountLayers
<1>15. QED
  BY <1>5, <1>6, <1>7, <1>11, <1>12, <1>13, <1>14 DEF Next, Step, Done

-----------------------------------------------------------------------------
\* The layers

\* What is known when the layers are to be used.
LEMMA Walked ==
  ASSUME CallInv, FileInv, WalkInv, NothingMixed, pc = "mount"
  PROVE  LET own == <<want.ns, snapshotter, Resolve(want)[2]>>
             root == SnapshotRoot(snapshotter)
         IN  /\ want \in Records /\ snapshotter = Resolve(want)[1]
             /\ snapshotFile = root /\ root # 0 /\ Home(ev, snapshotter) = root
             /\ names \in Seq(ToSet(names)) /\ names # <<>>
             /\ Depth(ev, own) = Len(names) - 1
             /\ \A i \in 1..Len(names) :
                  names[i] = ev.meta[Line(ev, own)[i - 1]].name
             /\ own \in DOMAIN ev.meta
<1> DEFINE own == <<want.ns, snapshotter, Resolve(want)[2]>>
           root == SnapshotRoot(snapshotter)
           line == Line(ev, own)
           n == Len(names)
<1>1. rec = want /\ want \in Records /\ snapshotter = Resolve(want)[1]
  BY OwnRecord DEF CallInv, Known
<1>2. snapshotFile = root /\ root # 0
  <2>1. snapshotFile # 0
    BY DEF FileInv, Opened
  <2>2. CASE command.kind \in {"all", "drift"}
    BY <2>1, <2>2 DEF FileInv, Opened
  <2>3. CASE command.kind \in {"mount", "export"}
    <3>1. want \in ToSet(command.calls)
      BY <2>3 DEF FileInv, Busy
    <3>2. PICK r \in ToSet(command.calls) :
            snapshotFile = SnapshotRoot(Resolve(r)[1])
      BY <2>1, <2>3 DEF FileInv
    <3>3. Resolve(r)[1] = snapshotter
      BY <1>1, <3>1 DEF NothingMixed
    <3>4. QED
      BY <2>1, <3>2, <3>3
  <2>4. QED
    BY <2>2, <2>3, CommandIs DEF CallInv
<1>3. Home(ev, snapshotter) = root
  <2>1. OwnDirectory(snapshotter)
    BY <1>1 DEF NothingMixed, Records
  <2>2. root \in DOMAIN ev.dirs
    <3>1. ev \in Evidence
      BY DEF CallInv
    <3>2. root \in 0..Len(ev.dirs) /\ DOMAIN ev.dirs = 1..Len(ev.dirs)
          /\ Len(ev.dirs) \in Nat
      BY <3>1, RootIs, EvidenceIs, LenProperties
    <3> HIDE DEF root
    <3>3. QED
      BY <1>2, <3>2
  <2>3. \A i \in DOMAIN ev.dirs : ev.dirs[i].owner = snapshotter <=> i = root
    BY <1>2, <2>1 DEF OwnDirectory
  <2> HIDE DEF root
  <2>4. QED
    BY <2>2, <2>3 DEF Home
<1>4. /\ names \in Seq(ToSet(names)) /\ n <= MaxChain
      /\ names # <<>> /\ own \in DOMAIN ev.meta
      /\ \A i \in 1..n : /\ names[i] = ev.meta[line[i - 1]].name
                         /\ i < n => ev.meta[line[i - 1]].parent # ""
                         /\ i = n => ev.meta[line[i - 1]].parent = ""
  BY <1>1 DEF WalkInv
<1>5. n \in Nat /\ n # 0 /\ n <= MaxChain
  BY <1>4, LenProperties, EmptySeq
<1>6. Depth(ev, own) = n - 1
  <2> DEFINE Top(m) == /\ ev.meta[line[m]].parent = ""
                       /\ \A k \in 0..(m - 1) : ev.meta[line[k]].parent # ""
  <2> HIDE DEF line, n
  <2>1. n - 1 \in 0..MaxChain /\ n \in 1..n
    BY <1>5, MaxChainAssumption
  <2>2. Top(n - 1)
    <3>1. ev.meta[line[n - 1]].parent = ""
      BY <1>4, <2>1
    <3>2. ASSUME NEW k \in 0..((n - 1) - 1)
          PROVE  ev.meta[line[k]].parent # ""
      <4>1. k + 1 \in 1..n /\ k + 1 < n /\ (k + 1) - 1 = k
        BY <1>5
      <4>2. QED
        BY <1>4, <4>1
    <3>3. QED
      BY <3>1, <3>2
  <2>3. ASSUME NEW m \in 0..MaxChain, Top(m) PROVE m = n - 1
    <3>1. ~(m < n - 1)
      <4>1. m < n - 1 => m \in 0..((n - 1) - 1)
        BY <1>5
      <4>2. QED
        BY <2>2, <2>3, <4>1
    <3>2. ~(n - 1 < m)
      <4>1. n - 1 < m => n - 1 \in 0..(m - 1)
        BY <1>5
      <4>2. QED
        BY <2>2, <2>3, <4>1
    <3>3. QED
      BY <1>5, <3>1, <3>2
  <2>4. Depth(ev, own) = CHOOSE m \in 0..MaxChain : Top(m)
    BY DEF Depth, line
  <2> HIDE DEF Top, own
  <2>5. QED
    BY <2>1, <2>2, <2>3, <2>4
<1>7. QED
  BY <1>1, <1>2, <1>3, <1>4, <1>6

\* They are the container's own.
LEMMA LayersOwn ==
  ASSUME CallInv, FileInv, WalkInv, NothingMixed, pc = "mount", Usable
  PROVE  Layers = OwnLayers(want)
<1> DEFINE own == <<want.ns, snapshotter, Resolve(want)[2]>>
           root == SnapshotRoot(snapshotter)
           line == Line(ev, own)
           n == Len(names)
           ids == ev.dirs[root].ids
           name(i) == ev.meta[line[i - 1]].name
<1>1. /\ want \in Records /\ snapshotter = Resolve(want)[1]
      /\ snapshotFile = root /\ root # 0 /\ Home(ev, snapshotter) = root
      /\ names \in Seq(ToSet(names)) /\ names # <<>>
      /\ Depth(ev, own) = n - 1
      /\ \A i \in 1..n : names[i] = name(i)
      /\ own \in DOMAIN ev.meta
  BY Walked
<1>2. n \in Nat /\ n # 0 /\ DOMAIN names = 1..n
  BY <1>1, LenProperties, EmptySeq
<1>3. ev.cache = "" \/ (ev.cache = "layers" /\ NoLink(want))
  BY <1>1 DEF NothingMixed, Records
<1>4. CASE snapshotter # "native"
  <2>1. \A i \in 1..n : names[i] \in DOMAIN ids
    BY <1>1, <1>2, <1>4 DEF Usable, Layers
  <2>2. Layers = OverlayPath(root, [i \in 1..n |-> ids[names[i]]])
    BY <1>1, <1>2, <1>4, <2>1 DEF Layers
  <2>3. Layers = [i \in 1..n |-> Layer(root, ids[names[i]],
                                       IF i = 1 THEN ev.cache ELSE "layers")]
    BY <2>2 DEF OverlayPath
  <2>4. OwnLayers(want) =
          [i \in 1..((n - 1) + 1) |-> Layer(root, ids[name(i)], ev.cache)]
    BY <1>1, <1>4 DEF OwnLayers
  <2>5. (n - 1) + 1 = n
    BY <1>2
  <2>6. ASSUME NEW i \in 1..n
        PROVE  Layer(root, ids[names[i]], IF i = 1 THEN ev.cache ELSE "layers")
               = Layer(root, ids[name(i)], ev.cache)
    <3>1. names[i] = name(i)
      BY <1>1
    <3> HIDE DEF name, ids, root
    <3>2. QED
      BY <1>3, <3>1 DEF Layer
  <2> HIDE DEF name, ids, root, n
  <2>7. QED
    BY <2>3, <2>4, <2>5, <2>6
<1>5. CASE snapshotter = "native"
  <2>1. 1 \in 1..n /\ names[1] = name(1)
    BY <1>1, <1>2, SMTT(30)
  <2>2. names[1] \in DOMAIN ids
    BY <1>1, <1>5 DEF Usable, Layers
  <2>3. Layers = <<<<root, "snapshots", ids[names[1]]>>>>
    BY <1>1, <1>5, <2>2 DEF Layers
  <2>4. OwnLayers(want) =
          [i \in 1..(0 + 1) |-> Layer(root, ids[name(i)], ev.cache)]
    BY <1>1, <1>5, SMTT(30) DEF OwnLayers
  <2>5. Layer(root, ids[name(1)], ev.cache) =
          <<root, "snapshots", ids[names[1]]>>
    <3>1. CASE ev.cache = ""
      BY <2>1, <3>1 DEF Layer
    <3>2. CASE ev.cache # ""
      <4>1. names[1] = ev.meta[own].name
        <5>1. line[0] = own
          BY <1>1, LineIs
        <5>2. line[1 - 1] = line[0]
          OBVIOUS
        <5>3. QED
          BY <2>1, <5>1, <5>2
      <4>2. ids[names[1]] \notin ev.links
        <5>1. NoLink(want)
          BY <1>3, <3>2
        <5>2. QED
          BY <1>1, <1>5, <2>2, <4>1, <5>1 DEF NoLink
      <4>3. QED
        BY <2>1, <4>2 DEF Layer
    <3>3. QED
      BY <3>1, <3>2
  <2> DEFINE it == <<root, "snapshots", ids[names[1]]>>
  <2>6. OwnLayers(want) = [i \in 1..1 |-> it]
    <3>1. 0 + 1 = 1 /\ \A i \in 1..1 : i = 1
      BY SMTT(30)
    <3>2. \A i \in 1..1 : Layer(root, ids[name(i)], ev.cache) = it
      BY <2>5, <3>1
    <3> HIDE DEF it, name, ids, root
    <3>3. QED
      BY <2>4, <3>1, <3>2
  <2> HIDE DEF it
  <2>7. <<it>> = [i \in 1..1 |-> it]
    OBVIOUS
  <2>8. QED
    BY <2>3, <2>6, <2>7 DEF it
<1>6. QED
  BY <1>4, <1>5

LEMMA LayersInit ==
  ASSUME Init PROVE LayersAreOwnUnmixed
  BY NothingIn DEF Init, LayersAreOwnUnmixed, LayersAreOwn

LEMMA LayersStep ==
  ASSUME CallInv, FileInv, WalkInv, DoneInv, LayersAreOwnUnmixed, [Next]_vars
  PROVE  LayersAreOwnUnmixed'
<1>1. UNCHANGED <<ev, command>>
  BY DEF Next, Step, Done, vars, locals, List, NextContainer, Finish, LookUp,
         OpenDatabase, FollowParent, MountLayers, ScanLayer, UseNothing, Close
<1>2. NothingMixed' = NothingMixed /\ \A r : OwnLayers(r)' = OwnLayers(r)
  BY <1>1, Static
<1> SUFFICES ASSUME NothingMixed PROVE LayersAreOwn'
  BY <1>2 DEF LayersAreOwnUnmixed
<1>3. /\ \A m \in ToSet(mounts) : m[2] = OwnLayers(m[1])
      /\ \A m \in ToSet(scans) : m[2] = OwnLayers(m[1])[1]
  BY DEF LayersAreOwnUnmixed, LayersAreOwn
<1>4. LayersAreOwn' <=>
        /\ \A m \in ToSet(mounts') : m[2] = OwnLayers(m[1])
        /\ \A m \in ToSet(scans') : m[2] = OwnLayers(m[1])[1]
  BY <1>2 DEF LayersAreOwn
<1> HIDE DEF LayersAreOwn
<1>5. CASE UNCHANGED <<mounts, scans>>
  BY <1>3, <1>4, <1>5
<1>6. CASE /\ Busy /\ scans' = scans
           /\ \E l : mounts' = Append(mounts, <<want, l>>)
                     /\ l = OwnLayers(want)
  <2>1. mounts' = Append(mounts, <<want, OwnLayers(want)>>)
    BY <1>6
  <2>2. /\ want \in Records /\ mounts \in Seq(ToSet(mounts))
        /\ \A m \in ToSet(mounts) : m[1] \in Records
    BY <1>6 DEF DoneInv, CallInv
  <2> DEFINE e == <<want, OwnLayers(want)>>
  <2>3. ToSet(mounts') = ToSet(mounts) \cup {e}
    BY <2>1, <2>2, Grown
  <2>4. e[2] = OwnLayers(want) /\ e[1] = want
    OBVIOUS
  <2> HIDE DEF e
  <2>5. QED
    BY <1>3, <1>4, <1>6, <2>3, <2>4
<1>7. CASE /\ Busy /\ mounts' = mounts
           /\ \E l : scans' = Append(scans, <<want, l>>)
                     /\ l = OwnLayers(want)[1]
  <2>1. scans' = Append(scans, <<want, OwnLayers(want)[1]>>)
    BY <1>7
  <2>2. /\ want \in Records /\ scans \in Seq(ToSet(scans))
        /\ \A m \in ToSet(scans) : m[1] \in Records
    BY <1>7 DEF DoneInv, CallInv
  <2> DEFINE e == <<want, OwnLayers(want)[1]>>
  <2>3. ToSet(scans') = ToSet(scans) \cup {e}
    BY <2>1, <2>2, Grown
  <2>4. e[2] = OwnLayers(want)[1] /\ e[1] = want
    OBVIOUS
  <2> HIDE DEF e
  <2>5. QED
    BY <1>3, <1>4, <1>7, <2>3, <2>4
<1>8. CASE List \/ NextContainer \/ Finish \/ LookUp \/ OpenDatabase
           \/ FollowParent \/ UseNothing \/ Close \/ UNCHANGED vars
  <2>1. UNCHANGED <<mounts, scans>>
    BY <1>8 DEF List, NextContainer, Finish, LookUp, OpenDatabase,
                FollowParent, UseNothing, Close, Done, vars
  <2>2. QED
    BY <1>5, <2>1
<1>9. CASE MountLayers
  <2>1. Busy /\ scans' = scans /\ pc = "mount"
    BY <1>9 DEF MountLayers, Busy
  <2>2. CASE Usable
    <3>1. Layers = OwnLayers(want)
      BY <2>1, <2>2, LayersOwn
    <3>2. mounts' = Append(mounts, <<want, Layers>>)
      BY <1>9, <2>2 DEF MountLayers
    <3>3. QED
      BY <1>6, <2>1, <3>1, <3>2
  <2>3. CASE ~Usable
    BY <1>5, <1>9, <2>3 DEF MountLayers
  <2>4. QED
    BY <2>2, <2>3
<1>10. CASE ScanLayer
  <2>1. Busy /\ mounts' = mounts /\ pc = "mount"
    BY <1>10 DEF ScanLayer, Busy
  <2>2. CASE Usable /\ snapshotter # "native"
    <3>1. Layers = OwnLayers(want)
      BY <2>1, <2>2, LayersOwn
    <3>2. scans' = Append(scans, <<want, Layers[1]>>)
      BY <1>10, <2>2 DEF ScanLayer
    <3>3. QED
      BY <1>7, <2>1, <3>1, <3>2
  <2>3. CASE ~(Usable /\ snapshotter # "native")
    BY <1>5, <1>10, <2>1, <2>3 DEF ScanLayer
  <2>4. QED
    BY <2>2, <2>3
<1>11. QED
  BY <1>8, <1>9, <1>10 DEF Next, Step, Done

-----------------------------------------------------------------------------
\* The theorems

LEMMA Invariance == Spec => []IInv
<1>1. Init => IInv
  BY CallInit, FileInit, WalkInit, DoneInit, AccountInit, LayersInit DEF IInv
<1>2. IInv /\ [Next]_vars => IInv'
  BY CallStep, FileStep, WalkStep, DoneStep, MountStep, DriftStep, LayersStep
     DEF IInv
<1>3. QED
  BY <1>1, <1>2, PTL DEF Spec

\* The types, the bounds of the walk and that what was done was done for
\* containers of the root.
THEOREM TypeCorrect == Spec => []TypeOK
<1>1. IInv => TypeOK
  <2> SUFFICES ASSUME IInv PROVE TypeOK
    OBVIOUS
  <2> USE DEF IInv
  <2>1. \A r \in {want, rec} : r = <<>> \/ r \in ToSet(ev.records)
    BY DEF CallInv, Records
  <2>2. \A m \in ToSet(mounts) : m[1] \in ToSet(ev.records)
    BY DEF DoneInv, Records
  <2>3. failed \cup skipped \subseteq ToSet(ev.records)
    BY DEF DoneInv, Records
  <2>4. snapshotFile \in 0..Len(ev.dirs) /\ handles \in Nat
    BY DEF FileInv
  <2>5. Len(names) <= MaxChain
    BY DEF WalkInv
  <2>6. QED
    BY <2>1, <2>2, <2>3, <2>4, <2>5 DEF TypeOK, CallInv
<1>2. QED
  BY Invariance, <1>1, PTL

\* resolveSnapshotter completes a record that lacks its snapshotter or its
\* key with some snapshot that the record does not contradict, whenever
\* meta.db has one; nothing says that it is the container's own.
THEOREM Completed == Spec => []ResolutionFinds
<1>1. IInv => ResolutionFinds
  <2> SUFFICES ASSUME IInv, pc = "open",
                      rec.snapshotter = "" \/ rec.key = "",
                      NEW s \in ToSet(ev.buckets), NEW k \in ToSet(ev.keys),
                      Candidate(rec, s, k)
               PROVE  Candidate(rec, snapshotter, key)
    BY DEF ResolutionFinds
  <2>1. /\ ev \in Evidence /\ rec \in Records
        /\ snapshotter = Resolve(rec)[1] /\ key = Resolve(rec)[2]
    BY DEF IInv, CallInv, Known
  <2>2. QED
    BY <2>1, ResolvesToCandidate
<1>2. QED
  BY Invariance, <1>1, PTL

\* When mount or mount --all reports success, no mount failed, nothing but
\* selected containers was mounted, and a selected one that was not has no
\* directory, or shares its ID with one that the code has no mount for; a
\* drift has scanned every container that it can scan, or seen it fail.
THEOREM Accounted == Spec => []OkAccounts
<1>1. IInv => OkAccounts
  <2> SUFFICES ASSUME IInv, result = "ok" PROVE OkAccounts
    BY DEF OkAccounts
  <2> DEFINE calls == ToSet(Calls(ev, command))
  <2>1. pc = "next" /\ todo = <<>> /\ ToSet(todo) = {}
    BY NothingIn DEF IInv, CallInv
  <2>2. calls \subseteq Records
    <3>1. Calls(ev, command) \in Seq(Records)
      BY CallsAre DEF IInv, CallInv
    <3>2. QED
      BY <3>1 DEF ToSet
  <2>3. ASSUME command.kind \in {"mount", "all"}
        PROVE  /\ failed = {}
               /\ \A m \in ToSet(mounts) : m[1] \in calls \ skipped
               /\ \A r \in calls \ skipped : WasMounted(r) \/ HasNoMount(r)
    <3>1. /\ failed = {}
          /\ \A r \in calls :
               r \in skipped \/ WasMounted(r) \/ HasNoMount(r)
          /\ \A r \in Records : WasMounted(r) =>
               r \in calls /\ r \notin skipped
      BY <2>1, <2>3 DEF IInv, MountInv, Busy
    <3>2. \A m \in ToSet(mounts) : m[1] \in Records
      BY DEF IInv, DoneInv
    <3>3. QED
      BY <3>1, <3>2 DEF WasMounted
  <2>4. ASSUME command.kind = "drift", NEW r \in calls, Scannable(r)
        PROVE  r \in failed \/ WasScanned(r)
    BY <2>1, <2>4 DEF IInv, DriftInv, Busy
  <2>5. QED
    BY <2>3, <2>4 DEF OkAccounts, Scannable
<1>2. QED
  BY Invariance, <1>1, PTL

\* Where nothing can be taken for something else, every mount command names
\* the container's own layers, and drift is that of its own upper layer.
THEOREM OwnUnmixed == Spec => []LayersAreOwnUnmixed
<1>1. IInv => LayersAreOwnUnmixed
  BY DEF IInv
<1>2. QED
  BY Invariance, <1>1, PTL
=============================================================================
