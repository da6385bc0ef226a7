--------------------------- MODULE DriftScan_proof ---------------------------
(***************************************************************************)
(* The scan of an upper directory, for every file system: each file is     *)
(* reported once, and under the right heading.  The walk is carried by     *)
(* three invariants: nothing is left to walk that was walked before, what  *)
(* is in an entered directory was walked or is left to walk, and so is the *)
(* upper directory itself.                                                 *)
(***************************************************************************)
EXTENDS DriftScan, SequenceLemmas

Finding == [entry : Node, executable : BOOLEAN]

TypeInv ==
  /\ fs \in FileSystems /\ start \in Node
  /\ Resolve(start) = DiffDir /\ fs.parent[start] = start
  /\ todo \in Seq(Node)
  /\ visited \subseteq {n \in Node : fs.kind[n] = "dir"}
  /\ addedOrModified \in Seq(Finding) /\ inaccessibleFiles \in Seq(Finding)
  /\ returned \in BOOLEAN
  /\ returned => todo = <<>>

\* A directory whose entries the walk has taken.
Listed(n) == n \in visited \ fs.closed

Came(n) == n = start \/ (fs.parent[n] # n /\ Listed(fs.parent[n]))

\* What is left and what is reported are apart, and come, but for the path
\* given, from directories that were listed.
OnceInv ==
  /\ IsInjective(todo)
  /\ ToSet(todo) \cap Reported = {}
  /\ \A n \in ToSet(todo) \cup Reported : Came(n)
  /\ IsFiniteSet(Reported)
  /\ Cardinality(Reported) = Len(Reports)

\* What has become of a node: a directory was entered, what leads to a file is
\* reported.
Walked(n) ==
  /\ fs.kind[n] = "dir" => n \in visited
  /\ fs.kind[Resolve(n)] # "dir" => n \in Reported

\* Nothing of a listed directory is forgotten.
WalkInv ==
  /\ \A n \in Node : fs.parent[n] # n /\ Listed(fs.parent[n]) =>
       n \in fs.closed \/ n \in ToSet(todo) \/ Walked(n)
  /\ start \in fs.closed \/ start \in ToSet(todo) \/ DiffDir \in visited

IInv == TypeInv /\ OnceInv /\ WalkInv /\ WellClassified

-----------------------------------------------------------------------------
\* The file system

\* A chain of nodes is what its definition says.
LEMMA Following ==
  ASSUME NEW step \in Maps(Node), NEW n \in Node
  PROVE  IsIterate(Follow(step, n), 0..Cardinality(Node), Node, n, step)
<1> DEFINE D == 0..Cardinality(Node)
<1>1. Initial(D)
  <2>1. Cardinality(Node) \in Nat
    BY FileSystemAssumption, FS_CardinalityType
  <2>2. QED
    BY <2>1 DEF Initial
<1>2. Follow(step, n) = Iterate(D, n, step)
  BY DEF Follow, Iterate
<1> HIDE DEF D
<1>3. IsIterate(Iterate(D, n, step), D, Node, n, step)
  BY <1>1, Iteration
<1>4. QED
  BY <1>2, <1>3 DEF D

\* A node that leads to itself leads nowhere else.
LEMMA StaysThere ==
  ASSUME NEW step \in Maps(Node), NEW n \in Node, step[n] = n
  PROVE  Follow(step, n)[Cardinality(Node)] = n
<1> DEFINE K == Cardinality(Node)
           f == Follow(step, n)
           P == {i \in Nat : i \in 0..K => f[i] = n}
<1>1. K \in Nat
  BY FileSystemAssumption, FS_CardinalityType
<1>2. f[0] = n /\ \A i \in 0..K : i # 0 => f[i] = step[f[i - 1]]
  BY Following DEF IsIterate
<1> HIDE DEF K, f
<1>3. 0 \in P
  BY <1>2
<1>4. ASSUME NEW i \in Nat, i \in P PROVE i + 1 \in P
  <2> SUFFICES ASSUME i + 1 \in 0..K PROVE f[i + 1] = n
    OBVIOUS
  <2>1. i \in 0..K /\ i + 1 # 0 /\ (i + 1) - 1 = i
    BY <1>1
  <2>2. QED
    BY <1>2, <1>4, <2>1
<1>5. Nat \subseteq P
  <2> HIDE DEF P
  <2> QED
    BY <1>3, <1>4, Induction
<1>6. QED
  BY <1>1, <1>5 DEF f, K

\* What an entry leads to: a node, itself when it is no link.
LEMMA Resolved ==
  ASSUME fs \in FileSystems, NEW n \in Node
  PROVE  /\ Resolve(n) \in Node
         /\ fs.kind[n] # "link" => Resolve(n) = n
<1>1. fs.target \in Maps(Node)
  BY FileSystemAssumption DEF Maps
<1>2. Cardinality(Node) \in Nat
  BY FileSystemAssumption, FS_CardinalityType
<1>3. Resolve(n) \in Node
  <2> DEFINE D == 0..Cardinality(Node)
  <2>1. IsIterate(Follow(fs.target, n), D, Node, n, fs.target)
    BY <1>1, Following
  <2>2. Follow(fs.target, n) \in [D -> Node] /\ Cardinality(Node) \in D
    BY <1>2, <2>1 DEF IsIterate
  <2>3. QED
    BY <2>2 DEF Resolve
<1>4. ASSUME fs.kind[n] # "link" PROVE Resolve(n) = n
  <2>1. fs.target[n] = n
    BY <1>4, FileSystemAssumption
  <2>2. QED
    BY <1>1, <2>1, StaysThere DEF Resolve
<1>5. QED
  BY <1>3, <1>4

\* Listing a directory gives its entries, each once.
LEMMA EntriesAre ==
  ASSUME fs \in FileSystems, NEW d \in Node
  PROVE  /\ Entries(d) \in Seq(Node) /\ IsInjective(Entries(d))
         /\ ToSet(Entries(d)) = {n \in Node : fs.parent[n] = d /\ n # d}
<1> DEFINE S == {n \in Node : fs.parent[n] = d /\ n # d}
<1>1. fs.order \in Seq(Node) /\ IsInjective(fs.order)
      /\ S \subseteq ToSet(fs.order)
  BY FileSystemAssumption
<1>2. Entries(d) = Only(fs.order, S)
  BY DEF Entries
<1> HIDE DEF S
<1>3. /\ Only(fs.order, S) \in Seq(Node) /\ IsInjective(Only(fs.order, S))
      /\ ToSet(Only(fs.order, S)) = ToSet(fs.order) \cap S
  BY <1>1, TakenIs, SelectedOnce
<1>4. QED
  BY <1>1, <1>2, <1>3 DEF S

\* The file system does not change while it is walked.
LEMMA Static ==
  ASSUME [Next]_vars
  PROVE  /\ fs' = fs /\ start' = start
         /\ \A n : Resolve(n)' = Resolve(n)
<1>1. fs' = fs /\ start' = start
  BY DEF Next, Step, Done, vars, WalkUnreadable, WalkBrokenLink, WalkDirectory,
         WalkFile, Return
<1>2. QED
  BY <1>1 DEF Resolve

-----------------------------------------------------------------------------
\* The steps

\* The entry that is walked, and what is left then.
LEMMA Walking ==
  ASSUME TypeInv, todo # <<>>
  PROVE  /\ Entry \in Node /\ Entry \in ToSet(todo)
         /\ Tail(todo) \in Seq(Node)
         /\ ToSet(todo) = {Entry} \cup ToSet(Tail(todo))
         /\ Resolve(Entry) \in Node
         /\ fs.kind[Entry] # "link" => Resolve(Entry) = Entry
<1>1. /\ Entry \in Node /\ Entry \in ToSet(todo) /\ Tail(todo) \in Seq(Node)
      /\ ToSet(todo) = {Entry} \cup ToSet(Tail(todo))
  BY HeadAndTail DEF TypeInv, Entry
<1>2. QED
  BY <1>1, Resolved DEF TypeInv

\* A report more.
OneMore(s, r) == s' = Append(s, r)

LEMMA Reporting ==
  ASSUME TypeInv, NEW r \in Finding,
         \/ OneMore(addedOrModified, r) /\ UNCHANGED inaccessibleFiles
         \/ OneMore(inaccessibleFiles, r) /\ UNCHANGED addedOrModified
  PROVE  /\ addedOrModified' \in Seq(Finding)
         /\ inaccessibleFiles' \in Seq(Finding)
         /\ Reported' = Reported \cup {r.entry}
         /\ Len(Reports') = Len(Reports) + 1
<1> DEFINE a == addedOrModified
           b == inaccessibleFiles
<1>1. a \in Seq(Finding) /\ b \in Seq(Finding)
  BY DEF TypeInv
<1>2. /\ Append(a, r) \in Seq(Finding) /\ Len(Append(a, r)) = Len(a) + 1
      /\ ToSet(Append(a, r)) = ToSet(a) \cup {r}
      /\ Append(b, r) \in Seq(Finding) /\ Len(Append(b, r)) = Len(b) + 1
      /\ ToSet(Append(b, r)) = ToSet(b) \cup {r}
      /\ Len(a) \in Nat /\ Len(b) \in Nat
  BY <1>1, AppendAdds, AppendProperties, LenProperties
<1>3. a' \in Seq(Finding) /\ b' \in Seq(Finding)
  BY <1>1, <1>2 DEF OneMore
<1>4. /\ ToSet(a') \cup ToSet(b') = ToSet(a) \cup ToSet(b) \cup {r}
      /\ Len(a') + Len(b') = Len(a) + Len(b) + 1
  <2>1. CASE a' = Append(a, r) /\ b' = b
    <3>1. ToSet(a') = ToSet(a) \cup {r} /\ ToSet(b') = ToSet(b)
      BY <1>2, <2>1
    <3>2. Len(a') = Len(a) + 1 /\ Len(b') = Len(b)
      BY <1>2, <2>1
    <3>3. QED
      BY <1>2, <3>1, <3>2
  <2>2. CASE b' = Append(b, r) /\ a' = a
    <3>1. ToSet(b') = ToSet(b) \cup {r} /\ ToSet(a') = ToSet(a)
      BY <1>2, <2>2
    <3>2. Len(b') = Len(b) + 1 /\ Len(a') = Len(a)
      BY <1>2, <2>2
    <3>3. QED
      BY <1>2, <3>1, <3>2
  <2>3. QED
    BY <2>1, <2>2 DEF OneMore
<1>5. /\ ToSet(Reports) = ToSet(a) \cup ToSet(b)
      /\ Len(Reports) = Len(a) + Len(b)
  BY <1>1, ConcatAdds, ConcatProperties DEF Reports
<1>6. /\ ToSet(Reports)' = ToSet(a') \cup ToSet(b')
      /\ Len(Reports') = Len(a') + Len(b')
  BY <1>3, ConcatAdds, ConcatProperties DEF Reports
<1>7. Reported' = Reported \cup {r.entry}
  <2>1. ToSet(Reports)' = ToSet(Reports) \cup {r}
    BY <1>4, <1>5, <1>6
  <2>2. QED
    BY <2>1 DEF Reported
<1>8. QED
  BY <1>3, <1>4, <1>5, <1>6, <1>7

\* Only the results tell what was reported.
LEMMA NoReport ==
  ASSUME UNCHANGED <<addedOrModified, inaccessibleFiles>>
  PROVE  Reported' = Reported /\ Reports' = Reports
  BY DEF Reported, Reports

LEMMA NextTypeInv ==
  ASSUME TypeInv, [Next]_vars
  PROVE  TypeInv'
<1> USE DEF TypeInv
<1>1. /\ fs' = fs /\ start' = start /\ \A n : Resolve(n)' = Resolve(n)
  BY Static
<1>2. CASE WalkUnreadable
  <2>1. Tail(todo) \in Seq(Node)
    BY <1>2, Walking DEF WalkUnreadable
  <2>2. QED
    BY <1>1, <1>2, <2>1 DEF WalkUnreadable, Advance
<1>3. CASE WalkBrokenLink
  <2> DEFINE r == Found(Entry)
  <2>1. Tail(todo) \in Seq(Node) /\ r \in Finding
    BY <1>3, Walking DEF WalkBrokenLink, Finding, Found
  <2>2. OneMore(inaccessibleFiles, r) /\ UNCHANGED addedOrModified
    BY <1>3 DEF WalkBrokenLink, OneMore
  <2> HIDE DEF r
  <2>3. /\ addedOrModified' \in Seq(Finding)
        /\ inaccessibleFiles' \in Seq(Finding)
    BY <2>1, <2>2, Reporting
  <2>4. QED
    BY <1>1, <1>3, <2>1, <2>3 DEF WalkBrokenLink, Advance
<1>4. CASE WalkDirectory
  <2> DEFINE r == Found(Entry)
             d == Resolve(Entry)
  <2>1. /\ Tail(todo) \in Seq(Node) /\ r \in Finding
        /\ d \in Node /\ fs.kind[d] = "dir" /\ todo # <<>>
    BY <1>4, Walking DEF WalkDirectory, AtDirectory, Finding, Found
  <2>2. todo' \in Seq(Node)
    <3>1. Entries(d) \in Seq(Node)
      BY <2>1, EntriesAre
    <3>2. Entries(d) \o Tail(todo) \in Seq(Node)
      BY <2>1, <3>1, ConcatProperties
    <3>3. QED
      BY <1>4, <2>1, <3>2 DEF WalkDirectory, Advance
  <2>3. /\ addedOrModified' \in Seq(Finding)
        /\ inaccessibleFiles' \in Seq(Finding)
    <3>1. CASE UNCHANGED inaccessibleFiles
      BY <1>4, <3>1 DEF WalkDirectory
    <3>2. CASE OneMore(inaccessibleFiles, r)
      <4>1. UNCHANGED addedOrModified
        BY <1>4 DEF WalkDirectory
      <4> HIDE DEF r
      <4>2. QED
        BY <2>1, <3>2, <4>1, Reporting
    <3>3. QED
      BY <1>4, <3>1, <3>2 DEF WalkDirectory, OneMore
  <2>4. visited' = visited \cup {d} /\ returned' = returned
    BY <1>4 DEF WalkDirectory
  <2>5. ~returned
    BY <2>1
  <2> HIDE DEF r, d
  <2>6. QED
    BY <1>1, <2>1, <2>2, <2>3, <2>4, <2>5
<1>5. CASE WalkFile
  <2>1. Tail(todo) \in Seq(Node) /\ Entry \in Node /\ todo # <<>>
    BY <1>5, Walking DEF WalkFile, AtFile
  <2>2. PICK r \in Finding :
          \/ OneMore(addedOrModified, r) /\ UNCHANGED inaccessibleFiles
          \/ OneMore(inaccessibleFiles, r) /\ UNCHANGED addedOrModified
    <3>1. Found(Entry) \in Finding
      BY <2>1 DEF Found, Finding
    <3>2. [entry |-> Entry, executable |-> fs.kind[Resolve(Entry)] = "exec"]
            \in Finding
      BY <2>1 DEF Finding
    <3>3. QED
      BY <1>5, <3>1, <3>2 DEF WalkFile, OneMore
  <2>3. /\ addedOrModified' \in Seq(Finding)
        /\ inaccessibleFiles' \in Seq(Finding)
    BY <2>2, Reporting
  <2>4. QED
    BY <1>1, <1>5, <2>1, <2>3 DEF WalkFile, Advance
<1>6. CASE Return
  BY <1>1, <1>6 DEF Return
<1>7. CASE UNCHANGED vars
  BY <1>1, <1>7 DEF vars
<1>8. QED
  BY <1>2, <1>3, <1>4, <1>5, <1>6, <1>7 DEF Next, Step, Done

\* An entry is left behind, reported or not.
LEMMA Advanced ==
  ASSUME TypeInv, OnceInv, [Next]_vars, todo # <<>>, Advance,
         visited \subseteq visited',
         \/ Reported' = Reported /\ Reports' = Reports
         \/ /\ Reported' = Reported \cup {Entry}
            /\ Len(Reports') = Len(Reports) + 1
  PROVE  OnceInv'
<1>1. fs' = fs /\ start' = start
  BY Static
<1>2. /\ Entry \in ToSet(todo) /\ ToSet(todo) = {Entry} \cup ToSet(todo')
  BY Walking DEF Advance
<1>3. IsInjective(todo') /\ Entry \notin ToSet(todo')
  BY DequeuedOnce DEF OnceInv, TypeInv, Advance, Entry
<1>4. Entry \notin Reported /\ ToSet(todo) \cap Reported = {}
  BY <1>2 DEF OnceInv
<1>5. ToSet(todo') \cap Reported' = {}
  BY <1>2, <1>3, <1>4
<1>6. \A n \in ToSet(todo') \cup Reported' : Came(n)'
  <2>1. ToSet(todo') \cup Reported' \subseteq ToSet(todo) \cup Reported
    BY <1>2
  <2>2. \A n : Came(n) => Came(n)'
    BY <1>1 DEF Came, Listed
  <2>3. QED
    BY <2>1, <2>2 DEF OnceInv
<1>7. IsFiniteSet(Reported') /\ Cardinality(Reported') = Len(Reports')
  <2>1. IsFiniteSet(Reported) /\ Cardinality(Reported) = Len(Reports)
    BY DEF OnceInv
  <2>2. /\ IsFiniteSet(Reported \cup {Entry})
        /\ Cardinality(Reported \cup {Entry}) = Cardinality(Reported) + 1
    BY <1>4, <2>1, FS_AddElement
  <2>3. QED
    BY <2>1, <2>2
<1>8. QED
  BY <1>3, <1>5, <1>6, <1>7 DEF OnceInv

\* The entries of a directory that was not entered before are new.
LEMMA Entered ==
  ASSUME TypeInv, OnceInv, [Next]_vars, todo # <<>>,
         NEW d \in Node, d \notin fs.closed \cup visited,
         visited' = visited \cup {d}, todo' = Entries(d) \o Tail(todo),
         Reported' = Reported, Reports' = Reports
  PROVE  OnceInv'
<1>1. fs' = fs /\ start' = start /\ fs.parent[start] = start
  BY Static DEF TypeInv
<1>2. /\ Tail(todo) \in Seq(Node) /\ ToSet(Tail(todo)) \subseteq ToSet(todo)
  BY Walking
<1>3. IsInjective(Tail(todo))
  BY DequeuedOnce DEF OnceInv, TypeInv
<1>4. /\ Entries(d) \in Seq(Node) /\ IsInjective(Entries(d))
      /\ ToSet(Entries(d)) = {n \in Node : fs.parent[n] = d /\ n # d}
  BY EntriesAre DEF TypeInv
<1>5. \A n \in ToSet(todo) \cup Reported : n \notin ToSet(Entries(d))
  <2> SUFFICES ASSUME NEW n \in ToSet(todo) \cup Reported, fs.parent[n] = d,
                      n # d
               PROVE  FALSE
    BY <1>4
  <2>1. n = start \/ Listed(fs.parent[n])
    BY DEF OnceInv, Came
  <2>2. QED
    BY <1>1, <2>1 DEF Listed
<1>6. /\ ToSet(todo') = ToSet(Entries(d)) \cup ToSet(Tail(todo))
      /\ IsInjective(todo')
  <2>1. ToSet(Entries(d)) \cap ToSet(Tail(todo)) = {}
    BY <1>2, <1>5
  <2> DEFINE s == Entries(d)
             t == Tail(todo)
  <2>2. /\ s \in Seq(Node) /\ t \in Seq(Node)
        /\ IsInjective(s) /\ IsInjective(t) /\ ToSet(s) \cap ToSet(t) = {}
    BY <1>2, <1>3, <1>4, <2>1
  <2> HIDE DEF s, t
  <2>3. ToSet(s \o t) = ToSet(s) \cup ToSet(t) /\ IsInjective(s \o t)
    BY <2>2, ConcatAdds, ConcatOnce
  <2>4. todo' = s \o t
    BY DEF s, t
  <2>5. QED
    BY <2>3, <2>4 DEF s, t
<1>7. ToSet(todo') \cap Reported' = {}
  BY <1>2, <1>5, <1>6 DEF OnceInv
<1>8. \A n \in ToSet(todo') \cup Reported' : Came(n)'
  <2>1. \A n : Came(n) => Came(n)'
    BY <1>1 DEF Came, Listed
  <2>2. \A n \in ToSet(Entries(d)) : Came(n)'
    BY <1>1, <1>4 DEF Came, Listed
  <2>3. QED
    BY <1>2, <1>6, <2>1, <2>2 DEF OnceInv
<1>9. QED
  BY <1>6, <1>7, <1>8 DEF OnceInv

LEMMA NextOnceInv ==
  ASSUME TypeInv, OnceInv, [Next]_vars
  PROVE  OnceInv'
<1>1. CASE WalkUnreadable
  <2>1. Reported' = Reported /\ Reports' = Reports
    BY <1>1, NoReport DEF WalkUnreadable
  <2>2. QED
    BY <1>1, <2>1, Advanced DEF WalkUnreadable
<1>2. CASE WalkBrokenLink
  <2> DEFINE r == Found(Entry)
  <2>1. r \in Finding /\ r.entry = Entry
    BY <1>2, Walking DEF WalkBrokenLink, Finding, Found
  <2>2. OneMore(inaccessibleFiles, r) /\ UNCHANGED addedOrModified
    BY <1>2 DEF WalkBrokenLink, OneMore
  <2> HIDE DEF r
  <2>3. /\ Reported' = Reported \cup {Entry}
        /\ Len(Reports') = Len(Reports) + 1
    BY <2>1, <2>2, Reporting
  <2>4. QED
    BY <1>2, <2>3, Advanced DEF WalkBrokenLink
<1>3. CASE WalkDirectory
  <2> DEFINE r == Found(Entry)
             d == Resolve(Entry)
  <2>1. todo # <<>> /\ d \in Node /\ r \in Finding /\ r.entry = Entry
    BY <1>3, Walking DEF WalkDirectory, AtDirectory, Finding, Found
  <2>2. visited' = visited \cup {d} /\ UNCHANGED addedOrModified
    BY <1>3 DEF WalkDirectory
  <2>3. CASE Advance /\ UNCHANGED inaccessibleFiles
    <3>1. Reported' = Reported /\ Reports' = Reports
      BY <2>2, <2>3, NoReport
    <3>2. QED
      BY <2>1, <2>2, <2>3, <3>1, Advanced
  <2>4. CASE Advance /\ OneMore(inaccessibleFiles, r)
    <3> HIDE DEF r
    <3>1. /\ Reported' = Reported \cup {Entry}
          /\ Len(Reports') = Len(Reports) + 1
      BY <2>1, <2>2, <2>4, Reporting
    <3>2. QED
      BY <2>1, <2>2, <2>4, <3>1, Advanced
  <2>5. CASE /\ d \notin fs.closed \cup visited
             /\ todo' = Entries(d) \o Tail(todo)
             /\ UNCHANGED inaccessibleFiles
    <3>1. Reported' = Reported /\ Reports' = Reports
      BY <2>2, <2>5, NoReport
    <3> HIDE DEF d
    <3>2. QED
      BY <2>1, <2>2, <2>5, <3>1, Entered
  <2>6. QED
    BY <1>3, <2>3, <2>4, <2>5 DEF WalkDirectory, OneMore
<1>4. CASE WalkFile
  <2>1. todo # <<>> /\ Entry \in Node
    BY <1>4, Walking DEF WalkFile, AtFile
  <2>2. PICK r \in Finding :
          /\ r.entry = Entry
          /\ \/ OneMore(addedOrModified, r) /\ UNCHANGED inaccessibleFiles
             \/ OneMore(inaccessibleFiles, r) /\ UNCHANGED addedOrModified
    <3>1. Found(Entry) \in Finding /\ Found(Entry).entry = Entry
      BY <2>1 DEF Found, Finding
    <3> DEFINE r == [entry |-> Entry,
                     executable |-> fs.kind[Resolve(Entry)] = "exec"]
    <3>2. r \in Finding /\ r.entry = Entry
      BY <2>1 DEF Finding
    <3>3. QED
      BY <1>4, <3>1, <3>2 DEF WalkFile, OneMore
  <2>3. /\ Reported' = Reported \cup {Entry}
        /\ Len(Reports') = Len(Reports) + 1
    BY <2>2, Reporting
  <2>4. QED
    BY <1>4, <2>1, <2>3, Advanced DEF WalkFile
<1>5. CASE Return \/ UNCHANGED vars
  <2>1. /\ UNCHANGED <<fs, start, todo, visited>>
        /\ Reported' = Reported /\ Reports' = Reports
    BY <1>5, NoReport DEF Return, vars
  <2>2. QED
    BY <2>1 DEF OnceInv, Came, Listed
<1>6. QED
  BY <1>1, <1>2, <1>3, <1>4, <1>5 DEF Next, Step, Done

\* The walk goes on: the entry it leaves is dealt with, and the entries of a
\* directory that is listed now are left to walk.
LEMMA Onward ==
  ASSUME TypeInv, WalkInv, [Next]_vars,
         ToSet(todo) \subseteq {Entry} \cup ToSet(todo'),
         Reported \subseteq Reported', visited \subseteq visited',
         \A n : n = Entry => n \in fs.closed \/ Walked(n)',
         Entry = start => start \in fs.closed \/ DiffDir \in visited',
         \A n \in Node : /\ fs.parent[n] # n /\ ~Listed(fs.parent[n])
                         /\ fs.parent[n] \in visited' \ fs.closed
                         => n \in ToSet(todo')
  PROVE  WalkInv'
<1>1. fs' = fs /\ start' = start /\ \A n : Resolve(n)' = Resolve(n)
  BY Static
<1>2. \A n : Walked(n) => Walked(n)'
  BY <1>1 DEF Walked
<1>3. ASSUME NEW n \in Node, fs.parent[n] # n,
             fs.parent[n] \in visited' \ fs.closed
      PROVE  n \in fs.closed \/ n \in ToSet(todo') \/ Walked(n)'
  <2>1. CASE Listed(fs.parent[n])
    <3>1. n \in fs.closed \/ n \in ToSet(todo) \/ Walked(n)
      BY <1>3, <2>1 DEF WalkInv
    <3>2. QED
      BY <1>2, <3>1
  <2>2. CASE ~Listed(fs.parent[n])
    BY <1>3, <2>2
  <2>3. QED
    BY <2>1, <2>2
<1>4. start \in fs.closed \/ start \in ToSet(todo') \/ DiffDir \in visited'
  BY DEF WalkInv
<1>5. QED
  BY <1>1, <1>3, <1>4 DEF WalkInv, Listed

LEMMA NextWalkInv ==
  ASSUME TypeInv, WalkInv, [Next]_vars
  PROVE  WalkInv'
<1>1. /\ fs' = fs /\ start' = start /\ \A n : Resolve(n)' = Resolve(n)
      /\ Resolve(start) = DiffDir /\ fs.kind[DiffDir] = "dir"
  BY Static, FileSystemAssumption DEF TypeInv
<1>2. CASE WalkUnreadable
  <2>1. /\ ToSet(todo) = {Entry} \cup ToSet(todo') /\ Entry \in fs.closed
        /\ visited' = visited
    BY <1>2, Walking DEF WalkUnreadable, Advance
  <2>2. Reported' = Reported
    BY <1>2, NoReport DEF WalkUnreadable
  <2>3. QED
    BY <2>1, <2>2, Onward DEF Listed
<1>3. CASE WalkBrokenLink
  <2> DEFINE r == Found(Entry)
  <2>1. /\ ToSet(todo) = {Entry} \cup ToSet(todo') /\ visited' = visited
        /\ r \in Finding /\ r.entry = Entry
    BY <1>3, Walking DEF WalkBrokenLink, Advance, Finding, Found
  <2>2. OneMore(inaccessibleFiles, r) /\ UNCHANGED addedOrModified
    BY <1>3 DEF WalkBrokenLink, OneMore
  <2>3. Reported' = Reported \cup {Entry}
    <3> HIDE DEF r
    <3> QED
      BY <2>1, <2>2, Reporting
  <2>4. fs.kind[Entry] # "dir" /\ fs.kind[Resolve(Entry)] # "dir"
    BY <1>3 DEF WalkBrokenLink, Unreachable
  <2>5. \A n : n = Entry => Walked(n)'
    BY <1>1, <2>3, <2>4 DEF Walked
  <2>6. Entry # start
    BY <1>1, <2>4
  <2>7. QED
    BY <2>1, <2>3, <2>5, <2>6, Onward DEF Listed
<1>4. CASE WalkDirectory
  <2> DEFINE r == Found(Entry)
             d == Resolve(Entry)
  <2>1. /\ todo # <<>> /\ d \in Node /\ fs.kind[d] = "dir"
        /\ visited' = visited \cup {d} /\ UNCHANGED addedOrModified
        /\ r \in Finding /\ r.entry = Entry
        /\ fs.kind[Entry] = "dir" => d = Entry
    BY <1>4, Walking DEF WalkDirectory, AtDirectory, Finding, Found
  <2>2. /\ ToSet(todo) = {Entry} \cup ToSet(Tail(todo))
        /\ Tail(todo) \in Seq(Node)
    BY <2>1, Walking
  <2>3. Reported \subseteq Reported'
    <3>1. CASE UNCHANGED inaccessibleFiles
      BY <2>1, <3>1, NoReport
    <3>2. CASE OneMore(inaccessibleFiles, r)
      <4> HIDE DEF r
      <4> QED
        BY <2>1, <3>2, Reporting
    <3>3. QED
      BY <1>4, <3>1, <3>2 DEF WalkDirectory, OneMore
  <2>4. \A n : n = Entry => Walked(n)'
    BY <1>1, <2>1 DEF Walked
  <2>5. Entry = start => DiffDir \in visited'
    BY <1>1, <2>1
  <2>6. /\ ToSet(todo) \subseteq {Entry} \cup ToSet(todo')
        /\ \A n \in Node : /\ fs.parent[n] # n /\ ~Listed(fs.parent[n])
                           /\ fs.parent[n] \in visited' \ fs.closed
                           => n \in ToSet(todo')
    <3>1. CASE Advance /\ d \in visited \cup fs.closed
      BY <2>1, <2>2, <3>1 DEF Advance, Listed
    <3>2. CASE todo' = Entries(d) \o Tail(todo)
      <4>1. /\ Entries(d) \in Seq(Node)
            /\ ToSet(Entries(d)) = {n \in Node : fs.parent[n] = d /\ n # d}
        BY <2>1, EntriesAre DEF TypeInv
      <4>2. ToSet(todo') = ToSet(Entries(d)) \cup ToSet(Tail(todo))
        <5> DEFINE s == Entries(d)
                   t == Tail(todo)
        <5>1. s \in Seq(Node) /\ t \in Seq(Node) /\ todo' = s \o t
          BY <2>2, <3>2, <4>1
        <5> HIDE DEF s, t
        <5>2. ToSet(todo') = ToSet(s) \cup ToSet(t)
          BY <5>1, ConcatAdds
        <5>3. QED
          BY <5>2 DEF s, t
      <4> HIDE DEF d
      <4>3. \A n \in Node : /\ fs.parent[n] # n /\ ~Listed(fs.parent[n])
                            /\ fs.parent[n] \in visited' \ fs.closed
                            => n \in ToSet(Entries(d))
        BY <2>1, <4>1 DEF Listed
      <4>4. QED
        BY <2>2, <4>2, <4>3
    <3>3. QED
      BY <1>4, <3>1, <3>2 DEF WalkDirectory
  <2>7. visited \subseteq visited'
    BY <2>1
  <2> HIDE DEF r, d
  <2>8. QED
    BY <2>3, <2>4, <2>5, <2>6, <2>7, Onward
<1>5. CASE WalkFile
  <2>1. /\ ToSet(todo) = {Entry} \cup ToSet(todo') /\ visited' = visited
        /\ Entry \in Node
        /\ fs.kind[Entry] # "link" => Resolve(Entry) = Entry
    BY <1>5, Walking DEF WalkFile, AtFile, Advance
  <2>2. PICK r \in Finding :
          /\ r.entry = Entry
          /\ \/ OneMore(addedOrModified, r) /\ UNCHANGED inaccessibleFiles
             \/ OneMore(inaccessibleFiles, r) /\ UNCHANGED addedOrModified
    <3>1. Found(Entry) \in Finding /\ Found(Entry).entry = Entry
      BY <2>1 DEF Found, Finding
    <3> DEFINE r == [entry |-> Entry,
                     executable |-> fs.kind[Resolve(Entry)] = "exec"]
    <3>2. r \in Finding /\ r.entry = Entry
      BY <2>1 DEF Finding
    <3>3. QED
      BY <1>5, <3>1, <3>2 DEF WalkFile, OneMore
  <2>3. Reported' = Reported \cup {Entry}
    BY <2>2, Reporting
  <2>4. fs.kind[Entry] # "dir" /\ fs.kind[Resolve(Entry)] # "dir"
    BY <1>5, <2>1 DEF WalkFile, AtFile
  <2>5. \A n : n = Entry => Walked(n)'
    BY <1>1, <2>3, <2>4 DEF Walked
  <2>6. Entry # start
    BY <1>1, <2>4
  <2>7. QED
    BY <2>1, <2>3, <2>5, <2>6, Onward DEF Listed
<1>6. CASE Return \/ UNCHANGED vars
  <2>1. UNCHANGED <<fs, start, todo, visited>> /\ Reported' = Reported
    BY <1>6, NoReport DEF Return, vars
  <2>2. \A n : Walked(n) => Walked(n)'
    BY <1>1, <2>1 DEF Walked
  <2>3. QED
    BY <2>1, <2>2 DEF WalkInv, Listed
<1>7. QED
  BY <1>2, <1>3, <1>4, <1>5, <1>6 DEF Next, Step, Done

-----------------------------------------------------------------------------
\* The headings

Changed(r) ==
  /\ fs.kind[Resolve(r.entry)] \in {"file", "exec"}
  /\ Resolve(r.entry) \notin fs.closed
  /\ r.executable <=> fs.kind[Resolve(r.entry)] = "exec"

Lost(r) ==
  \/ fs.kind[Resolve(r.entry)] \in {"whiteout", "link"}
  \/ Resolve(r.entry) \in fs.closed

LEMMA NextWellClassified ==
  ASSUME TypeInv, WellClassified, [Next]_vars
  PROVE  WellClassified'
<1>1. fs' = fs /\ \A n : Resolve(n)' = Resolve(n)
  BY Static
<1>2. /\ \A r : Changed(r)' <=> Changed(r)
      /\ \A r : Lost(r)' <=> Lost(r)
  BY <1>1 DEF Changed, Lost
<1>3. /\ \A r \in ToSet(addedOrModified) : Changed(r)
      /\ \A r \in ToSet(inaccessibleFiles) : Lost(r)
  BY DEF WellClassified, Changed, Lost
<1>4. SUFFICES /\ \A r \in ToSet(addedOrModified') : Changed(r)
               /\ \A r \in ToSet(inaccessibleFiles') : Lost(r)
  BY <1>2 DEF WellClassified, Changed, Lost
<1>5. /\ addedOrModified \in Seq(Finding) /\ inaccessibleFiles \in Seq(Finding)
  BY DEF TypeInv
<1>6. ASSUME NEW r \in Finding, Lost(r), OneMore(inaccessibleFiles, r)
      PROVE  \A q \in ToSet(inaccessibleFiles') : Lost(q)
  <2>1. ToSet(inaccessibleFiles') = ToSet(inaccessibleFiles) \cup {r}
    BY <1>5, <1>6, AppendAdds DEF OneMore
  <2>2. QED
    BY <1>3, <1>6, <2>1
<1>7. CASE WalkBrokenLink
  <2> DEFINE r == Found(Entry)
  <2>1. /\ r \in Finding /\ r.entry = Entry
        /\ Resolve(Entry) \in Node
        /\ Unreachable(Resolve(Entry)) /\ UNCHANGED addedOrModified
        /\ OneMore(inaccessibleFiles, r)
    BY <1>7, Walking DEF WalkBrokenLink, Finding, Found, OneMore
  <2>2. Lost(r)
    BY <2>1 DEF Lost, Unreachable
  <2> HIDE DEF r
  <2>3. QED
    BY <1>3, <1>6, <2>1, <2>2
<1>8. CASE WalkDirectory
  <2> DEFINE r == Found(Entry)
  <2>1. /\ r \in Finding /\ r.entry = Entry /\ UNCHANGED addedOrModified
    BY <1>8, Walking DEF WalkDirectory, AtDirectory, Finding, Found
  <2>2. CASE UNCHANGED inaccessibleFiles
    BY <1>3, <2>1, <2>2
  <2>3. CASE Resolve(Entry) \in fs.closed /\ OneMore(inaccessibleFiles, r)
    <3>1. Lost(r)
      BY <2>1, <2>3 DEF Lost
    <3> HIDE DEF r
    <3>2. QED
      BY <1>3, <1>6, <2>1, <2>3, <3>1
  <2>4. QED
    BY <1>8, <2>2, <2>3 DEF WalkDirectory, OneMore
<1>9. CASE WalkFile
  <2>1. todo # <<>> /\ Entry \in Node /\ Resolve(Entry) \notin fs.closed
    BY <1>9, Walking DEF WalkFile, AtFile
  <2>2. CASE /\ fs.kind[Resolve(Entry)] = "whiteout"
             /\ OneMore(inaccessibleFiles, Found(Entry))
             /\ UNCHANGED addedOrModified
    <3> DEFINE r == Found(Entry)
    <3>1. r \in Finding /\ r.entry = Entry
      BY <2>1 DEF Finding, Found
    <3>2. Lost(r)
      BY <2>2, <3>1 DEF Lost
    <3>3. OneMore(inaccessibleFiles, r)
      BY <2>2
    <3> HIDE DEF r
    <3>4. QED
      BY <1>3, <1>6, <2>2, <3>1, <3>2, <3>3
  <2> DEFINE q == [entry |-> Entry,
                   executable |-> fs.kind[Resolve(Entry)] = "exec"]
  <2>3. CASE /\ fs.kind[Resolve(Entry)] # "whiteout"
             /\ OneMore(addedOrModified, q)
             /\ UNCHANGED inaccessibleFiles
    <3>1. /\ q \in Finding /\ q.entry = Entry
          /\ q.executable <=> fs.kind[Resolve(Entry)] = "exec"
      BY <2>1 DEF Finding
    <3>2. fs.kind[Resolve(Entry)] \in {"file", "exec"}
      BY <1>9, <2>3 DEF WalkFile, AtFile
    <3>3. OneMore(addedOrModified, q) /\ UNCHANGED inaccessibleFiles
      BY <2>3
    <3> HIDE DEF q
    <3>4. Changed(q)
      BY <2>1, <3>1, <3>2 DEF Changed
    <3>5. ToSet(addedOrModified') = ToSet(addedOrModified) \cup {q}
      BY <1>5, <3>1, <3>3, AppendAdds DEF OneMore
    <3>6. QED
      BY <1>3, <3>3, <3>4, <3>5
  <2>4. QED
    BY <1>9, <2>2, <2>3 DEF WalkFile, OneMore
<1>10. CASE WalkUnreadable \/ Return \/ UNCHANGED vars
  BY <1>3, <1>10 DEF WalkUnreadable, Return, vars
<1>11. QED
  BY <1>7, <1>8, <1>9, <1>10 DEF Next, Step, Done

-----------------------------------------------------------------------------
\* The invariant

LEMMA Starting ==
  ASSUME Init
  PROVE  IInv
<1> USE DEF Init
<1>1. start \in Node /\ todo = <<start>>
  OBVIOUS
<1>2. todo \in Seq(Node) /\ ToSet(todo) = {start} /\ IsInjective(todo)
  BY <1>1 DEF ToSet, IsInjective
<1>3. addedOrModified \in Seq(Finding) /\ inaccessibleFiles \in Seq(Finding)
  OBVIOUS
<1>4. Reports = <<>> /\ Reported = {}
  BY DEF Reports, Reported, ToSet
<1>5. TypeInv
  BY <1>2, <1>3 DEF TypeInv
<1>6. OnceInv
  <2>1. IsFiniteSet(Reported) /\ Cardinality(Reported) = 0 /\ Len(Reports) = 0
    BY <1>4, FS_EmptySet
  <2>2. QED
    BY <1>2, <1>4, <2>1 DEF OnceInv, Came
<1>7. WalkInv
  BY <1>2 DEF WalkInv, Listed
<1>8. WellClassified
  BY NothingIn DEF WellClassified
<1>9. QED
  BY <1>5, <1>6, <1>7, <1>8 DEF IInv

LEMMA Invariant == Spec => []IInv
<1>1. Init => IInv
  BY Starting
<1>2. IInv /\ [Next]_vars => IInv'
  BY NextTypeInv, NextOnceInv, NextWalkInv, NextWellClassified DEF IInv
<1>3. QED
  BY <1>1, <1>2, PTL DEF Spec

\* Down from the upper directory, through directories that can be read, the
\* walk has come everywhere when it is over.
LEMMA Everywhere ==
  ASSUME IInv, todo = <<>>, start \notin fs.closed, NEW n \in Node,
         Inside(n), Above(n) \cap fs.closed = {}
  PROVE  Walked(n)
<1> DEFINE K == Cardinality(Node)
           up == Follow(fs.parent, n)
<1>1. K \in Nat
  BY FileSystemAssumption, FS_CardinalityType
<1>2. fs \in FileSystems /\ fs.parent \in Maps(Node)
  BY FileSystemAssumption DEF IInv, TypeInv, Maps
<1>3. /\ up \in [0..K -> Node] /\ up[0] = n
      /\ \A i \in 0..K : i # 0 => up[i] = fs.parent[up[i - 1]]
  BY <1>2, Following DEF IsIterate
<1>4. PICK k \in 0..K : up[k] = DiffDir
  BY DEF Inside, Above
<1>5. \A i \in 0..K : up[i] \notin fs.closed
  BY DEF Above
<1> HIDE DEF K, up
<1>6. Walked(DiffDir)
  <2>1. DiffDir \in visited
    BY NothingIn DEF IInv, WalkInv
  <2>2. DiffDir \in Node /\ fs.kind[DiffDir] = "dir"
    BY <1>2, FileSystemAssumption
  <2>3. Resolve(DiffDir) = DiffDir
    BY <1>2, <2>2, Resolved
  <2>4. QED
    BY <2>1, <2>2, <2>3 DEF Walked
<1> DEFINE P == {i \in Nat : i <= k => Walked(up[k - i])}
<1>7. 0 \in P
  BY <1>1, <1>4, <1>6
<1>8. ASSUME NEW i \in Nat, i \in P PROVE i + 1 \in P
  <2> SUFFICES ASSUME i + 1 <= k PROVE Walked(up[k - (i + 1)])
    OBVIOUS
  <2> DEFINE j == k - (i + 1)
  <2>1. j \in 0..K /\ j + 1 \in 0..K /\ j + 1 # 0 /\ (j + 1) - 1 = j
        /\ k - i = j + 1 /\ i <= k
    BY <1>1, <1>4
  <2>2. Walked(up[j + 1])
    BY <1>8, <2>1
  <2> HIDE DEF j
  <2>3. up[j + 1] = fs.parent[up[j]] /\ up[j] \in Node
    BY <1>3, <2>1
  <2>4. Walked(up[j])
    <3> DEFINE x == up[j]
    <3>1. /\ x \in Node /\ Walked(fs.parent[x])
          /\ x \notin fs.closed /\ fs.parent[x] \notin fs.closed
      BY <1>5, <2>1, <2>2, <2>3
    <3> HIDE DEF x
    <3>2. CASE fs.parent[x] = x
      BY <3>1, <3>2 DEF x
    <3>3. CASE fs.parent[x] # x
      <4>1. fs.kind[fs.parent[x]] = "dir"
        BY <1>2, <3>1, <3>3, FileSystemAssumption
      <4>2. Listed(fs.parent[x])
        BY <3>1, <4>1 DEF Walked, Listed
      <4>3. x \in ToSet(todo) \/ Walked(x)
        BY <3>1, <3>3, <4>2 DEF IInv, WalkInv
      <4>4. QED
        BY <4>3, NothingIn DEF x
    <3>4. QED
      BY <3>2, <3>3
  <2>5. QED
    BY <2>4 DEF j
<1>9. Nat \subseteq P
  <2> HIDE DEF P
  <2> QED
    BY <1>7, <1>8, Induction
<1>10. k \in Nat /\ k <= k /\ k - k = 0
  BY <1>1, <1>4
<1>11. Walked(up[0])
  BY <1>9, <1>10
<1>12. QED
  BY <1>3, <1>11

-----------------------------------------------------------------------------
\* The state keeps its types: only real directories are entered, and what is
\* reported are entries (fileinfo.go:117-205).
THEOREM TypeCorrect == Spec => []TypeOK
<1>1. IInv => TypeOK
  <2> SUFFICES ASSUME IInv PROVE TypeOK
    OBVIOUS
  <2>1. addedOrModified \in Seq(Finding) /\ inaccessibleFiles \in Seq(Finding)
    BY DEF IInv, TypeInv
  <2>2. Reports \in Seq(Finding)
    BY <2>1, ConcatProperties DEF Reports
  <2>3. ToSet(Reports) \subseteq Finding
    BY <2>2, ElementsOf
  <2>4. QED
    BY <2>3 DEF TypeOK, IInv, TypeInv, Finding
<1>2. QED
  BY Invariant, <1>1, PTL

\* No entry is reported twice, however many links lead to its directory, and
\* when the scan returns each file of an upper directory that can be read has
\* been (fileinfo.go:137-147).
THEOREM ReportedOnce == Spec => []ReportedExactlyOnce
<1>1. IInv => ReportedExactlyOnce
  <2> SUFFICES ASSUME IInv PROVE ReportedExactlyOnce
    OBVIOUS
  <2>1. Cardinality(Reported) = Len(Reports)
    BY DEF IInv, OnceInv
  <2>2. ASSUME returned, start \notin fs.closed, NEW n \in Node, Inside(n),
               Above(n) \cap fs.closed = {}, fs.kind[Resolve(n)] # "dir"
        PROVE  n \in Reported
    <3>1. todo = <<>>
      BY <2>2 DEF IInv, TypeInv
    <3>2. Walked(n)
      BY <2>2, <3>1, Everywhere
    <3>3. QED
      BY <2>2, <3>2 DEF Walked
  <2>3. QED
    BY <2>1, <2>2 DEF ReportedExactlyOnce
<1>2. QED
  BY Invariant, <1>1, PTL

\* Deletions and what cannot be read are told from changes, by what a link
\* leads to and not by the link (fileinfo.go:181-200).
THEOREM Classified == Spec => []WellClassified
<1>1. IInv => WellClassified
  BY DEF IInv
<1>2. QED
  BY Invariant, <1>1, PTL
=============================================================================
