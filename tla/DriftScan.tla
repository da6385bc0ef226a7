------------------------------ MODULE DriftScan ------------------------------
(***************************************************************************)
(* explorers.ScanDiffDirectory: the walk over the upper directory of a     *)
(* container that ContainerDrift reports.  Directories are entered through *)
(* symbolic links too, so the walk is over a graph with cycles, and links  *)
(* lead out of the directory; visited, keyed by the real path, ends it.    *)
(*                                                                         *)
(* A file system is the record fs:                                         *)
(*   kind    [Node -> Kind], where "whiteout" is the 0/0 character device  *)
(*           that marks a deleted file                                     *)
(*   parent  [Node -> Node], the directory an entry is in (a root's is     *)
(*           itself); order, the nodes in name order                       *)
(*   target  [Node -> Node], what a link names; itself when that is missing*)
(*           and for a node that is no link                                *)
(*   closed  directories that cannot be listed, and files that cannot be   *)
(*           stat'ed                                                       *)
(***************************************************************************)
EXTENDS FiniteSets, SequencesExt, Functions, Selection

CONSTANTS
  Node,
  DiffDir,                \* the real upper directory
  FileSystems             \* the file systems a run may meet

VARIABLES
  fs, start,              \* the path given: DiffDir or a link to it
  todo,                   \* the recursion: entries still to walk, in order
  visited,                \* real directories entered
  addedOrModified, inaccessibleFiles,    \* the results, [entry, executable]
  returned

vars == <<fs, start, todo, visited, addedOrModified, inaccessibleFiles,
          returned>>

Kind == {"dir", "file", "exec", "whiteout", "link"}

\* A directory is real, has its entries in one order, and what is no link
\* names itself.
ASSUME FileSystemAssumption ==
  /\ IsFiniteSet(Node) /\ DiffDir \in Node
  /\ \A f \in FileSystems :
       /\ f.kind \in [Node -> Kind] /\ f.kind[DiffDir] = "dir"
       /\ f.parent \in [Node -> Node] /\ f.target \in [Node -> Node]
       /\ f.order \in Seq(Node) /\ IsInjective(f.order)
       /\ \A n \in Node :
            /\ f.parent[n] # n => /\ n \in ToSet(f.order)
                                  /\ f.kind[f.parent[n]] = "dir"
            /\ f.kind[n] # "link" => f.target[n] = n

\* os.ReadDir, sorted by name.
Entries(d) == Only(fs.order, {n \in Node : fs.parent[n] = d /\ n # d})

\* From a node on, one step after the other, as far as there are nodes.
Follow(step, n) ==
  LET at[i \in 0..Cardinality(Node)] == IF i = 0 THEN n ELSE step[at[i - 1]]
  IN  at

\* What os.Stat follows an entry to; a link when the chain is broken.
Resolve(n) == Follow(fs.target, n)[Cardinality(Node)]

-----------------------------------------------------------------------------
Init ==
  /\ fs \in FileSystems
  /\ start \in {n \in Node : Resolve(n) = DiffDir /\ fs.parent[n] = n}
  /\ todo = <<start>>
  /\ visited = {} /\ addedOrModified = <<>> /\ inaccessibleFiles = <<>>
  /\ returned = FALSE

Entry == Head(todo)
Advance == todo' = Tail(todo)
Found(n) == [entry |-> n, executable |-> FALSE]

\* Lstat fails: nothing is reported.
WalkUnreadable ==
  /\ todo # <<>> /\ fs.kind[Entry] # "dir" /\ Entry \in fs.closed
  /\ Advance
  /\ UNCHANGED <<fs, start, visited, addedOrModified, inaccessibleFiles,
                 returned>>

\* Stat of the target fails: a broken link, a loop of links, a bad inode.
Unreachable(n) ==
  fs.kind[n] = "link" \/ (fs.kind[n] # "dir" /\ n \in fs.closed)

WalkBrokenLink ==
  /\ todo # <<>> /\ fs.kind[Entry] = "link" /\ Entry \notin fs.closed
  /\ Unreachable(Resolve(Entry))
  /\ inaccessibleFiles' = Append(inaccessibleFiles, Found(Entry))
  /\ Advance
  /\ UNCHANGED <<fs, start, visited, addedOrModified, returned>>

\* A directory, or a link to one.
AtDirectory ==
  /\ todo # <<>> /\ fs.kind[Resolve(Entry)] = "dir"
  /\ fs.kind[Entry] = "dir" \/ Entry \notin fs.closed

\* Mutant: directories are told apart by the path that led to them.
WalkDirectoryByPath ==
  /\ AtDirectory
  /\ visited' = visited \cup {Entry}
  /\ todo' = IF Entry \in visited THEN Tail(todo)
             ELSE Entries(Resolve(Entry)) \o Tail(todo)
  /\ UNCHANGED <<fs, start, addedOrModified, inaccessibleFiles, returned>>

\* Mutant: a directory that is met again ends the walk.
WalkDirectorySkipsTail ==
  /\ AtDirectory
  /\ visited' = visited \cup {Resolve(Entry)}
  /\ todo' = IF Resolve(Entry) \in visited THEN <<>>
             ELSE Entries(Resolve(Entry)) \o Tail(todo)
  /\ UNCHANGED <<fs, start, addedOrModified, inaccessibleFiles, returned>>

\* Mutant: a directory that cannot be listed is tried again.
WalkDirectoryRetries ==
  /\ AtDirectory
  /\ visited' = visited \cup {Resolve(Entry)}
  /\ todo' = IF Resolve(Entry) \in fs.closed THEN todo
             ELSE IF Resolve(Entry) \in visited THEN Tail(todo)
             ELSE Entries(Resolve(Entry)) \o Tail(todo)
  /\ UNCHANGED <<fs, start, addedOrModified, inaccessibleFiles, returned>>

WalkDirectory ==
  /\ AtDirectory
  /\ visited' = visited \cup {Resolve(Entry)}
  /\ \/ /\ Resolve(Entry) \in visited
        /\ Advance /\ UNCHANGED inaccessibleFiles
     \/ /\ Resolve(Entry) \in fs.closed \ visited
        /\ inaccessibleFiles' = Append(inaccessibleFiles, Found(Entry))
        /\ Advance
     \/ /\ Resolve(Entry) \notin fs.closed \cup visited
        /\ todo' = Entries(Resolve(Entry)) \o Tail(todo)
        /\ UNCHANGED inaccessibleFiles
  /\ UNCHANGED <<fs, start, addedOrModified, returned>>

\* Any other file, under the name of the entry that led to it.
AtFile ==
  /\ todo # <<>> /\ Entry \notin fs.closed /\ Resolve(Entry) \notin fs.closed
  /\ fs.kind[Resolve(Entry)] \in {"file", "exec", "whiteout"}

\* Mutant: the kind is that of the entry, not of what the link names.
WalkFileUnresolved ==
  /\ AtFile
  /\ \/ /\ fs.kind[Entry] = "whiteout"
        /\ inaccessibleFiles' = Append(inaccessibleFiles, Found(Entry))
        /\ UNCHANGED addedOrModified
     \/ /\ fs.kind[Entry] # "whiteout"
        /\ addedOrModified' = Append(addedOrModified,
             [entry |-> Entry, executable |-> fs.kind[Entry] = "exec"])
        /\ UNCHANGED inaccessibleFiles
  /\ Advance
  /\ UNCHANGED <<fs, start, visited, returned>>

WalkFile ==
  /\ AtFile
  /\ \/ /\ fs.kind[Resolve(Entry)] = "whiteout"
        /\ inaccessibleFiles' = Append(inaccessibleFiles, Found(Entry))
        /\ UNCHANGED addedOrModified
     \/ /\ fs.kind[Resolve(Entry)] # "whiteout"
        /\ addedOrModified' = Append(addedOrModified,
             [entry |-> Entry,
              executable |-> fs.kind[Resolve(Entry)] = "exec"])
        /\ UNCHANGED inaccessibleFiles
  /\ Advance
  /\ UNCHANGED <<fs, start, visited, returned>>

Return ==
  /\ todo = <<>> /\ ~returned
  /\ returned' = TRUE
  /\ UNCHANGED <<fs, start, todo, visited, addedOrModified, inaccessibleFiles>>

Done == returned /\ UNCHANGED vars

Step == WalkUnreadable \/ WalkBrokenLink \/ WalkDirectory \/ WalkFile \/ Return

Next == Step \/ Done

\* One thread walks; hashing a file is taken to end.
Spec == Init /\ [][Next]_vars /\ WF_vars(Step)

-----------------------------------------------------------------------------
Reports == addedOrModified \o inaccessibleFiles
Reported == {r.entry : r \in ToSet(Reports)}

\* The directories above a node, and itself, up to its root.
Above(n) ==
  LET up == Follow(fs.parent, n)
  IN  {up[i] : i \in 0..Cardinality(Node)}

Inside(n) == DiffDir \in Above(n)

TypeOK ==
  /\ start \in Node /\ todo \in Seq(Node)
  /\ visited \subseteq {n \in Node : fs.kind[n] = "dir"}
  /\ \A r \in ToSet(Reports) : r.entry \in Node /\ r.executable \in BOOLEAN
  /\ returned \in BOOLEAN

(***************************************************************************)
(* Each file is reported once: no entry twice, however many links lead to  *)
(* its directory, for visited holds real paths (fileinfo.go:137-147); and  *)
(* every file of the upper directory in the end, when it, the directories  *)
(* above it and the path given can be read, even where a link led to its   *)
(* directory first.                                                        *)
(***************************************************************************)
ReportedExactlyOnce ==
  /\ Cardinality(Reported) = Len(Reports)
  /\ returned /\ start \notin fs.closed =>
       \A n \in Node :
         /\ Inside(n) /\ Above(n) \cap fs.closed = {}
         /\ fs.kind[Resolve(n)] # "dir"
         => n \in Reported

(***************************************************************************)
(* Deletions are told from changes: what is or leads to a whiteout, a      *)
(* broken link and a directory that cannot be listed are inaccessible, any *)
(* other file is added or modified and marked if executable (fileinfo.go:  *)
(* 181-200).                                                               *)
(***************************************************************************)
WellClassified ==
  /\ \A r \in ToSet(addedOrModified) :
       /\ fs.kind[Resolve(r.entry)] \in {"file", "exec"}
       /\ Resolve(r.entry) \notin fs.closed
       /\ r.executable <=> fs.kind[Resolve(r.entry)] = "exec"
  /\ \A r \in ToSet(inaccessibleFiles) :
       \/ fs.kind[Resolve(r.entry)] \in {"whiteout", "link"}
       \/ Resolve(r.entry) \in fs.closed

\* The walk ends on every graph of directories and links.
ScanReturns == <>returned
=============================================================================
