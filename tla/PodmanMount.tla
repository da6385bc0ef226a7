---------------------------- MODULE PodmanMount ----------------------------
(***************************************************************************)
(* explorers/podman: containers of several users, each with a store and a *)
(* containers.json of its own.  The stores are found through the users'    *)
(* home directories and storage.conf.  A container is known by its ID, by  *)
(* the name in containers.json, and by the name in its metadata, which are *)
(* not always the same.  mount looks an ID or name up in all stores, mount *)
(* --all lists the containers and mounts each one by its listed name, and  *)
(* drift goes through the stores itself.                                   *)
(***************************************************************************)
EXTENDS Naturals, SequencesExt, Selection

CONSTANTS
  Evidence,        \* what a run may meet in the image
  Commands         \* the commands: [kind, key], key is "" for all containers

(***************************************************************************)
(* Evidence has                                                            *)
(*   users   the lines of passwd: [login, home, conf], whether the line is *)
(*           complete with a login shell, the store below the home         *)
(*           directory, and the one that storage.conf names or ""          *)
(*   system  the store of the system, "" if its options cannot be loaded   *)
(*   stores  for each store: there, whether the directory exists; named,   *)
(*           whether it is called "storage"; readable, whether its         *)
(*           containers.json is; and configs, the entries, in order:       *)
(*     id        unique over all stores                                    *)
(*     name      the first of its names, "" if there is none               *)
(*     metadata  whether its metadata can be parsed                        *)
(*     title     the name in the metadata, "" if it has none               *)
(*     link      whether the link file of its layer can be read            *)
(*     lower     whether the lower file can                                *)
(* A store that is not called "storage" has no neighbour that is.  An entry *)
(* is a pair <<root, position>>, the root a position in roots.             *)
(***************************************************************************)
\* getUserStorageGraphRoot: storage.conf overrides the default.
GraphRoot(u) == IF u.conf # "" THEN u.conf ELSE u.home

\* Lines and entries are listed in an order; evidence tells of the stores
\* that may be looked for.
ASSUME EvidenceAssumption ==
  \A e \in Evidence :
    /\ e.users \in Seq(ToSet(e.users))
    /\ \A u \in ToSet(e.users) : u.login => GraphRoot(u) \in DOMAIN e.stores
    /\ e.system \in DOMAIN e.stores \cup {""}
    /\ \A s \in DOMAIN e.stores :
         e.stores[s].configs \in Seq(ToSet(e.stores[s].configs))

VARIABLES
  ev, command,
  roots,             \* podmanRootDirs, the stores that were found
  pc, todo,          \* the entries, or for mount the key, still to handle
  want,              \* history: the entry the current call is for
  key,               \* what MountContainer is given
  mounts,            \* <<want, entry>>: whose layers were mounted for whom
  scans,             \* the entries whose upper layer was scanned
  failed,            \* history: <<entry, what>>
  result

vars == <<ev, command, roots, pc, todo, want, key, mounts, scans, failed,
          result>>

\* getPodmanRootDirs, with a store twice if it is found twice.
RootDirs ==
  LET users == Only(ev.users, {u \in ToSet(ev.users) : u.login})
      there == {s \in DOMAIN ev.stores : s # "" /\ ev.stores[s].there}
  IN  Only(Append([i \in DOMAIN users |-> GraphRoot(users[i])], ev.system),
           there)

Configs(r) == ev.stores[roots[r]].configs
Entry(e) == Configs(e[1])[e[2]]

\* The entries of one root in order, and those of all roots: the root is the
\* parent of the store, and containers.json is looked for in its
\* subdirectory "storage".
EntriesOf(r) ==
  LET store == ev.stores[roots[r]]
  IN  IF store.readable /\ store.named
      THEN [i \in DOMAIN store.configs |-> <<r, i>>] ELSE <<>>
Entries == FlattenSeq([r \in DOMAIN roots |-> EntriesOf(r)])

\* The name that ListContainers gives an entry.  The metadata of a root are
\* all decoded into one variable, so a missing name is that of the entry
\* before.
Title(e) ==
  LET named == {i \in 1..e[2] : /\ Configs(e[1])[i].metadata
                                /\ Configs(e[1])[i].title # ""}
  IN  IF named = {} THEN "" ELSE Configs(e[1])[Max(named)].title

\* Mutant: a root whose containers.json cannot be read is not skipped.
ListedUnread ==
  FlattenSeq([r \in DOMAIN roots |->
               [i \in DOMAIN Configs(r) |-> <<r, i>>]])

\* ListContainers: entries without metadata are not listed.
Listed == Only(Entries, {e \in ToSet(Entries) : Entry(e).metadata})

\* GetContainerByID: by ID or by the listed name.
Finds(k) == \E e \in ToSet(Listed) : Entry(e).id = k \/ Title(e) = k

\* An entry that a key names, for MountContainer and ContainerDrift.
Names(k, e) == Entry(e).id = k \/ (Entry(e).name # "" /\ Entry(e).name = k)

Init ==
  /\ ev \in Evidence /\ command \in Commands /\ roots = RootDirs
  /\ pc = "list" /\ todo = <<>> /\ want = <<>> /\ key = ""
  /\ mounts = <<>> /\ scans = <<>> /\ failed = {} /\ result = "running"

-----------------------------------------------------------------------------
\* mount <key>: MountContainer, once an explorer has found the key.
ListForOne ==
  /\ pc = "list" /\ command.kind = "mount"
  /\ IF Finds(command.key)
     THEN pc' = "find" /\ key' = command.key /\ UNCHANGED result
     ELSE pc' = "end" /\ result' = "error" /\ UNCHANGED key
  /\ UNCHANGED <<ev, command, roots, todo, want, mounts, scans, failed>>

\* MountAllContainers and ContainerDrift.
ListForAll ==
  /\ pc = "list" /\ command.kind \in {"all", "drift"}
  /\ LET asked == {e \in ToSet(Entries) :
                    command.key = "" \/ Names(command.key, e)}
     IN  todo' = IF command.kind = "all" THEN Listed ELSE Only(Entries, asked)
  /\ pc' = "next"
  /\ UNCHANGED <<ev, command, roots, want, key, mounts, scans, failed, result>>

\* Mutant: a container whose directory cannot be made ends the loop.
NextContainerStops ==
  /\ pc = "next" /\ todo # <<>> /\ command.kind = "all"
  /\ want' = Head(todo)
  /\ \/ /\ pc' = "find" /\ key' = Title(Head(todo)) /\ todo' = Tail(todo)
        /\ UNCHANGED failed
     \/ /\ failed' = failed \cup {<<Head(todo), "mkdir">>} /\ todo' = <<>>
        /\ UNCHANGED <<pc, key>>
  /\ UNCHANGED <<ev, command, roots, mounts, scans, result>>

\* Mutant: the name is a variable of the whole loop, set once.
NextContainerKeepsName ==
  /\ pc = "next" /\ todo # <<>> /\ command.kind = "all"
  /\ want' = Head(todo) /\ todo' = Tail(todo)
  /\ pc' = "find" /\ key' = IF key = "" THEN Title(Head(todo)) ELSE key
  /\ UNCHANGED <<ev, command, roots, mounts, scans, failed, result>>

\* The loop of MountAllContainers: each container is mounted by its name.
NextContainer ==
  /\ pc = "next" /\ todo # <<>> /\ command.kind = "all"
  /\ want' = Head(todo) /\ todo' = Tail(todo)
  /\ \/ pc' = "find" /\ key' = Title(Head(todo)) /\ UNCHANGED failed
     \/ /\ failed' = failed \cup {<<Head(todo), "mkdir">>}
        /\ UNCHANGED <<pc, key>>
  /\ UNCHANGED <<ev, command, roots, mounts, scans, result>>

\* Mutant: failures are only logged.
SucceedAnyway(what) ==
  /\ pc' = "next" /\ UNCHANGED result
  /\ failed' = failed \cup {<<want, what>>}

\* A failure ends mount <key>; the loop logs it and goes on.
Fail(what) ==
  /\ failed' = failed \cup {<<want, what>>}
  /\ IF command.kind = "mount" THEN pc' = "end" /\ result' = "error"
                               ELSE pc' = "next" /\ UNCHANGED result

\* The entry that MountContainer takes: the first one that the key names.
Found ==
  LET i == First(Entries, {e \in ToSet(Entries) : Names(key, e)})
  IN  IF i = 0 THEN <<>> ELSE Entries[i]

\* MountContainer and mountContainer; the mount command may fail.
FindAndMount ==
  /\ pc = "find"
  /\ LET usable == Found # <<>> /\ Entry(Found).link /\ Entry(Found).lower
     IN  \/ /\ usable
            /\ mounts' = Append(mounts, <<want, Found>>)
            /\ pc' = "next" /\ UNCHANGED <<failed, result>>
         \/ usable /\ Fail("mount") /\ UNCHANGED mounts
         \/ Found = <<>> /\ Fail("name") /\ UNCHANGED mounts
         \/ Found # <<>> /\ ~usable /\ Fail("files") /\ UNCHANGED mounts
  /\ UNCHANGED <<ev, command, roots, todo, want, key, scans>>

\* The loop of ContainerDrift, for the entries asked for.
ScanLayer ==
  /\ pc = "next" /\ todo # <<>> /\ command.kind = "drift"
  /\ want' = Head(todo) /\ todo' = Tail(todo)
  /\ \/ /\ Entry(Head(todo)).link
        /\ scans' = Append(scans, Head(todo)) /\ UNCHANGED failed
     \/ /\ \E what \in {"files", "scan"} :
             /\ what = "scan" <=> Entry(Head(todo)).link
             /\ failed' = failed \cup {<<Head(todo), what>>}
        /\ UNCHANGED scans
  /\ UNCHANGED <<ev, command, roots, pc, key, mounts, result>>

Finish ==
  /\ pc = "next" /\ todo = <<>>
  /\ pc' = "end" /\ result' = "ok"
  /\ UNCHANGED <<ev, command, roots, todo, want, key, mounts, scans, failed>>

\* The command has returned.
Done == pc = "end" /\ UNCHANGED vars

Step == \/ ListForOne \/ ListForAll \/ NextContainer \/ FindAndMount
        \/ ScanLayer \/ Finish

Next == Step \/ Done

Spec == Init /\ [][Next]_vars

-----------------------------------------------------------------------------
TypeOK ==
  /\ ev \in Evidence /\ command \in Commands
  /\ ToSet(roots) \subseteq DOMAIN ev.stores
  /\ pc \in {"list", "next", "find", "end"}
  /\ want \in ToSet(Entries) \cup {<<>>}
  /\ ToSet(todo) \subseteq ToSet(Entries)
  /\ \A m \in ToSet(mounts) : m[2] \in ToSet(Entries)
  /\ ToSet(scans) \subseteq ToSet(Entries)
  /\ result \in {"running", "ok", "error"}

(***************************************************************************)
(* "MountContainer mounts podman container for a given ID or name"         *)
(* (podman.go:360): what mount <key> has mounted has that ID or that name, *)
(* and it returns nil only if it has mounted something.                    *)
(***************************************************************************)
KeyIsMounted ==
  command.kind = "mount" =>
    /\ \A m \in ToSet(mounts) :
         Entry(m[2]).id = command.key \/ Entry(m[2]).name = command.key
    /\ result = "ok" => mounts # <<>>

(***************************************************************************)
(* Every container of the system or of a user with a shell gets its turn   *)
(* in mount --all (if it is listed) and in drift: it is mounted or         *)
(* scanned, or fails, whatever happens to the others and to the stores of  *)
(* the other users (podman.go:380-404, 411-468).  A store must be readable *)
(* and be called "storage": the others are skipped with a message.         *)
(***************************************************************************)
Stores ==
  LET found == {GraphRoot(u) : u \in {v \in ToSet(ev.users) : v.login}}
                 \cup {ev.system}
  IN  {s \in found \ {""} : /\ ev.stores[s].there /\ ev.stores[s].readable
                           /\ ev.stores[s].named}

HadItsTurn(c) ==
  \E e \in ToSet(Entries) : Entry(e) = c /\
    \/ \E m \in ToSet(mounts) : m[1] = e
    \/ e \in ToSet(scans)
    \/ \E f \in failed : f[1] = e

EachGetsItsTurn ==
  command.kind \in {"all", "drift"} /\ command.key = "" /\ result = "ok" =>
    \A s \in Stores : \A c \in ToSet(ev.stores[s].configs) :
      command.kind = "drift" \/ c.metadata => HadItsTurn(c)

(***************************************************************************)
(* Where containers have one name each, all different and none of them     *)
(* another's ID, mount --all mounts each container's own layers at its     *)
(* mount point, although it looks them up by name or ID over all stores    *)
(* (podman.go:396, 370).                                                   *)
(***************************************************************************)
NamesAreUnique ==
  /\ \A e \in ToSet(Entries) : Entry(e).metadata => Entry(e).name = Title(e)
  /\ \A e, f \in ToSet(Entries) :
       Entry(e).name \in {Entry(f).name, Entry(f).id} =>
         Entry(e).id = Entry(f).id

OwnUnderUniqueNames ==
  command.kind = "all" /\ mounts # <<>> /\ NamesAreUnique =>
    \A m \in ToSet(mounts) : Entry(m[1]).id = Entry(m[2]).id

(***************************************************************************)
(* The same without that condition: "MountAllContainers mounts all podman  *)
(* containers" (podman.go:379).                                            *)
(***************************************************************************)
OwnLayersMounted ==
  command.kind = "all" =>
    \A m \in ToSet(mounts) : Entry(m[1]).id = Entry(m[2]).id
=============================================================================
