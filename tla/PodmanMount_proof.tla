-------------------------- MODULE PodmanMount_proof --------------------------
(***************************************************************************)
(* The podman explorer, for all stores and every command: mount takes what *)
(* its key names, mount --all and drift leave no container out, and where  *)
(* the names tell containers apart each one's own layers are mounted.      *)
(***************************************************************************)
EXTENDS PodmanMount, SequenceLemmas

All == ToSet(Entries)

\* Where the command is, and what the call under way is for.
CallInv ==
  /\ ev \in Evidence /\ command \in Commands /\ roots = RootDirs
  /\ pc \in {"list", "next", "find", "end"}
  /\ result \in {"running", "ok", "error"}
  /\ pc # "end" => result = "running"
  /\ result = "ok" => todo = <<>>
  /\ todo \in Seq(ToSet(todo)) /\ ToSet(todo) \subseteq All
  /\ want \in All \cup {<<>>}
  /\ command.kind = "mount" => todo = <<>>
  /\ pc = "find" => \/ command.kind = "mount" /\ key = command.key
                    \/ /\ command.kind = "all" /\ want \in All
                       /\ Entry(want).metadata /\ key = Title(want)
  /\ command.kind = "all" => \A e \in ToSet(todo) : Entry(e).metadata

\* What has been mounted is what the key named.
MountInv ==
  /\ mounts \in Seq(ToSet(mounts)) /\ scans \in Seq(ToSet(scans))
  /\ \A m \in ToSet(mounts) : m[2] \in All
  /\ ToSet(scans) \subseteq All
  /\ command.kind = "mount" =>
       /\ \A m \in ToSet(mounts) : Names(command.key, m[2])
       /\ pc = "next" \/ result = "ok" => mounts # <<>>
  /\ command.kind = "all" =>
       \A m \in ToSet(mounts) : /\ m[1] \in All /\ Entry(m[1]).metadata
                                /\ Names(Title(m[1]), m[2])

\* What mount --all and drift are to handle is to do, under way or handled.
Due(e) == IF command.kind = "all" THEN Entry(e).metadata
          ELSE command.key = "" \/ Names(command.key, e)

Handled(e) == \/ \E m \in ToSet(mounts) : m[1] = e
              \/ e \in ToSet(scans)
              \/ \E f \in failed : f[1] = e

TurnInv ==
  command.kind \in {"all", "drift"} /\ pc # "list" =>
    \A e \in All : Due(e) =>
      e \in ToSet(todo) \/ (pc = "find" /\ e = want) \/ Handled(e)

IInv == CallInv /\ MountInv /\ TurnInv

-----------------------------------------------------------------------------
\* The model's operators

\* The roots are the stores that are found and there.
LEMMA RootsFound ==
  ASSUME ev \in Evidence
  PROVE  /\ RootDirs \in Seq(DOMAIN ev.stores)
         /\ \A s \in DOMAIN ev.stores :
              /\ s # "" /\ ev.stores[s].there
              /\ \/ s = ev.system
                 \/ \E u \in ToSet(ev.users) : u.login /\ s = GraphRoot(u)
              => s \in ToSet(RootDirs)
<1> DEFINE D == DOMAIN ev.stores
           U == {u \in ToSet(ev.users) : u.login}
           users == Only(ev.users, U)
           there == {s \in D : s # "" /\ ev.stores[s].there}
           homes == [i \in DOMAIN users |-> GraphRoot(users[i])]
           found == Append(homes, ev.system)
           S == D \cup {""}
<1>1. /\ ev.users \in Seq(ToSet(ev.users)) /\ \A u \in U : GraphRoot(u) \in D
      /\ ev.system \in S
  BY EvidenceAssumption
<1>2. users \in Seq(U) /\ ToSet(users) = U
  <2> HIDE DEF U, users
  <2>1. /\ users \in Seq(ToSet(ev.users))
           /\ ToSet(users) = ToSet(ev.users) \cap U
    BY <1>1, TakenIs DEF users
  <2>2. ToSet(users) = U
    BY <2>1 DEF U
  <2>3. QED
    BY <2>1, <2>2, OfOwn
<1> HIDE DEF U, users
<1>3. /\ homes \in Seq(S)
      /\ ToSet(homes) = {GraphRoot(u) : u \in U}
  <2>1. /\ DOMAIN users = 1..Len(users) /\ Len(users) \in Nat
        /\ \A i \in 1..Len(users) : users[i] \in U
    BY <1>2, LenProperties, ElementOfSeq
  <2>2. DOMAIN homes = 1..Len(users)
        /\ \A i \in 1..Len(users) : homes[i] = GraphRoot(users[i])
    BY <2>1
  <2>3. \A i \in 1..Len(users) : homes[i] \in S
    BY <1>1, <2>1
  <2>4. homes \in [1..Len(users) -> S]
    BY <2>1, <2>3
  <2>5. homes \in Seq(S)
    <3> HIDE DEF S, homes
    <3> QED
      BY <2>1, <2>4, SeqDef
  <2> HIDE DEF homes
  <2>6. ToSet(homes) = {GraphRoot(users[i]) : i \in 1..Len(users)}
    BY <2>2 DEF ToSet
  <2>7. U = {users[i] : i \in 1..Len(users)}
    BY <1>2, <2>1 DEF ToSet
  <2>8. QED
    BY <2>5, <2>6, <2>7
<1> HIDE DEF homes
<1>4. found \in Seq(S) /\ ToSet(found) = ToSet(homes) \cup {ev.system}
  <2> HIDE DEF S
  <2> QED
    BY <1>1, <1>3, AppendAdds
<1>5. RootDirs = Only(found, there)
  BY DEF RootDirs, homes, users, U
<1> HIDE DEF found, there
<1>6. RootDirs \in Seq(S) /\ ToSet(RootDirs) = ToSet(found) \cap there
  <2> HIDE DEF S
  <2> QED
    BY <1>4, <1>5, TakenIs
<1>7. RootDirs \in Seq(D)
  <2> HIDE DEF S, D
  <2>1. ToSet(RootDirs) \subseteq D
    BY <1>6 DEF there
  <2>2. RootDirs \in Seq(ToSet(RootDirs))
    BY <1>6, OfOwn
  <2>3. QED
    BY <2>1, <2>2, SeqMonotonic
<1>8. QED
  BY <1>3, <1>4, <1>6, <1>7 DEF U, there

\* The entries of the roots, and no others.
LEMMA EntriesAre ==
  ASSUME ev \in Evidence, roots = RootDirs
  PROVE  /\ Entries \in Seq(All)
         /\ \A r \in DOMAIN roots : ToSet(EntriesOf(r)) \subseteq All
<1> DEFINE seqs == [r \in DOMAIN roots |-> EntriesOf(r)]
           T == Nat \X Nat
<1>1. /\ DOMAIN roots = 1..Len(roots) /\ Len(roots) \in Nat
      /\ \A r \in 1..Len(roots) : roots[r] \in DOMAIN ev.stores
  BY RootsFound, LenProperties, ElementOfSeq
<1>2. ASSUME NEW r \in 1..Len(roots) PROVE EntriesOf(r) \in Seq(T)
  <2> DEFINE configs == ev.stores[roots[r]].configs
             list == [i \in DOMAIN configs |-> <<r, i>>]
  <2>1. configs \in Seq(ToSet(configs))
    BY <1>1, EvidenceAssumption
  <2>2. DOMAIN configs = 1..Len(configs) /\ Len(configs) \in Nat
    <3> HIDE DEF configs
    <3> QED
      BY <2>1, LenProperties
  <2> HIDE DEF configs
  <2>3. list \in [1..Len(configs) -> T]
    BY <2>2
  <2>4. list \in Seq(T) /\ <<>> \in Seq(T)
    <3> HIDE DEF list, T
    <3> QED
      BY <2>2, <2>3, SeqDef, EmptySeq
  <2>5. EntriesOf(r) = list \/ EntriesOf(r) = <<>>
    BY DEF EntriesOf, configs
  <2>6. QED
    BY <2>4, <2>5
<1>3. seqs \in Seq(Seq(T))
  <2> DEFINE V == Seq(T)
  <2>1. seqs \in [1..Len(roots) -> V]
    BY <1>1, <1>2
  <2> HIDE DEF V, seqs
  <2>2. seqs \in Seq(V)
    BY <1>1, <2>1, SeqDef
  <2>3. QED
    BY <2>2 DEF V
<1>4. /\ DOMAIN seqs = DOMAIN roots
      /\ \A r \in DOMAIN roots : seqs[r] = EntriesOf(r)
  OBVIOUS
<1>5. Entries = FlattenSeq(seqs)
  BY DEF Entries
<1> HIDE DEF seqs
<1>6. /\ Entries \in Seq(T)
      /\ All = UNION {ToSet(seqs[r]) : r \in DOMAIN seqs}
  <2> HIDE DEF T
  <2> QED
    BY <1>3, <1>5, Flattened DEF All
<1>7. Entries \in Seq(All)
  BY <1>6, OfOwn DEF All
<1>8. QED
  BY <1>4, <1>6, <1>7

\* They depend on the evidence alone.
LEMMA Static ==
  ASSUME UNCHANGED <<ev, roots>>
  PROVE  /\ RootDirs' = RootDirs /\ Entries' = Entries /\ All' = All
         /\ Listed' = Listed
         /\ \A e : Entry(e)' = Entry(e) /\ Title(e)' = Title(e)
         /\ \A k, e : Names(k, e)' = Names(k, e)
<1>1. \A r : Configs(r)' = Configs(r) /\ EntriesOf(r)' = EntriesOf(r)
  BY DEF Configs, EntriesOf
<1>2. Entries' = Entries /\ All' = All
  BY DEF Entries, EntriesOf, All
<1>3. \A e : Entry(e)' = Entry(e) /\ Title(e)' = Title(e)
  BY <1>1 DEF Entry, Title
<1>4. Listed' = Listed
  BY <1>2, <1>3 DEF Listed
<1>5. RootDirs' = RootDirs
  BY DEF RootDirs
<1>6. \A k, e : Names(k, e)' = Names(k, e)
  BY <1>3 DEF Names
<1>7. QED
  BY <1>2, <1>3, <1>4, <1>5, <1>6

\* What MountContainer takes is an entry, and the key names it.
LEMMA FoundIsNamed ==
  ASSUME ev \in Evidence, roots = RootDirs, Found # <<>>
  PROVE  Found \in All /\ Names(key, Found)
<1> DEFINE named == {e \in ToSet(Entries) : Names(key, e)}
           i == First(Entries, named)
<1>1. i # 0 /\ Found = Entries[i]
  BY DEF Found
<1>2. i # 0 => Entries[i] \in named
  <2> HIDE DEF named
  <2> QED
    BY EntriesAre, FirstIs
<1>3. QED
  BY <1>1, <1>2, EntriesAre, ElementsOf

\* What is listed, or asked for.
LEMMA TakenOfAll ==
  ASSUME ev \in Evidence, roots = RootDirs, NEW S
  PROVE  /\ Only(Entries, S) \in Seq(ToSet(Only(Entries, S)))
         /\ ToSet(Only(Entries, S)) = All \cap S
<1>1. /\ Only(Entries, S) \in Seq(All)
      /\ ToSet(Only(Entries, S)) = ToSet(Entries) \cap S
  BY EntriesAre, TakenIs
<1>2. QED
  BY <1>1, OfOwn DEF All

-----------------------------------------------------------------------------
\* The steps

\* The list that a command starts with is what it has to handle.
LEMMA ListStep ==
  ASSUME CallInv, ListForAll
  PROVE  /\ UNCHANGED <<ev, command, roots, want, mounts, scans, failed,
            result>>
         /\ pc = "list" /\ pc' = "next" /\ command.kind \in {"all", "drift"}
         /\ todo' \in Seq(ToSet(todo'))
         /\ ToSet(todo') = {e \in All : Due(e)}
<1> DEFINE S == IF command.kind = "all" THEN {e \in All : Entry(e).metadata}
                ELSE {e \in All : command.key = "" \/ Names(command.key, e)}
<1>1. todo' = Only(Entries, S) /\ S = {e \in All : Due(e)}
  BY DEF ListForAll, Listed, All, Due
<1> HIDE DEF S
<1>2. /\ todo' \in Seq(ToSet(todo')) /\ ToSet(todo') = All \cap S
  BY <1>1, TakenOfAll DEF CallInv
<1>3. QED
  BY <1>1, <1>2 DEF ListForAll

\* The next one of the list.
LEMMA NextStep ==
  ASSUME CallInv, NextContainer \/ ScanLayer
  PROVE  /\ UNCHANGED <<ev, command, roots, mounts, result>>
         /\ pc = "next" /\ todo # <<>> /\ command.kind \in {"all", "drift"}
         /\ todo' \in Seq(ToSet(todo')) /\ Head(todo) \in ToSet(todo)
         /\ ToSet(todo) = {Head(todo)} \cup ToSet(todo')
         /\ want' = Head(todo)
<1>1. todo # <<>> /\ todo' = Tail(todo)
  BY DEF NextContainer, ScanLayer
<1>2. QED
  BY <1>1, Dequeued DEF CallInv, NextContainer, ScanLayer

\* Where the command is.
LEMMA CallStep ==
  ASSUME CallInv, [Next]_vars
  PROVE  CallInv'
<1>1. CASE ListForOne
  <2>1. UNCHANGED <<ev, roots>>
    BY <1>1 DEF ListForOne
  <2>2. QED
    BY <1>1, <2>1, Static DEF ListForOne, CallInv
<1>2. CASE ListForAll
  <2>1. UNCHANGED <<ev, roots>>
    BY <1>2 DEF ListForAll
  <2>2. /\ ToSet(todo') \subseteq All
        /\ command.kind = "all" => \A e \in ToSet(todo') : Entry(e).metadata
    BY <1>2, ListStep DEF Due
  <2>3. QED
    BY <1>2, <2>1, <2>2, Static, ListStep DEF CallInv
<1>3. CASE NextContainer
  <2>1. UNCHANGED <<ev, roots>> /\ command.kind = "all"
    BY <1>3 DEF NextContainer
  <2>2. \/ pc' = "find" /\ key' = Title(want')
        \/ pc' = "next"
    BY <1>3, NextStep DEF NextContainer
  <2>3. \A e \in ToSet(todo) : e \in All /\ Entry(e).metadata
    BY <2>1 DEF CallInv
  <2>4. want' \in ToSet(todo) /\ ToSet(todo') \subseteq ToSet(todo)
    BY <1>3, NextStep
  <2>5. Title(want)' = Title(want') /\ Entry(want)' = Entry(want')
    BY <2>1, Static
  <2>6. pc' # "end" /\ result = "running" /\ result' = result
        /\ todo' \in Seq(ToSet(todo')) /\ command' = command
    BY <1>3, <2>2, NextStep DEF CallInv
  <2>7. QED
    BY <2>1, <2>2, <2>3, <2>4, <2>5, <2>6, Static DEF CallInv
<1>4. CASE ScanLayer
  <2>1. UNCHANGED <<ev, roots, pc>> /\ command.kind = "drift"
    BY <1>4 DEF ScanLayer
  <2>2. QED
    BY <1>4, <2>1, Static, NextStep DEF CallInv
<1>5. CASE FindAndMount
  <2>1. UNCHANGED <<ev, roots, command, todo, want>>
    BY <1>5 DEF FindAndMount
  <2>2. \/ pc' = "next" /\ UNCHANGED result
        \/ command.kind = "mount" /\ pc' = "end" /\ result' = "error"
    BY <1>5 DEF FindAndMount, Fail
  <2>3. pc = "find"
    BY <1>5 DEF FindAndMount
  <2>4. QED
    BY <2>1, <2>2, <2>3, Static DEF CallInv
<1>6. CASE Finish
  <2>1. UNCHANGED <<ev, roots>>
    BY <1>6 DEF Finish
  <2>2. QED
    BY <1>6, <2>1, Static DEF Finish, CallInv
<1>7. CASE UNCHANGED vars
  <2>1. UNCHANGED <<ev, roots>>
    BY <1>7 DEF vars
  <2>2. QED
    BY <1>7, <2>1, Static DEF vars, CallInv
<1>8. QED
  BY <1>1, <1>2, <1>3, <1>4, <1>5, <1>6, <1>7 DEF Next, Step, Done

\* What is mounted is named.
LEMMA MountStep ==
  ASSUME CallInv, MountInv, [Next]_vars
  PROVE  MountInv'
<1>1. ASSUME UNCHANGED <<ev, roots, command, mounts>>,
             scans' \in Seq(ToSet(scans')), ToSet(scans') \subseteq All,
             command.kind = "mount" /\ (pc' = "next" \/ result' = "ok") =>
               pc = "next" \/ result = "ok"
      PROVE  MountInv'
  BY <1>1, Static DEF MountInv
<1>2. CASE ListForOne \/ ListForAll \/ NextContainer \/ Finish
  <2>1. UNCHANGED <<ev, roots, command, mounts, scans>>
    BY <1>2 DEF ListForOne, ListForAll, NextContainer, Finish
  <2>2. command.kind = "mount" /\ (pc' = "next" \/ result' = "ok") =>
          pc = "next" \/ result = "ok"
    BY <1>2 DEF ListForOne, ListForAll, NextContainer, Finish
  <2>3. QED
    BY <1>1, <2>1, <2>2 DEF MountInv
<1>3. CASE ScanLayer
  <2>1. UNCHANGED <<ev, roots, command, mounts>> /\ command.kind = "drift"
    BY <1>3 DEF ScanLayer
  <2>2. Head(todo) \in All
    BY <1>3, NextStep DEF CallInv
  <2>3. UNCHANGED scans \/ scans' = Append(scans, Head(todo))
    BY <1>3 DEF ScanLayer
  <2>4. scans' \in Seq(ToSet(scans')) /\ ToSet(scans') \subseteq All
    <3>1. scans \in Seq(ToSet(scans)) /\ ToSet(scans) \subseteq All
      BY DEF MountInv
    <3>2. CASE UNCHANGED scans
      BY <3>1, <3>2
    <3>3. CASE scans' = Append(scans, Head(todo))
      BY <2>2, <3>1, <3>3, Appended
    <3>4. QED
      BY <2>3, <3>2, <3>3
  <2>5. QED
    BY <1>1, <2>1, <2>4
<1>4. CASE FindAndMount
  <2> DEFINE m == <<want, Found>>
  <2>1. UNCHANGED <<ev, roots, command, scans>> /\ pc = "find"
    BY <1>4 DEF FindAndMount
  <2>2. CASE UNCHANGED mounts /\ pc' # "next"
    <3>1. result' # "ok" \/ result = "ok"
      BY <1>4 DEF FindAndMount, Fail
    <3>2. QED
      BY <1>1, <2>1, <2>2, <3>1 DEF MountInv
  <2>3. CASE UNCHANGED mounts /\ command.kind # "mount"
    BY <1>1, <2>1, <2>3 DEF MountInv
  <2>4. CASE Found # <<>> /\ mounts' = Append(mounts, m)
    <3>1. m[2] \in All /\ m[2] = Found /\ m[1] = want /\ Names(key, m[2])
      BY <2>4, FoundIsNamed DEF CallInv
    <3>2. command.kind = "mount" => Names(command.key, m[2])
      BY <2>1, <3>1 DEF CallInv
    <3>3. command.kind = "all" =>
            m[1] \in All /\ Entry(m[1]).metadata /\ Names(Title(m[1]), m[2])
      BY <2>1, <3>1 DEF CallInv
    <3> HIDE DEF m
    <3>4. /\ mounts' \in Seq(ToSet(mounts'))
          /\ ToSet(mounts') = ToSet(mounts) \cup {m}
      BY <2>4, Appended DEF MountInv
    <3>5. mounts' # <<>>
      BY <3>4 DEF ToSet
    <3>6. QED
      BY <2>1, <3>1, <3>2, <3>3, <3>4, <3>5, Static DEF MountInv
  <2>5. QED
    BY <1>4, <2>2, <2>3, <2>4 DEF FindAndMount, Fail
<1>5. CASE UNCHANGED vars
  BY <1>1, <1>5 DEF vars, MountInv
<1>6. QED
  BY <1>2, <1>3, <1>4, <1>5 DEF Next, Step, Done

\* Nothing that is due is left behind.
LEMMA TurnStep ==
  ASSUME CallInv, MountInv, TurnInv, [Next]_vars
  PROVE  TurnInv'
<1>1. ASSUME UNCHANGED <<ev, roots, command>>,
             command.kind \in {"all", "drift"} =>
               /\ pc # "list"
               /\ ToSet(mounts) \subseteq ToSet(mounts')
               /\ ToSet(scans) \subseteq ToSet(scans')
                  /\ failed \subseteq failed'
               /\ \A e : \/ e \in ToSet(todo) /\ e \notin ToSet(todo')
                         \/ pc = "find" /\ e = want
                            /\ (pc' # "find" \/ want' # e)
                         => (pc' = "find" /\ e = want') \/ Handled(e)'
      PROVE  TurnInv'
  <2>1. \A e : Due(e)' = Due(e)
    BY <1>1, Static DEF Due
  <2>2. command.kind \in {"all", "drift"} => \A e : Handled(e) => Handled(e)'
    BY <1>1 DEF Handled
  <2>3. All' = All
    BY <1>1, Static
  <2>4. QED
    BY <1>1, <2>1, <2>2, <2>3 DEF TurnInv
<1>2. CASE ListForOne
  BY <1>2 DEF ListForOne, TurnInv
<1>3. CASE ListForAll
  <2>1. \A e : Due(e)' = Due(e)
    BY <1>3, Static, ListStep DEF Due
  <2>2. QED
    BY <1>3, <2>1, Static, ListStep DEF TurnInv
<1>4. CASE NextContainer
  <2>1. /\ UNCHANGED <<ev, roots, command, mounts, scans>>
           /\ failed \subseteq failed'
        /\ pc = "next"
        /\ \/ pc' = "find" /\ want' = Head(todo)
           \/ <<Head(todo), "mkdir">> \in failed'
    BY <1>4 DEF NextContainer
  <2>2. \A e : e = Head(todo) => (pc' = "find" /\ e = want') \/ Handled(e)'
    BY <2>1 DEF Handled
  <2>3. ToSet(todo) = {Head(todo)} \cup ToSet(todo')
    BY <1>4, NextStep
  <2>4. QED
    BY <1>1, <2>1, <2>2, <2>3
<1>5. CASE ScanLayer
  <2>1. /\ UNCHANGED <<ev, roots, command, mounts>> /\ failed \subseteq failed'
        /\ pc = "next"
        /\ \/ scans' = Append(scans, Head(todo))
           \/ UNCHANGED scans /\ \E what : <<Head(todo), what>> \in failed'
    BY <1>5 DEF ScanLayer
  <2>2. /\ ToSet(scans) \subseteq ToSet(scans')
        /\ Head(todo) \in ToSet(scans')
           \/ \E what : <<Head(todo), what>> \in failed'
    <3>1. scans \in Seq(ToSet(scans))
      BY DEF MountInv
    <3>2. CASE scans' = Append(scans, Head(todo))
      BY <3>1, <3>2, Appended
    <3>3. QED
      BY <2>1, <3>2
  <2>3. \A e : e = Head(todo) => Handled(e)'
    <3>1. \A what : <<Head(todo), what>>[1] = Head(todo)
      OBVIOUS
    <3>2. QED
      BY <2>2, <3>1 DEF Handled
  <2>4. ToSet(todo) = {Head(todo)} \cup ToSet(todo')
    BY <1>5, NextStep
  <2>5. QED
    BY <1>1, <2>1, <2>2, <2>3, <2>4
<1>6. CASE FindAndMount
  <2>1. UNCHANGED <<ev, roots, command, scans, todo, want>> /\ pc = "find"
    BY <1>6 DEF FindAndMount
  <2>2. \/ mounts' = Append(mounts, <<want, Found>>) /\ failed' = failed
        \/ /\ UNCHANGED mounts
           /\ \E what : failed' = failed \cup {<<want, what>>}
    BY <1>6 DEF FindAndMount, Fail
  <2>3. /\ ToSet(mounts) \subseteq ToSet(mounts') /\ failed \subseteq failed'
        /\ <<want, Found>> \in ToSet(mounts')
           \/ \E what : <<want, what>> \in failed'
    <3>1. mounts \in Seq(ToSet(mounts))
      BY DEF MountInv
    <3> DEFINE m == <<want, Found>>
    <3>2. CASE mounts' = Append(mounts, m) /\ failed' = failed
      <4> HIDE DEF m
      <4>1. ToSet(mounts') = ToSet(mounts) \cup {m}
        BY <3>1, <3>2, Appended
      <4>2. QED
        BY <3>2, <4>1 DEF m
    <3>3. CASE /\ UNCHANGED mounts
               /\ \E what : failed' = failed \cup {<<want, what>>}
      BY <3>3
    <3>4. QED
      BY <2>2, <3>2, <3>3
  <2>4. \A e : e = want => Handled(e)'
    <3>1. \A what : <<want, what>>[1] = want
      OBVIOUS
    <3>2. QED
      BY <2>3, <3>1 DEF Handled
  <2>5. QED
    BY <1>1, <2>1, <2>3, <2>4
<1>7. CASE Finish
  BY <1>1, <1>7 DEF Finish
<1>8. CASE UNCHANGED vars
  BY <1>8, Static DEF vars, TurnInv, Due, Handled
<1>9. QED
  BY <1>2, <1>3, <1>4, <1>5, <1>6, <1>7, <1>8 DEF Next, Step, Done

\* The three parts together.
LEMMA InitInv == Init => IInv
<1> SUFFICES ASSUME Init PROVE IInv
  OBVIOUS
<1>1. CallInv
  BY NothingIn DEF Init, CallInv
<1>2. MountInv
  BY NothingIn DEF Init, MountInv
<1>3. QED
  BY <1>1, <1>2 DEF Init, IInv, TurnInv

LEMMA Invariant == Spec => []IInv
<1>1. IInv /\ [Next]_vars => IInv'
  BY CallStep, MountStep, TurnStep DEF IInv
<1>2. QED
  BY InitInv, <1>1, PTL DEF Spec

\* Every state of every run is of its type.
THEOREM TypeCorrect == Spec => []TypeOK
<1>1. IInv => TypeOK
  <2> SUFFICES ASSUME IInv PROVE TypeOK
    OBVIOUS
  <2>1. ToSet(roots) \subseteq DOMAIN ev.stores
    BY RootsFound, ElementsOf DEF IInv, CallInv
  <2>2. QED
    BY <2>1 DEF IInv, CallInv, MountInv, TypeOK, All
<1>2. QED
  BY Invariant, <1>1, PTL

\* mount <key> mounts what has that ID or name, and nothing else, and returns
\* nil only if it has (podman.go:360-377).
THEOREM KeyMounted == Spec => []KeyIsMounted
<1>1. IInv => KeyIsMounted
  BY DEF IInv, MountInv, KeyIsMounted, Names
<1>2. QED
  BY Invariant, <1>1, PTL

\* No container of a readable store goes without its turn, however many users
\* and stores there are and whatever fails (podman.go:380-404, 411-468).
THEOREM EachHasItsTurn == Spec => []EachGetsItsTurn
<1>1. IInv => EachGetsItsTurn
  <2> SUFFICES ASSUME IInv, command.kind \in {"all", "drift"},
                      command.key = "",
                      result = "ok", NEW s \in Stores,
                      NEW c \in ToSet(ev.stores[s].configs),
                      command.kind = "drift" \/ c.metadata
               PROVE  HadItsTurn(c)
    BY DEF EachGetsItsTurn
  <2>1. PICK i \in DOMAIN ev.stores[s].configs : c = ev.stores[s].configs[i]
    BY DEF ToSet
  <2>2. ev \in Evidence /\ roots = RootDirs /\ pc = "end" /\ todo = <<>>
    BY DEF IInv, CallInv
  <2>3. s \in DOMAIN ev.stores
    BY <2>2, EvidenceAssumption DEF Stores
  <2>4. s \in ToSet(RootDirs)
    BY <2>2, <2>3, RootsFound DEF Stores
  <2>5. PICK r \in DOMAIN roots : roots[r] = s
    BY <2>2, <2>4 DEF ToSet
  <2> DEFINE e == <<r, i>>
  <2>6. e \in ToSet(EntriesOf(r))
    BY <2>1, <2>5 DEF EntriesOf, Stores, ToSet
  <2>7. e \in All
    BY <2>2, <2>6, EntriesAre
  <2>8. Entry(e) = c
    BY <2>1, <2>5 DEF Entry, Configs
  <2> HIDE DEF e
  <2>9. Due(e)
    BY <2>8 DEF Due
  <2>10. e \notin ToSet(todo)
    BY <2>2, NothingIn
  <2>11. Handled(e)
    BY <2>2, <2>7, <2>9, <2>10 DEF IInv, TurnInv
  <2>12. QED
    BY <2>7, <2>8, <2>11 DEF HadItsTurn, Handled, All
<1>2. QED
  BY Invariant, <1>1, PTL

\* Where no name stands for two containers, each mount point of mount --all
\* has the container's own layers (podman.go:379-407).
THEOREM OwnByName == Spec => []OwnUnderUniqueNames
<1>1. IInv => OwnUnderUniqueNames
  <2> SUFFICES ASSUME IInv, command.kind = "all", NamesAreUnique,
                      NEW m \in ToSet(mounts)
               PROVE  Entry(m[1]).id = Entry(m[2]).id
    BY DEF OwnUnderUniqueNames
  <2>1. /\ m[1] \in All /\ m[2] \in All /\ Entry(m[1]).metadata
        /\ Names(Title(m[1]), m[2])
    BY DEF IInv, MountInv
  <2>2. Entry(m[1]).name = Title(m[1])
    BY <2>1 DEF NamesAreUnique, All
  <2>3. Entry(m[1]).name \in {Entry(m[2]).name, Entry(m[2]).id}
    BY <2>1, <2>2 DEF Names
  <2>4. QED
    BY <2>1, <2>3 DEF NamesAreUnique, All
<1>2. QED
  BY Invariant, <1>1, PTL
=============================================================================
