--------------------------- MODULE Commands_proof ---------------------------
(***************************************************************************)
(* Proofs about Commands for every image, every evidence and every         *)
(* command.                                                                *)
(***************************************************************************)
EXTENDS Commands, SequenceLemmas

\* What is given is one of the scenarios, and the roots are those of
\* InitializeRuntime.
GivenInv ==
  \E s \in Scenarios :
    flags = s.flags /\ disk = s.disk /\ command = s.command

ConfigInv ==
  pc # "start" => /\ dockerRoot = DockerRoot
                  /\ containerdRoot = ContainerdRoot(DockerRoot)
                  /\ sc = SupportContainer

\* The explorers that may be open, in their order, by the place of the run.
Opening == {"start", "docker", "podman", "containerd"}
MayBeOpened(at) ==
  CASE at \in {"start", "docker"} -> {<<>>}
    [] at = "podman" -> {<<>>, <<"docker">>}
    [] at = "containerd" -> {<<"podman">>, <<"docker", "podman">>}
    [] OTHER -> {<<"podman">>, <<"docker", "podman">>,
                 <<"podman", "containerd">>,
                 <<"docker", "podman", "containerd">>}

\* s is the end of t.
Ends(s, t) ==
  /\ Len(s) <= Len(t)
  /\ \A i \in 1..Len(s) : s[i] = t[(Len(t) - Len(s)) + i]

OpenedInv ==
  /\ opened \in MayBeOpened(pc)
  /\ xplrs \in Seq(Engines) /\ Ends(xplrs, opened)
  /\ pc \in Opening => xplrs = opened
  /\ "docker" \in ToSet(opened) => DockerOpens
  /\ "containerd" \in ToSet(opened) => ContainerdOpens

\* Where the run is, and what is left empty there.
PlaceInv ==
  /\ pc \in Opening \cup {"next", "loop", "found", "end"}
  /\ result \in {"running", "ok", "error", "panic"}
  /\ (result = "running") = (pc # "end")
  /\ pc = "loop" => command.kind \in LoopKinds /\ xplrs # <<>>
  /\ pc = "found" => command.kind \in FindKinds
  /\ pc # "loop" => todo = <<>>
  /\ pc \in Opening => /\ failed = {} /\ rows = <<>> /\ tried = <<>>
                       /\ mounts = <<>> /\ shown = {} /\ found = "none"
  /\ command.kind \notin ListKinds => rows = <<>>
  /\ command.kind \notin LoopKinds => tried = <<>> /\ mounts = <<>>
  /\ command.kind \notin FindKinds => found = "none"

\* What the loops note.
NotesInv ==
  /\ failed \subseteq ToSet(opened)
  /\ found = "none" \/ Opened(found)
  /\ tried \in Seq(ToSet(tried)) /\ mounts \in Seq(ToSet(mounts))
  /\ ToSet(mounts) \subseteq ToSet(tried)

CtlInv == GivenInv /\ ConfigInv /\ OpenedInv /\ PlaceInv /\ NotesInv

-----------------------------------------------------------------------------
\* The explorers in their order

Earlier(d, e) ==
  <<d, e>> \in {<<"docker", "podman">>, <<"docker", "containerd">>,
                <<"podman", "containerd">>}

\* The explorers that have been asked.
Asked == ToSet(opened) \ ToSet(xplrs)

\* The strings, with those that the modules write down: the provers know of no
\* literal that it is in STRING.
Texts ==
  STRING \cup {"", "var", "lib", "docker", "podman", "containerd", "CREATED",
               "RUNNING", "PAUSED", "STOPPED", "UNKNOWN", "running", "paused"}

\* What is given is typed.
LEMMA Given ==
  GivenInv => flags \in Flags /\ IsDisk(disk) /\ command \in Cmds
BY ScenariosAssumption DEF GivenInv

\* Appending to a tuple.
LEMMA InALine ==
  ASSUME NEW a, NEW b, NEW c
  PROVE  /\ Append(<<>>, a) = <<a>>
         /\ Append(<<a>>, b) = <<a, b>>
         /\ Append(<<a, b>>, c) = <<a, b, c>>
<1> DEFINE S == {a, b, c}
<1>1. /\ <<>> \in Seq(S) /\ <<a>> \in Seq(S) /\ <<a, b>> \in Seq(S)
      /\ <<a, b, c>> \in Seq(S)
  OBVIOUS
<1>2. Append(<<>>, a) = <<a>>
  OBVIOUS
<1>3. Append(<<a>>, b) = <<a, b>>
  <2>1. /\ Append(<<a>>, b) \in Seq(S) /\ Len(Append(<<a>>, b)) = 2
        /\ Append(<<a>>, b)[1] = a /\ Append(<<a>>, b)[2] = b
    BY <1>1, AppendProperties
  <2>2. Len(<<a, b>>) = 2 /\ <<a, b>>[1] = a /\ <<a, b>>[2] = b
    OBVIOUS
  <2>3. \A i \in 1..2 : i = 1 \/ i = 2
    OBVIOUS
  <2>4. QED
    BY <1>1, <2>1, <2>2, <2>3, SeqEqual
<1>4. Append(<<a, b>>, c) = <<a, b, c>>
  <2>1. /\ Append(<<a, b>>, c) \in Seq(S) /\ Len(Append(<<a, b>>, c)) = 3
        /\ Append(<<a, b>>, c)[1] = a /\ Append(<<a, b>>, c)[2] = b
        /\ Append(<<a, b>>, c)[3] = c
    BY <1>1, AppendProperties
  <2>2. /\ Len(<<a, b, c>>) = 3 /\ <<a, b, c>>[1] = a
        /\ <<a, b, c>>[2] = b /\ <<a, b, c>>[3] = c
    OBVIOUS
  <2>3. \A i \in 1..3 : i = 1 \/ i = 2 \/ i = 3
    OBVIOUS
  <2>4. QED
    BY <1>1, <2>1, <2>2, <2>3, SeqEqual
<1>5. QED
  BY <1>2, <1>3, <1>4

\* Whatever is opened is in order.
LEMMA InOrder ==
  ASSUME NEW at, NEW o \in MayBeOpened(at)
  PROVE  /\ o \in Seq(Engines)
         /\ \A i, j \in 1..Len(o) : i < j => Earlier(o[i], o[j])
         /\ at \notin Opening => "podman" \in ToSet(o)
<1>1. CASE o = <<>>
  BY <1>1 DEF MayBeOpened, Opening
<1>2. CASE o = <<"docker">>
  BY <1>2 DEF MayBeOpened, Opening, Engines
<1>3. CASE o = <<"podman">>
  BY <1>3 DEF ToSet, Engines
<1>4. CASE o = <<"docker", "podman">>
  <2>1. /\ o \in Seq(Engines) /\ Len(o) = 2 /\ DOMAIN o = 1..2
        /\ o[1] = "docker" /\ o[2] = "podman"
    BY <1>4 DEF Engines
  <2>2. QED
    BY <2>1 DEF ToSet, Earlier
<1>5. CASE o = <<"podman", "containerd">>
  <2>1. /\ o \in Seq(Engines) /\ Len(o) = 2 /\ DOMAIN o = 1..2
        /\ o[1] = "podman" /\ o[2] = "containerd"
    BY <1>5 DEF Engines
  <2>2. QED
    BY <2>1 DEF ToSet, Earlier
<1>6. CASE o = <<"docker", "podman", "containerd">>
  <2>1. /\ o \in Seq(Engines) /\ Len(o) = 3 /\ DOMAIN o = 1..3
        /\ o[1] = "docker" /\ o[2] = "podman" /\ o[3] = "containerd"
    BY <1>6 DEF Engines
  <2>2. QED
    BY <2>1 DEF ToSet, Earlier
<1>7. QED
  BY <1>1, <1>2, <1>3, <1>4, <1>5, <1>6 DEF MayBeOpened

\* The next explorer is the first that is left, and those before it in the
\* order have been asked.
LEMMA NextExplorer ==
  ASSUME OpenedInv, xplrs # <<>>
  PROVE  /\ Head(xplrs) \in Engines /\ Head(xplrs) \in ToSet(opened)
         /\ Tail(xplrs) \in Seq(Engines) /\ Ends(Tail(xplrs), opened)
         /\ ToSet(xplrs) = {Head(xplrs)} \cup ToSet(Tail(xplrs))
         /\ ToSet(xplrs) \subseteq ToSet(opened)
         /\ \A d \in ToSet(Tail(xplrs)) : Earlier(Head(xplrs), d)
         /\ \A d \in Asked : Earlier(d, Head(xplrs))
         /\ \E i \in DOMAIN opened :
              opened[i] = Head(xplrs)
              /\ \A j \in 1..(i - 1) : opened[j] \in Asked
<1> DEFINE e == Head(xplrs)
           t == Tail(xplrs)
           M == Len(xplrs)
           N == Len(opened)
<1>1. /\ opened \in Seq(Engines)
      /\ \A i, j \in 1..N : i < j => Earlier(opened[i], opened[j])
  BY InOrder DEF OpenedInv
<1>2. /\ N \in Nat /\ M \in Nat \ {0} /\ M <= N
      /\ DOMAIN opened = 1..N /\ DOMAIN xplrs = 1..M
      /\ \A i \in 1..M : xplrs[i] = opened[(N - M) + i]
  BY <1>1, LenProperties, EmptySeq DEF OpenedInv, Ends
<1>3. /\ e \in Engines /\ t \in Seq(Engines) /\ e = xplrs[1]
      /\ ToSet(xplrs) = {e} \cup ToSet(t)
      /\ Len(t) = M - 1 /\ DOMAIN t = 1..(M - 1)
      /\ \A i \in 1..(M - 1) : t[i] = xplrs[i + 1]
  BY HeadAndTail, HeadTailProperties, LenProperties DEF OpenedInv
<1> HIDE DEF e, t, M, N
<1>4. e = opened[(N - M) + 1] /\ (N - M) + 1 \in 1..N
  BY <1>2, <1>3
<1>5. \A i \in 1..(M - 1) : t[i] = opened[(N - (M - 1)) + i]
  <2>1. \A i \in 1..(M - 1) :
          i + 1 \in 1..M /\ (N - M) + (i + 1) = (N - (M - 1)) + i
    BY <1>2
  <2>2. QED
    BY <1>2, <1>3, <2>1
<1>6. Ends(t, opened)
  BY <1>2, <1>3, <1>5 DEF Ends, N
<1>7. \A d \in ToSet(t) : Earlier(e, d)
  <2>1. \A i \in 1..(M - 1) : /\ (N - (M - 1)) + i \in 1..N
                              /\ (N - M) + 1 < (N - (M - 1)) + i
    BY <1>2
  <2>2. \A i \in 1..(M - 1) : Earlier(e, t[i])
    BY <1>1, <1>4, <1>5, <2>1 DEF N
  <2>3. QED
    BY <1>3, <2>2 DEF ToSet
<1>8. ToSet(xplrs) \subseteq ToSet(opened)
  <2>1. \A i \in 1..M : (N - M) + i \in 1..N
    BY <1>2
  <2>2. QED
    BY <1>2, <2>1 DEF ToSet
<1>9. ASSUME NEW i \in 1..N, opened[i] \in Asked PROVE i < (N - M) + 1
  <2> SUFFICES ASSUME ~(i < (N - M) + 1) PROVE FALSE
    OBVIOUS
  <2>1. i - (N - M) \in 1..M /\ (N - M) + (i - (N - M)) = i
    BY <1>2
  <2>2. xplrs[i - (N - M)] = opened[i]
    BY <1>2, <2>1
  <2>3. QED
    BY <1>2, <1>9, <2>1, <2>2 DEF Asked, ToSet
<1>10. \A d \in Asked : Earlier(d, e)
  <2> SUFFICES ASSUME NEW d \in Asked PROVE Earlier(d, e)
    OBVIOUS
  <2>1. PICK i \in 1..N : opened[i] = d
    BY <1>2 DEF Asked, ToSet
  <2>2. i < (N - M) + 1
    BY <1>9, <2>1
  <2>3. QED
    BY <1>1, <1>4, <2>1, <2>2 DEF N
<1>11. \A j \in 1..(((N - M) + 1) - 1) : opened[j] \in Asked
  <2> SUFFICES ASSUME NEW j \in 1..(((N - M) + 1) - 1), opened[j] \notin Asked
               PROVE  FALSE
    OBVIOUS
  <2>1. j \in 1..N /\ j < (N - M) + 1
    BY <1>2
  <2>2. PICK k \in 1..M : xplrs[k] = opened[j]
    BY <1>2, <2>1 DEF Asked, ToSet
  <2>3. (N - M) + k \in 1..N /\ j < (N - M) + k
    BY <1>2, <2>1
  <2>4. Earlier(opened[j], opened[(N - M) + k])
    BY <1>1, <2>1, <2>3 DEF N
  <2>5. opened[(N - M) + k] = opened[j]
    BY <1>2, <2>2
  <2>6. QED
    BY <2>4, <2>5 DEF Earlier
<1>12. QED
  <2>1. e \in ToSet(opened)
    BY <1>3, <1>8
  <2>2. \E i \in DOMAIN opened :
          opened[i] = e /\ \A j \in 1..(i - 1) : opened[j] \in Asked
    BY <1>2, <1>4, <1>11
  <2>3. QED
    BY <1>3, <1>6, <1>7, <1>8, <1>10, <2>1, <2>2 DEF e, t

\* Once it has been asked, there is one explorer more that has been.
LEMMA ThenAsked ==
  ASSUME OpenedInv, xplrs # <<>>
  PROVE  /\ ToSet(opened) \ ToSet(Tail(xplrs)) = Asked \cup {Head(xplrs)}
         /\ Head(xplrs) \notin Asked /\ Head(xplrs) \notin ToSet(Tail(xplrs))
<1>1. Head(xplrs) \notin ToSet(Tail(xplrs))
  BY NextExplorer DEF Earlier
<1>2. QED
  BY <1>1, NextExplorer DEF Asked

-----------------------------------------------------------------------------
\* The run and what it notes

\* A run begins with nothing opened.
LEMMA InitCtl == Init => CtlInv
<1> SUFFICES ASSUME Init PROVE CtlInv
  OBVIOUS
<1>1. GivenInv /\ ConfigInv /\ PlaceInv
  BY DEF Init, GivenInv, ConfigInv, PlaceInv, Opening
<1>2. OpenedInv
  <2>1. opened = <<>> /\ xplrs = <<>> /\ pc = "start" /\ ToSet(<<>>) = {}
    BY NothingIn DEF Init
  <2>2. QED
    BY <2>1 DEF OpenedInv, MayBeOpened, Ends, Opening
<1>3. NotesInv
  BY NothingIn DEF Init, NotesInv
<1>4. QED
  BY <1>1, <1>2, <1>3 DEF CtlInv

\* What is given stays, and so do the roots.
LEMMA Kept ==
  ASSUME GivenInv, UNCHANGED given
  PROVE  /\ GivenInv' /\ DockerRoot' = DockerRoot
         /\ (\A r : ContainerdRoot(r)' = ContainerdRoot(r))
         /\ SupportContainer' = SupportContainer
         /\ UNCHANGED config =>
              (DockerOpens' = DockerOpens
              /\ ContainerdOpens' = ContainerdOpens)
<1>1. GivenInv'
  BY DEF given, GivenInv
<1>2. DockerRoot' = DockerRoot
      /\ (\A r : ContainerdRoot(r)' = ContainerdRoot(r))
  BY DEF given, DockerRoot, ContainerdRoot
<1>3. SupportContainer' = SupportContainer
  BY DEF given, SupportContainer
<1>4. ASSUME UNCHANGED config
      PROVE  DockerOpens' = DockerOpens /\ ContainerdOpens' = ContainerdOpens
  BY <1>4 DEF given, config, DockerOpens, ContainerdOpens, Databases,
              ContainerdDisk
<1>5. QED
  BY <1>1, <1>2, <1>3, <1>4

\* The explorers stay open, and the next one is taken or not.
LEMMA OpenKept ==
  ASSUME OpenedInv, GivenInv, UNCHANGED <<given, config, opened>>,
         pc \notin Opening, pc' \notin Opening,
         xplrs' = xplrs \/ (xplrs # <<>> /\ xplrs' = Tail(xplrs))
  PROVE  OpenedInv'
<1>1. DockerOpens' = DockerOpens /\ ContainerdOpens' = ContainerdOpens
  BY Kept
<1>2. MayBeOpened(pc') = MayBeOpened(pc)
  BY DEF MayBeOpened, Opening
<1>3. xplrs' \in Seq(Engines) /\ Ends(xplrs', opened)
  BY NextExplorer DEF OpenedInv
<1>4. QED
  BY <1>1, <1>2, <1>3 DEF OpenedInv

\* One more explorer, or none.
LEMMA OneMore ==
  ASSUME CtlInv, NEW at, NEW e \in Engines, NEW opens, NEW next,
         GetExplorer(at, e, opens, next), at # "start", at \in Opening,
         IF opens THEN Append(opened, e) \in MayBeOpened(next)
                  ELSE opened \in MayBeOpened(next),
         next \in {"podman", "containerd", "next"},
         e = "docker" => (opens => DockerOpens),
         e = "containerd" => (opens => ContainerdOpens)
  PROVE  CtlInv'
<1>1. /\ UNCHANGED given /\ UNCHANGED config /\ pc = at /\ pc' = next
      /\ UNCHANGED <<failed, rows, todo, tried, mounts, shown, found, result>>
      /\ opened' = IF opens THEN Append(opened, e) ELSE opened
      /\ xplrs' = opened'
  BY DEF GetExplorer, CtlInv, OpenedInv
<1>2. GivenInv' /\ ConfigInv'
  BY <1>1, Kept DEF CtlInv, ConfigInv, config
<1>3. /\ opened' \in Seq(Engines)
      /\ ToSet(opened') \subseteq ToSet(opened) \cup {e}
      /\ ToSet(opened) \subseteq ToSet(opened')
      /\ opened' # opened => opens
  <2>1. opened \in Seq(Engines)
    BY InOrder DEF CtlInv, OpenedInv
  <2>2. /\ Append(opened, e) \in Seq(Engines)
        /\ ToSet(Append(opened, e)) = ToSet(opened) \cup {e}
    BY <2>1, AppendAdds
  <2>3. QED
    BY <1>1, <2>1, <2>2
<1>4. OpenedInv'
  <2>1. opened' \in MayBeOpened(pc')
    BY <1>1
  <2>2. Ends(opened', opened')
    BY <1>3, LenProperties DEF Ends
  <2>3. DockerOpens' = DockerOpens /\ ContainerdOpens' = ContainerdOpens
    BY <1>1, Kept DEF CtlInv
  <2>4. "docker" \in ToSet(opened') => DockerOpens
    BY <1>3 DEF CtlInv, OpenedInv
  <2>5. "containerd" \in ToSet(opened') => ContainerdOpens
    BY <1>3 DEF CtlInv, OpenedInv
  <2>6. QED
    BY <1>1, <1>3, <2>1, <2>2, <2>3, <2>4, <2>5 DEF OpenedInv
<1>5. PlaceInv'
  BY <1>1 DEF CtlInv, PlaceInv, Opening, given
<1>6. NotesInv'
  BY <1>1, <1>3 DEF CtlInv, NotesInv, PlaceInv, Opened
<1>7. QED
  BY <1>2, <1>4, <1>5, <1>6 DEF CtlInv

\* A step of the loops over the explorers.
LEMMA StillGoing ==
  ASSUME CtlInv, UNCHANGED <<given, config, opened>>, pc \notin Opening,
         pc' \notin Opening,
         xplrs' = xplrs \/ (xplrs # <<>> /\ xplrs' = Tail(xplrs)),
         PlaceInv', NotesInv'
  PROVE  CtlInv'
<1>1. GivenInv' /\ ConfigInv'
  BY Kept DEF CtlInv, ConfigInv, config, Opening
<1>2. OpenedInv'
  BY OpenKept DEF CtlInv
<1>3. QED
  BY <1>1, <1>2 DEF CtlInv

\* Every step keeps the control of the run.
LEMMA NextCtl == CtlInv /\ [Next]_vars => CtlInv'
<1> SUFFICES ASSUME CtlInv, [Next]_vars PROVE CtlInv'
  OBVIOUS
<1>1. CASE InitializeRuntime
  <2>1. GivenInv' /\ ConfigInv'
    BY <1>1, Kept DEF InitializeRuntime, CtlInv, ConfigInv
  <2>2. /\ opened = <<>> /\ UNCHANGED <<opened, xplrs>> /\ pc' = "docker"
        /\ pc = "start"
    BY <1>1 DEF InitializeRuntime, CtlInv, OpenedInv, MayBeOpened
  <2>3. OpenedInv'
    BY <2>2, NothingIn DEF CtlInv, OpenedInv, MayBeOpened, Opening
  <2>4. PlaceInv'
    BY <1>1 DEF InitializeRuntime, CtlInv, PlaceInv, Opening, given
  <2>5. NotesInv'
    BY <1>1 DEF InitializeRuntime, CtlInv, NotesInv, Opened
  <2>6. QED
    BY <2>1, <2>3, <2>4, <2>5 DEF CtlInv
<1>2. CASE GetDocker
  <2>1. GetExplorer("docker", "docker", DockerOpens, "podman")
    BY <1>2 DEF GetDocker
  <2>2. opened = <<>> /\ Append(opened, "docker") = <<"docker">>
    BY <2>1 DEF GetExplorer, CtlInv, OpenedInv, MayBeOpened
  <2>3. QED
    BY <2>1, <2>2, OneMore DEF MayBeOpened, Opening, Engines
<1>3. CASE GetPodman
  <2>1. GetExplorer("podman", "podman", TRUE, "containerd")
    BY <1>3 DEF GetPodman
  <2>2. opened = <<>> \/ opened = <<"docker">>
    BY <2>1 DEF GetExplorer, CtlInv, OpenedInv, MayBeOpened
  <2>3. /\ Append(<<>>, "podman") = <<"podman">>
        /\ Append(<<"docker">>, "podman") = <<"docker", "podman">>
    BY InALine
  <2>4. QED
    BY <2>1, <2>2, <2>3, OneMore DEF MayBeOpened, Opening, Engines
<1>4. CASE GetContainerd
  <2>1. GetExplorer("containerd", "containerd", ContainerdOpens, "next")
    BY <1>4 DEF GetContainerd
  <2>2. opened = <<"podman">> \/ opened = <<"docker", "podman">>
    BY <2>1 DEF GetExplorer, CtlInv, OpenedInv, MayBeOpened
  <2>3. /\ Append(<<"podman">>, "containerd") = <<"podman", "containerd">>
        /\ Append(<<"docker", "podman">>, "containerd") =
             <<"docker", "podman", "containerd">>
    BY InALine
  <2>4. QED
    BY <2>1, <2>2, <2>3, OneMore DEF MayBeOpened, Opening, Engines
<1>5. CASE ListNext
  <2>1. PlaceInv'
    BY <1>5 DEF ListNext, Panic, CtlInv, PlaceInv, Opening, given, ListKinds,
                LoopKinds, FindKinds
  <2>2. NotesInv'
    BY <1>5, NextExplorer DEF ListNext, CtlInv, NotesInv, Opened
  <2>3. pc' \notin Opening
    BY <1>5 DEF ListNext, Panic, Opening
  <2>4. QED
    BY <1>5, <2>1, <2>2, <2>3, StillGoing DEF ListNext, Opening
<1>6. CASE Show
  <2>1. PlaceInv' /\ NotesInv'
    BY <1>6 DEF Show, CtlInv, PlaceInv, NotesInv, Opening, given, Opened
  <2>2. QED
    BY <1>6, <2>1, StillGoing DEF Show, Opening
<1>7. CASE LoopNext
  <2>1. PlaceInv'
    BY <1>7 DEF LoopNext, Panic, CtlInv, PlaceInv, Opening, given, ListKinds,
                LoopKinds, FindKinds
  <2>2. NotesInv'
    BY <1>7, NextExplorer DEF LoopNext, CtlInv, NotesInv, Opened
  <2>3. pc' \notin Opening
    BY <1>7 DEF LoopNext, Panic, Opening
  <2>4. QED
    BY <1>7, <2>1, <2>2, <2>3, StillGoing DEF LoopNext, Opening
<1>8. CASE MountOne
  <2>1. PlaceInv'
    BY <1>8 DEF MountOne, CtlInv, PlaceInv, Opening, given
  <2>2. NotesInv'
    <3> DEFINE p == Place(Head(todo))
    <3>1. /\ Append(tried, p) \in Seq(ToSet(Append(tried, p)))
          /\ ToSet(Append(tried, p)) = ToSet(tried) \cup {p}
          /\ Append(mounts, p) \in Seq(ToSet(Append(mounts, p)))
          /\ ToSet(Append(mounts, p)) = ToSet(mounts) \cup {p}
      BY Appended DEF CtlInv, NotesInv
    <3>2. /\ tried' = Append(tried, p)
          /\ mounts' \in {mounts, Append(mounts, p)}
          /\ failed' \subseteq failed \cup {Head(xplrs)}
          /\ UNCHANGED <<opened, found>> /\ xplrs # <<>>
      BY <1>8 DEF MountOne, CtlInv, PlaceInv
    <3> HIDE DEF p
    <3>3. QED
      BY <3>1, <3>2, NextExplorer DEF CtlInv, NotesInv, Opened
  <2>3. QED
    BY <1>8, <2>1, <2>2, StillGoing DEF MountOne, Opening
<1>9. CASE ScanOne
  <2>1. PlaceInv'
    BY <1>9 DEF ScanOne, CtlInv, PlaceInv, Opening, given
  <2>2. NotesInv'
    <3> DEFINE p == Place(Head(todo))
    <3>1. /\ Append(tried, p) \in Seq(ToSet(Append(tried, p)))
          /\ ToSet(Append(tried, p)) = ToSet(tried) \cup {p}
      BY Appended DEF CtlInv, NotesInv
    <3>2. /\ tried' = Append(tried, p)
          /\ UNCHANGED <<opened, found, failed, mounts>>
      BY <1>9 DEF ScanOne
    <3> HIDE DEF p
    <3>3. QED
      BY <3>1, <3>2 DEF CtlInv, NotesInv, Opened
  <2>3. QED
    BY <1>9, <2>1, <2>2, StillGoing DEF ScanOne, Opening
<1>10. CASE EndLoop
  <2>1. PlaceInv' /\ NotesInv'
    BY <1>10 DEF EndLoop, CtlInv, PlaceInv, NotesInv, Opening, given, Opened
  <2>2. xplrs # <<>>
    BY <1>10 DEF EndLoop, CtlInv, PlaceInv
  <2>3. QED
    BY <1>10, <2>1, <2>2, StillGoing DEF EndLoop, Opening
<1>11. CASE LoopsEnd
  <2>1. PlaceInv' /\ NotesInv'
    BY <1>11 DEF LoopsEnd, CtlInv, PlaceInv, NotesInv, Opening, given, Opened
  <2>2. QED
    BY <1>11, <2>1, StillGoing DEF LoopsEnd, Opening
<1>12. CASE FindNext
  <2>1. PlaceInv'
    BY <1>12 DEF FindNext, Panic, CtlInv, PlaceInv, Opening, given, ListKinds,
                 LoopKinds, FindKinds
  <2>2. NotesInv'
    BY <1>12, NextExplorer DEF FindNext, CtlInv, NotesInv, Opened
  <2>3. pc' \notin Opening
    BY <1>12 DEF FindNext, Panic, Opening
  <2>4. QED
    BY <1>12, <2>1, <2>2, <2>3, StillGoing DEF FindNext, Opening
<1>13. CASE UseFound
  <2>1. PlaceInv' /\ NotesInv'
    BY <1>13 DEF UseFound, CtlInv, PlaceInv, NotesInv, Opening, given, Opened
  <2>2. QED
    BY <1>13, <2>1, StillGoing DEF UseFound, Opening
<1>14. CASE NotFound
  <2>1. PlaceInv' /\ NotesInv'
    BY <1>14 DEF NotFound, CtlInv, PlaceInv, NotesInv, Opening, given, Opened
  <2>2. QED
    BY <1>14, <2>1, StillGoing DEF NotFound, Opening
<1>15. CASE UNCHANGED vars
  <2>1. /\ UNCHANGED <<given, config, pc, opened, xplrs, failed, rows, todo>>
        /\ UNCHANGED <<tried, mounts, shown, found, result>>
    BY <1>15 DEF vars, given, config
  <2>2. GivenInv' /\ ConfigInv'
    BY <2>1, Kept DEF CtlInv, ConfigInv, config
  <2>3. OpenedInv'
    BY <2>1, Kept DEF CtlInv, OpenedInv
  <2>4. PlaceInv' /\ NotesInv'
    BY <2>1 DEF CtlInv, PlaceInv, NotesInv, given, Opened
  <2>5. QED
    BY <2>2, <2>3, <2>4 DEF CtlInv
<1>16. QED
  BY <1>1, <1>2, <1>3, <1>4, <1>5, <1>6, <1>7, <1>8, <1>9, <1>10, <1>11,
     <1>12, <1>13, <1>14, <1>15 DEF Next, Step, Done

\* The control of the run: the explorers are opened and asked in their order,
\* and every place of the run has what belongs to it.
THEOREM Control == Spec => []CtlInv
BY InitCtl, NextCtl, PTL DEF Spec

-----------------------------------------------------------------------------
\* Types and roots

\* The explorers in TypeOK's spelling.
LEMMA InALineToo ==
  ASSUME NEW a, NEW b, NEW c
  PROVE  /\ <<>> \o <<>> \o <<>> = <<>>
         /\ <<a>> \o <<>> \o <<>> = <<a>>
         /\ <<>> \o <<b>> \o <<>> = <<b>>
         /\ <<a>> \o <<b>> \o <<>> = <<a, b>>
         /\ <<>> \o <<b>> \o <<c>> = <<b, c>>
         /\ <<a>> \o <<b>> \o <<c>> = <<a, b, c>>
<1> DEFINE S == {a, b, c}
<1>1. /\ <<>> \in Seq(S) /\ <<a>> \in Seq(S) /\ <<b>> \in Seq(S)
      /\ <<a, b>> \in Seq(S) /\ <<b, c>> \in Seq(S)
      /\ a \in S /\ b \in S /\ c \in S
  OBVIOUS
<1>2. /\ <<>> \o <<>> = <<>> /\ <<>> \o <<b>> = <<b>> /\ <<a>> \o <<>> = <<a>>
      /\ <<b>> \o <<>> = <<b>> /\ <<a, b>> \o <<>> = <<a, b>>
  BY <1>1, ConcatEmptySeq
<1>3. <<a>> \o <<b>> = <<a, b>> /\ <<b>> \o <<c>> = <<b, c>>
  <2>1. /\ Append(<<a>>, b) = <<a>> \o <<b>>
        /\ Append(<<b>>, c) = <<b>> \o <<c>>
    BY <1>1, AppendIsConcat
  <2>2. Append(<<a>>, b) = <<a, b>> /\ Append(<<b>>, c) = <<b, c>>
    BY InALine
  <2>3. QED
    BY <2>1, <2>2
<1>4. <<a, b>> \o <<c>> = <<a, b, c>>
  <2>1. Append(<<a, b>>, c) = <<a, b>> \o <<c>>
    BY <1>1, AppendIsConcat
  <2>2. QED
    BY <2>1, InALine
<1>5. QED
  BY <1>2, <1>3, <1>4

\* The end of a sequence is what is left from a place in it.
LEMMA EndIs ==
  ASSUME NEW S, NEW s \in Seq(S), NEW t \in Seq(S), Ends(s, t)
  PROVE  \E i \in 1..(Len(t) + 1) : s = SubSeq(t, i, Len(t))
<1> DEFINE M == Len(s)
           N == Len(t)
           i == (N - M) + 1
           u == SubSeq(t, i, N)
<1>1. /\ M \in Nat /\ N \in Nat /\ M <= N
      /\ \A j \in 1..M : s[j] = t[(N - M) + j]
      /\ \A j \in 1..N : t[j] \in S
  BY LenProperties, ElementOfSeq DEF Ends
<1> HIDE DEF M, N
<1>2. i \in 1..(N + 1) /\ i \in Int /\ N \in Int
  BY <1>1
<1>3. \A j \in i..N : t[j] \in S
  BY <1>1, <1>2
<1>4. /\ u \in Seq(S) /\ Len(u) = (IF i <= N THEN N - i + 1 ELSE 0)
      /\ \A j \in 1..(N - i + 1) : u[j] = t[i + j - 1]
  BY <1>2, <1>3, SubSeqProperties
<1>5. Len(u) = M /\ N - i + 1 = M
  BY <1>1, <1>4
<1>6. \A j \in 1..M : u[j] = s[j]
  <2>1. \A j \in 1..M : i + j - 1 = (N - M) + j
    BY <1>1
  <2>2. QED
    BY <1>1, <1>4, <1>5, <2>1
<1>7. s = u
  BY <1>4, <1>5, <1>6, SeqEqual DEF M
<1>8. QED
  BY <1>2, <1>7 DEF N

\* The control of the run has the type invariant.
LEMMA TypeHolds == CtlInv => TypeOK
<1> SUFFICES ASSUME CtlInv PROVE TypeOK
  OBVIOUS
<1> DEFINE All == {d \o p \o c : d \in {<<>>, <<"docker">>},
                                 p \in {<<>>, <<"podman">>},
                                 c \in {<<>>, <<"containerd">>}}
<1>1. /\ <<>> \o <<>> \o <<>> \in All /\ <<"docker">> \o <<>> \o <<>> \in All
      /\ <<>> \o <<"podman">> \o <<>> \in All
      /\ <<"docker">> \o <<"podman">> \o <<>> \in All
      /\ <<>> \o <<"podman">> \o <<"containerd">> \in All
      /\ <<"docker">> \o <<"podman">> \o <<"containerd">> \in All
  OBVIOUS
<1> HIDE DEF All
<1>2. /\ <<>> \in All /\ <<"docker">> \in All /\ <<"podman">> \in All
      /\ <<"docker", "podman">> \in All /\ <<"podman", "containerd">> \in All
      /\ <<"docker", "podman", "containerd">> \in All
  <2>1. /\ <<>> \o <<>> \o <<>> = <<>>
        /\ <<"docker">> \o <<>> \o <<>> = <<"docker">>
        /\ <<>> \o <<"podman">> \o <<>> = <<"podman">>
        /\ <<"docker">> \o <<"podman">> \o <<>> = <<"docker", "podman">>
        /\ <<>> \o <<"podman">> \o <<"containerd">> =
             <<"podman", "containerd">>
        /\ <<"docker">> \o <<"podman">> \o <<"containerd">> =
             <<"docker", "podman", "containerd">>
    BY InALineToo
  <2>2. QED
    BY <1>1, <2>1
<1>3. opened \in All
  BY <1>2 DEF CtlInv, OpenedInv, MayBeOpened
<1>4. \E i \in 1..(Len(opened) + 1) : xplrs = SubSeq(opened, i, Len(opened))
  BY InOrder, EndIs DEF CtlInv, OpenedInv
<1>5. pc \in {"start", "docker", "podman", "containerd", "next", "loop",
              "found", "end"}
  BY DEF CtlInv, PlaceInv, Opening
<1>6. QED
  BY <1>3, <1>4, <1>5 DEF TypeOK, CtlInv, PlaceInv, NotesInv, All

\* In every run the explorers are opened in one order and asked from first to
\* last, and what is noted of them fits the place of the run.
THEOREM TypeCorrect == Spec => []TypeOK
BY Control, TypeHolds, PTL

\* A path below another, and a path beside another.
LEMMA BelowIs ==
  ASSUME NEW S, NEW p \in Seq(S), NEW q \in Seq(S)
  PROVE  IsPrefix(p, p \o q)
<1>1. /\ Len(p) \in Nat /\ Len(q) \in Nat /\ p \o q \in Seq(S)
      /\ Len(p \o q) = Len(p) + Len(q)
      /\ \A i \in 1..(Len(p) + Len(q)) :
           (p \o q)[i] = IF i <= Len(p) THEN p[i] ELSE q[i - Len(p)]
  BY ConcatProperties, LenProperties
<1>2. \A i \in 1..Len(p) : i \in 1..(Len(p) + Len(q)) /\ i <= Len(p)
  BY <1>1
<1>3. \A i \in 1..Len(p) : (p \o q)[i] = p[i] /\ p[i] \in S
  BY <1>1, <1>2, ElementOfSeq
<1>4. SubSeq(p, 1, Len(p)) = p
  BY SubSeqFull
<1> DEFINE u == SubSeq(p \o q, 1, Len(p))
<1>5. /\ u \in Seq(S) /\ Len(u) = (IF 1 <= Len(p) THEN Len(p) - 1 + 1 ELSE 0)
      /\ \A i \in 1..(Len(p) - 1 + 1) : u[i] = (p \o q)[1 + i - 1]
  <2>1. \A i \in 1..Len(p) : (p \o q)[i] \in S
    BY <1>3
  <2>2. QED
    BY <1>1, <2>1, SubSeqProperties
<1>6. Len(u) = Len(p)
  BY <1>1, <1>5
<1>7. \A i \in 1..Len(p) : u[i] = p[i]
  <2>1. Len(p) - 1 + 1 = Len(p) /\ \A i \in 1..Len(p) : 1 + i - 1 = i
    BY <1>1
  <2>2. QED
    BY <1>3, <1>5, <2>1
<1>8. u = p
  BY <1>5, <1>6, <1>7, SeqEqual
<1>9. QED
  BY <1>1, <1>4, <1>8 DEF IsPrefix

\* The directory of a path.
LEMMA FrontIs ==
  ASSUME NEW S, NEW p \in Seq(S), p # <<>>
  PROVE  /\ Front(p) \in Seq(S) /\ Len(Front(p)) = Len(p) - 1
         /\ Len(p) \in Nat \ {0}
         /\ \A i \in 1..(Len(p) - 1) : Front(p)[i] = p[i]
<1> DEFINE N == Len(p)
           f == SubSeq(p, 1, N - 1)
<1>1. N \in Nat \ {0} /\ \A i \in 1..N : p[i] \in S
  BY EmptySeq, ElementOfSeq
<1> HIDE DEF N
<1>2. \A i \in 1..(N - 1) : p[i] \in S
  BY <1>1
<1>3. /\ f \in Seq(S)
      /\ Len(f) = IF 1 <= N - 1 THEN (N - 1) - 1 + 1 ELSE 0
      /\ \A i \in 1..((N - 1) - 1 + 1) : f[i] = p[1 + i - 1]
  BY <1>1, <1>2, SubSeqProperties
<1>4. Len(f) = N - 1 /\ (N - 1) - 1 + 1 = N - 1
      /\ \A i \in 1..(N - 1) : 1 + i - 1 = i
  BY <1>1, <1>3
<1>5. \A i \in 1..(N - 1) : f[i] = p[i]
  BY ONLY <1>3, <1>4
<1>6. QED
  BY <1>1, <1>3, <1>4, <1>5 DEF Front, N

\* The directory of what has been appended to a path is the path.
LEMMA FrontOfAppended ==
  ASSUME NEW S, NEW p \in Seq(S), NEW n \in S
  PROVE  /\ Front(Append(p, n)) = p /\ Last(Append(p, n)) = n
         /\ Append(p, n) \in Seq(S)
<1> DEFINE s == Append(p, n)
<1>1. /\ s \in Seq(S) /\ Len(s) = Len(p) + 1 /\ Len(p) \in Nat
      /\ \A i \in 1..Len(p) : s[i] = p[i]
      /\ s[Len(p) + 1] = n
  BY AppendProperties, LenProperties
<1> HIDE DEF s
<1>2. s # <<>>
  BY <1>1, EmptySeq
<1>3. /\ Front(s) \in Seq(S) /\ Len(Front(s)) = Len(s) - 1
      /\ \A i \in 1..(Len(s) - 1) : Front(s)[i] = s[i]
  BY <1>1, <1>2, FrontIs
<1>4. Len(s) - 1 = Len(p)
  BY <1>1
<1>5. Front(s) = p
  BY <1>1, <1>3, <1>4, SeqEqual
<1>6. Last(s) = n
  BY <1>1 DEF Last
<1>7. QED
  BY <1>1, <1>5, <1>6 DEF s

\* A sibling is in the same directory and has the new name.
LEMMA BesideIs ==
  ASSUME NEW S, NEW p \in Seq(S), p # <<>>, NEW n \in S
  PROVE  /\ Front(Sibling(p, n)) = Front(p)
         /\ Last(Sibling(p, n)) = n
<1>1. Front(p) \in Seq(S)
  BY FrontIs
<1>2. QED
  BY <1>1, FrontOfAppended DEF Sibling

\* What is done at the end of a path is done at the end of the path below
\* another.
LEMMA EndsBelow ==
  ASSUME NEW S, NEW p \in Seq(S), NEW q \in Seq(S), NEW n \in S
  PROVE  /\ Append(p \o q, n) = p \o Append(q, n)
         /\ q # <<>> => p \o q # <<>> /\ Front(p \o q) = p \o Front(q)
<1>1. \A r \in Seq(S) : /\ Len(r) \in Nat /\ p \o r \in Seq(S)
                        /\ Len(p \o r) = Len(p) + Len(r)
                        /\ \A i \in 1..(Len(p) + Len(r)) :
                             (p \o r)[i] = IF i <= Len(p) THEN p[i]
                                           ELSE r[i - Len(p)]
  BY ConcatProperties, LenProperties
<1>2. Len(p) \in Nat /\ Len(q) \in Nat
  BY LenProperties
<1>3. ASSUME NEW r \in Seq(S), NEW x \in S
      PROVE  Append(p \o r, x) = p \o Append(r, x)
  <2> DEFINE a == Append(r, x)
             s == Append(p \o r, x)
  <2>1. /\ a \in Seq(S) /\ Len(a) = Len(r) + 1
        /\ \A i \in 1..Len(r) : a[i] = r[i]
        /\ a[Len(r) + 1] = x
    BY <1>3, AppendProperties
  <2>2. /\ s \in Seq(S) /\ Len(s) = Len(p \o r) + 1
        /\ \A i \in 1..Len(p \o r) : s[i] = (p \o r)[i]
        /\ s[Len(p \o r) + 1] = x
    BY <1>1, <1>3, AppendProperties
  <2> HIDE DEF a, s
  <2>3. Len(r) \in Nat /\ Len(p \o r) = Len(p) + Len(r)
    BY <1>1, <1>3
  <2>4. /\ p \o a \in Seq(S) /\ Len(p \o a) = Len(s)
        /\ Len(s) = Len(p) + Len(r) + 1
    <3>1. Len(p \o a) = Len(p) + Len(a) /\ p \o a \in Seq(S)
      BY ONLY <1>1, <2>1
    <3>2. QED
      BY <1>2, <2>1, <2>2, <2>3, <3>1
  <2>5. ASSUME NEW i \in 1..Len(s) PROVE s[i] = (p \o a)[i]
    <3>1. (p \o a)[i] = IF i <= Len(p) THEN p[i] ELSE a[i - Len(p)]
      BY <1>1, <1>2, <2>1, <2>3, <2>4, <2>5
    <3>2. CASE i <= Len(p) + Len(r)
      <4>1. s[i] = (p \o r)[i]
        BY <1>2, <2>2, <2>3, <2>4, <2>5, <3>2
      <4>2. s[i] = IF i <= Len(p) THEN p[i] ELSE r[i - Len(p)]
        BY <1>1, <1>2, <1>3, <2>3, <2>4, <2>5, <3>2, <4>1
      <4>3. i > Len(p) => i - Len(p) \in 1..Len(r)
        BY <1>2, <2>3, <2>4, <2>5, <3>2
      <4>4. QED
        BY <1>2, <2>1, <2>4, <2>5, <3>1, <4>2, <4>3
    <3>3. CASE i = Len(p) + Len(r) + 1
      <4>1. i > Len(p) /\ i - Len(p) = Len(r) + 1
        BY <1>2, <2>3, <3>3
      <4>2. QED
        BY <1>2, <2>1, <2>2, <2>3, <3>1, <3>3, <4>1
    <3>4. QED
      <4>1. i \in Nat /\ i <= Len(p) + Len(r) + 1
        BY ONLY <1>2, <2>3, <2>4, <2>5
      <4>2. i <= Len(p) + Len(r) \/ i = Len(p) + Len(r) + 1
        BY ONLY <1>2, <2>3, <4>1
      <4>3. QED
        BY ONLY <3>2, <3>3, <4>2
  <2>6. s = p \o a
    BY <2>2, <2>4, <2>5, SeqEqual
  <2>7. QED
    BY <2>6 DEF a, s
<1>4. ASSUME q # <<>> PROVE p \o q # <<>> /\ Front(p \o q) = p \o Front(q)
  <2> DEFINE f == Front(q)
             x == q[Len(q)]
  <2>1. /\ f \in Seq(S) /\ Len(f) = Len(q) - 1 /\ Len(q) \in Nat \ {0}
        /\ \A i \in 1..(Len(q) - 1) : f[i] = q[i]
    BY <1>4, FrontIs
  <2>2. x \in S
    BY <2>1, ElementOfSeq
  <2> HIDE DEF f, x
  <2>3. q = Append(f, x)
    <3>1. /\ Append(f, x) \in Seq(S) /\ Len(Append(f, x)) = Len(f) + 1
          /\ \A i \in 1..Len(f) : Append(f, x)[i] = f[i]
          /\ Append(f, x)[Len(f) + 1] = x
      BY <2>1, <2>2, AppendProperties
    <3>2. \A i \in 1..Len(q) : i \in 1..Len(f) \/ i = Len(f) + 1
      BY <2>1
    <3>3. \A i \in 1..Len(q) : Append(f, x)[i] = q[i]
      BY <2>1, <3>1, <3>2 DEF x
    <3>4. Len(Append(f, x)) = Len(q)
      BY <2>1, <3>1
    <3>5. QED
      BY <3>1, <3>3, <3>4, SeqEqual
  <2>4. p \o q = Append(p \o f, x)
    BY <1>3, <2>1, <2>2, <2>3
  <2>5. p \o f \in Seq(S)
    BY <1>1, <2>1
  <2>6. Front(p \o q) = p \o f
    <3>1. PICK u : u = p \o f
      OBVIOUS
    <3>2. u \in Seq(S)
      BY <2>5, <3>1
    <3>3. Front(Append(u, x)) = u
      BY ONLY <2>2, <3>2, FrontOfAppended
    <3>4. QED
      BY ONLY <2>4, <3>1, <3>3
  <2>7. p \o q # <<>>
    BY <1>1, <1>2, <2>1, EmptySeq
  <2>8. QED
    BY <2>6, <2>7 DEF f
<1>5. QED
  BY <1>3, <1>4

\* A name that does not lead above the path leads to the same place below
\* another.
LEMMA EnteredBelow ==
  ASSUME NEW S, NEW p \in Seq(S), NEW q \in Seq(S), NEW n \in S,
         ~(n = ".." /\ q = <<>>)
  PROVE  Entered(p \o q, n) = p \o Entered(q, n)
<1>0. /\ Append(p \o q, n) = p \o Append(q, n)
      /\ q # <<>> => p \o q # <<>> /\ Front(p \o q) = p \o Front(q)
  BY ONLY EndsBelow, p \in Seq(S), q \in Seq(S), n \in S, Zenon
<1>1. CASE n \in {"", "."}
  BY <1>1 DEF Entered
<1>2. CASE n = ".."
  <2>1. p \o q # <<>> /\ Front(p \o q) = p \o Front(q)
    <3>1. q # <<>>
      BY <1>2
    <3>2. QED
      BY ONLY <1>0, <3>1
  <2>2. QED
    BY <1>2, <2>1 DEF Entered
<1>3. CASE n \notin {"", ".", ".."}
  <2>1. Append(p \o q, n) = p \o Append(q, n)
    BY ONLY <1>0
  <2>2. QED
    BY <1>3, <2>1 DEF Entered
<1>4. QED
  BY <1>1, <1>2, <1>3

\* Entering a name gives a path.
LEMMA EnteredTyped ==
  ASSUME NEW S, NEW p \in Seq(S), NEW n \in S
  PROVE  Entered(p, n) \in Seq(S)
<1>1. Append(p, n) \in Seq(S) /\ <<>> \in Seq(S)
  BY FrontOfAppended, EmptySeq
<1>2. p # <<>> => Front(p) \in Seq(S)
  BY FrontIs
<1>3. QED
  BY <1>1, <1>2 DEF Entered

\* A walk enters one name after another.
LEMMA WalkSteps ==
  ASSUME NEW S, NEW path \in Seq(S), NEW names \in Seq(S)
  PROVE  /\ Walk(path, names)[0] = path
         /\ \A k \in 0..Len(names) : Walk(path, names)[k] \in Seq(S)
         /\ \A k \in Nat : k + 1 \in 1..Len(names) =>
              Walk(path, names)[k + 1] =
                Entered(Walk(path, names)[k], names[k + 1])
<1> DEFINE N == Len(names)
           V == Seq(S)
           Is(f) == f = [k \in 0..N |-> IF k = 0 THEN path
                                        ELSE Entered(f[k - 1], names[k])]
           walk == CHOOSE f : Is(f)
<1>1. N \in Nat /\ \A k \in 1..N : names[k] \in S
  BY LenProperties, ElementOfSeq
<1>2. Walk(path, names) = walk
  BY DEF Walk
<1>3. \E f \in [Nat -> V] : /\ f[0] = path
                            /\ \A n \in Nat : n + 1 \in 1..N =>
                                 f[n + 1] = Entered(f[n], names[n + 1])
  <2> DEFINE step == [p \in Nat \X V |->
                       IF p[1] + 1 \in 1..N
                       THEN Entered(p[2], names[p[1] + 1]) ELSE p[2]]
  <2>1. \A n \in Nat, v \in V :
          step[<<n, v>>] =
            IF n + 1 \in 1..N THEN Entered(v, names[n + 1]) ELSE v
    OBVIOUS
  <2>2. step \in Steps(V)
    BY <1>1, EnteredTyped DEF Steps
  <2> HIDE DEF step
  <2>3. path \in V
    OBVIOUS
  <2> HIDE DEF V
  <2>4. PICK f \in [Nat -> V] : Iterates(f, path, step)
    BY ONLY <2>2, <2>3, Recursion
  <2>5. f[0] = path /\ \A n \in Nat : f[n + 1] = step[<<n, f[n]>>]
    BY <2>4 DEF Iterates
  <2>6. QED
    BY <2>1, <2>5
<1>4. PICK f \in [Nat -> V] : /\ f[0] = path
                              /\ \A n \in Nat : n + 1 \in 1..N =>
                                   f[n + 1] = Entered(f[n], names[n + 1])
  BY <1>3
<1> HIDE DEF V, N
<1>5. Is(walk)
  <2> DEFINE g == [k \in 0..N |-> f[k]]
  <2>1. ASSUME NEW k \in 0..N
        PROVE  g[k] = IF k = 0 THEN path ELSE Entered(g[k - 1], names[k])
    <3>1. CASE k = 0
      BY <1>4, <3>1
    <3>2. CASE k # 0
      <4>1. /\ k - 1 \in Nat /\ (k - 1) + 1 = k /\ k \in 1..N
            /\ k - 1 \in 0..N
        BY <1>1, <3>2
      <4>2. f[k] = Entered(f[k - 1], names[k])
        BY <1>4, <4>1
      <4>3. QED
        BY <3>2, <4>1, <4>2
    <3>3. QED
      BY <3>1, <3>2
  <2>2. Is(g)
    <3>1. g = [k \in 0..N |-> g[k]]
      OBVIOUS
    <3> HIDE DEF g
    <3>2. QED
      BY <2>1, <3>1
  <2> HIDE DEF Is, g
  <2>3. QED
    BY <2>2
<1> HIDE DEF walk
<1>6. walk[0] = path
  BY <1>1, <1>5
<1>7. ASSUME NEW k \in Nat, k + 1 \in 1..N
      PROVE  walk[k + 1] = Entered(walk[k], names[k + 1])
  <2>1. k + 1 # 0 /\ (k + 1) - 1 = k /\ k + 1 \in 0..N
    BY <1>1, <1>7
  <2>2. QED
    BY <1>5, <2>1
<1>8. \A k \in 0..N : walk[k] \in V
  <2> DEFINE P == {k \in Nat : k <= N => walk[k] = f[k]}
  <2>1. 0 \in P
    BY <1>4, <1>6
  <2>2. ASSUME NEW k \in Nat, k \in P PROVE k + 1 \in P
    BY <1>1, <1>4, <1>7, <2>2
  <2>3. Nat \subseteq P
    <3> HIDE DEF P
    <3>1. QED
      BY ONLY <2>1, <2>2, Induction
  <2>4. QED
    BY <1>1, <1>4, <2>3
<1>9. QED
  BY <1>2, <1>6, <1>7, <1>8 DEF V, N

\* Names that do not climb lead to the same place below any path.
LEMMA JoinIs ==
  ASSUME NEW S, NEW path \in Seq(S), NEW names \in Seq(S), ~Climbs(names)
  PROVE  /\ Join(path, names) = path \o Join(<<>>, names)
         /\ Join(<<>>, names) \in Seq(S)
<1> DEFINE N == Len(names)
           at == Walk(path, names)
           own == Walk(<<>>, names)
           P == {k \in Nat : k <= N => at[k] = path \o own[k]}
<1>1. N \in Nat /\ DOMAIN names = 1..N /\ \A k \in 1..N : names[k] \in S
  BY LenProperties, ElementOfSeq
<1>2. <<>> \in Seq(S) /\ path \o <<>> = path
  <2>1. <<>> \in Seq(S)
    BY EmptySeq
  <2>2. QED
    BY <2>1, ConcatEmptySeq
<1>3. /\ at[0] = path
      /\ \A k \in Nat : k + 1 \in 1..N =>
           at[k + 1] = Entered(at[k], names[k + 1])
  BY WalkSteps
<1>4. /\ own[0] = <<>> /\ \A k \in 0..N : own[k] \in Seq(S)
      /\ \A k \in Nat : k + 1 \in 1..N =>
           own[k + 1] = Entered(own[k], names[k + 1])
  <2>1. PICK e : e = <<>>
    OBVIOUS
  <2>2. e \in Seq(S)
    BY <1>2, <2>1
  <2>3. /\ Walk(e, names)[0] = e
        /\ \A k \in 0..Len(names) : Walk(e, names)[k] \in Seq(S)
        /\ \A k \in Nat : k + 1 \in 1..Len(names) =>
             Walk(e, names)[k + 1] = Entered(Walk(e, names)[k], names[k + 1])
    BY ONLY <2>2, WalkSteps, names \in Seq(S)
  <2>4. QED
    BY ONLY <2>1, <2>3 DEF N, own
<1>5. \A k \in 1..N : ~(names[k] = ".." /\ own[k - 1] = <<>>)
  BY <1>1 DEF Climbs
<1> HIDE DEF N, at, own
<1>6. 0 \in P
  BY <1>2, <1>3, <1>4
<1>7. ASSUME NEW k \in Nat, k \in P PROVE k + 1 \in P
  <2> SUFFICES ASSUME k + 1 <= N PROVE at[k + 1] = path \o own[k + 1]
    OBVIOUS
  <2>1. /\ k + 1 \in 1..N /\ k \in 0..N /\ k <= N /\ (k + 1) - 1 = k
    BY <1>1
  <2>2. at[k] = path \o own[k] /\ own[k] \in Seq(S)
    BY <1>4, <1>7, <2>1
  <2>3. ~(names[k + 1] = ".." /\ own[k] = <<>>) /\ names[k + 1] \in S
    BY <1>1, <1>5, <2>1
  <2>4. Entered(path \o own[k], names[k + 1]) =
          path \o Entered(own[k], names[k + 1])
    <3>1. PICK q, n : q = own[k] /\ n = names[k + 1]
      OBVIOUS
    <3>2. q \in Seq(S) /\ n \in S /\ ~(n = ".." /\ q = <<>>)
      BY <2>2, <2>3, <3>1
    <3>3. Entered(path \o q, n) = path \o Entered(q, n)
      BY ONLY SMTT(40), <3>2, EnteredBelow, path \in Seq(S)
    <3>4. QED
      BY ONLY <3>1, <3>3
  <2>5. QED
    BY <1>3, <1>4, <2>1, <2>2, <2>4
<1>8. Nat \subseteq P
  <2> HIDE DEF P
  <2>1. QED
    BY ONLY <1>6, <1>7, Induction
<1>9. at[N] = path \o own[N] /\ own[N] \in Seq(S)
  BY <1>1, <1>4, <1>8
<1>10. QED
  BY <1>9 DEF Join, N, at, own

\* Paths are made of names, and literals are names.
LEMMA PathsAre == Path \subseteq Seq(Texts) /\ Seq(STRING) \subseteq Seq(Texts)
<1>1. STRING \subseteq Texts /\ STRING \ {"", ".", ".."} \subseteq Texts
  BY DEF Texts
<1>2. QED
  BY <1>1, SeqMonotonic DEF Path

\* What a configuration names has names, and one that is not rooted glues two
\* of them together.
LEMMA SettingIs ==
  ASSUME NEW setting \in Setting, NEW name \in Texts,
         NEW s, s = Or(setting, DefaultRoot(name))
  PROVE  /\ s.rooted \in BOOLEAN /\ s.names \in Seq(Texts)
         /\ s.rooted => Unslashed(s) = s.names
         /\ \E S : Seq(Texts) \subseteq Seq(S) /\ Unslashed(s) \in Seq(S)
<1>1. s.rooted \in BOOLEAN /\ s.names \in Seq(Texts)
  <2>1. CASE s = setting
    BY <2>1, PathsAre DEF Setting
  <2>2. CASE s = DefaultRoot(name)
    <3>1. "var" \in Texts /\ "lib" \in Texts
      BY DEF Texts
    <3>2. <<"var", "lib", name>> \in Seq(Texts)
      BY <3>1
    <3>3. QED
      BY ONLY <2>2, <3>2 DEF DefaultRoot
  <2>3. QED
    BY <2>1, <2>2 DEF Or
<1>2. s.rooted => Unslashed(s) = s.names
  BY DEF Unslashed
<1>3. \E S : Seq(Texts) \subseteq Seq(S) /\ Unslashed(s) \in Seq(S)
  <2>1. CASE Unslashed(s) = s.names
    BY <1>1, <2>1
  <2>2. CASE Unslashed(s) # s.names
    <3> DEFINE glued == s.names[1] \o s.names[2]
               S == Texts \cup {glued}
               rest == SubSeq(s.names, 3, Len(s.names))
    <3>1. Unslashed(s) = <<glued>> \o rest
      BY <2>2 DEF Unslashed
    <3>2. Seq(Texts) \subseteq Seq(S)
      BY SeqMonotonic
    <3> HIDE DEF glued
    <3>3. <<glued>> \in Seq(S)
      OBVIOUS
    <3>4. rest \in Seq(S)
      <4>1. Len(s.names) \in Nat /\ \A i \in 1..Len(s.names) : s.names[i] \in S
        BY <1>1, <3>2, LenProperties, ElementOfSeq
      <4>2. \A i \in 3..Len(s.names) : s.names[i] \in S
        BY <4>1
      <4>3. s.names \in Seq(S)
        BY <1>1, <3>2
      <4> HIDE DEF S
      <4>4. QED
        BY <4>1, <4>2, <4>3, SubSeqProperties
    <3>5. <<glued>> \o rest \in Seq(S)
      <4> HIDE DEF S, rest
      <4>1. QED
        BY <3>3, <3>4, ConcatProperties
    <3>6. QED
      BY <3>1, <3>2, <3>5
  <2>3. QED
    BY <2>1, <2>2
<1>4. QED
  BY <1>1, <1>2, <1>3

\* A root that the configuration of an image names.
SeenInImage(image, s, root) ==
  /\ s.rooted /\ ~Climbs(s.names) => root = image \o Join(<<>>, s.names)
  /\ ~s.rooted /\ ~Climbs(Unslashed(s)) => IsPrefix(image, root)

\* Joined to the image, it is where the image has it.
LEMMA JoinFits ==
  ASSUME NEW setting \in Setting, NEW name \in Texts, NEW image \in Seq(Texts),
         NEW s, s = Or(setting, DefaultRoot(name))
  PROVE  SeenInImage(image, s, Join(image, Unslashed(s)))
<1>1. /\ s.rooted \in BOOLEAN /\ s.names \in Seq(Texts)
      /\ s.rooted => Unslashed(s) = s.names
      /\ \E S : Seq(Texts) \subseteq Seq(S) /\ Unslashed(s) \in Seq(S)
  BY SettingIs
<1>2. ASSUME s.rooted, ~Climbs(s.names)
      PROVE  Join(image, Unslashed(s)) = image \o Join(<<>>, s.names)
  BY ONLY <1>1, <1>2, JoinIs, image \in Seq(Texts)
<1>3. ASSUME ~Climbs(Unslashed(s))
      PROVE  IsPrefix(image, Join(image, Unslashed(s)))
  <2>1. PICK S : Seq(Texts) \subseteq Seq(S) /\ Unslashed(s) \in Seq(S)
    BY <1>1
  <2>2. image \in Seq(S)
    BY <2>1
  <2>3. /\ Join(image, Unslashed(s)) = image \o Join(<<>>, Unslashed(s))
        /\ Join(<<>>, Unslashed(s)) \in Seq(S)
    BY <1>3, <2>1, <2>2, JoinIs
  <2>4. QED
    BY <2>2, <2>3, BelowIs
<1>4. QED
  BY <1>2, <1>3 DEF SeenInImage

\* The roots of InitializeRuntime belong where they should.
LEMMA RootsFit == CtlInv => RootsBelong
<1> SUFFICES ASSUME CtlInv, pc # "start" PROVE RootsBelong
  BY DEF RootsBelong
<1>1. /\ dockerRoot = DockerRoot /\ containerdRoot = ContainerdRoot(DockerRoot)
      /\ flags \in Flags /\ IsDisk(disk)
  BY Given DEF CtlInv, ConfigInv
<1>2. /\ flags.docker \in Seq(Texts) /\ flags.containerd \in Seq(Texts)
      /\ flags.image \in Seq(Texts)
  BY <1>1, PathsAre DEF Flags
<1>3. /\ disk.dataRoot \in Setting /\ disk.configRoot \in Setting
      /\ "docker" \in Texts /\ "containerd" \in Texts
  BY <1>1 DEF IsDisk, Texts
<1>4. \A p \in Seq(Texts) : p # <<>> =>
        /\ Front(Sibling(p, "docker")) = Front(p)
        /\ Last(Sibling(p, "docker")) = "docker"
        /\ Front(Sibling(p, "containerd")) = Front(p)
        /\ Last(Sibling(p, "containerd")) = "containerd"
  BY <1>3, BesideIs
<1> DEFINE Belongs(flag, root, setting, name, other) ==
             CASE flag # <<>> -> root = flag
               [] flag = <<>> /\ flags.image # <<>> ->
                    SeenInImage(flags.image, Or(setting, DefaultRoot(name)),
                                root)
               [] OTHER ->
                    IF other = <<>> THEN root = <<>>
                    ELSE Front(root) = Front(other) /\ Last(root) = name
<1>5. Belongs(flags.docker, dockerRoot, disk.dataRoot, "docker",
              flags.containerd)
  <2>1. CASE flags.docker # <<>>
    BY <1>1, <2>1 DEF DockerRoot
  <2>2. CASE flags.docker = <<>> /\ flags.image # <<>>
    <3>1. dockerRoot =
            Join(flags.image,
                 Unslashed(Or(disk.dataRoot, DefaultRoot("docker"))))
      BY <1>1, <2>2 DEF DockerRoot
    <3>2. SeenInImage(flags.image, Or(disk.dataRoot, DefaultRoot("docker")),
                      dockerRoot)
      BY <1>2, <1>3, <3>1, JoinFits
    <3>3. QED
      BY <2>2, <3>2
  <2>3. CASE flags.docker = <<>> /\ flags.image = <<>>
    BY <1>1, <1>2, <1>4, <2>3 DEF DockerRoot
  <2>4. QED
    BY <2>1, <2>2, <2>3
<1>6. Belongs(flags.containerd, containerdRoot, disk.configRoot, "containerd",
              flags.docker)
  <2>1. CASE flags.containerd # <<>>
    BY <1>1, <2>1 DEF ContainerdRoot
  <2>2. CASE flags.containerd = <<>> /\ flags.image # <<>>
    <3>1. containerdRoot =
            Join(flags.image,
                 Unslashed(Or(disk.configRoot, DefaultRoot("containerd"))))
      BY <1>1, <2>2 DEF ContainerdRoot
    <3>2. SeenInImage(flags.image,
                      Or(disk.configRoot, DefaultRoot("containerd")),
                      containerdRoot)
      BY <1>2, <1>3, <3>1, JoinFits
    <3>3. QED
      BY <2>2, <3>2
  <2>3. CASE flags.containerd = <<>> /\ flags.image = <<>>
    <3>1. DockerRoot = flags.docker
      BY <2>3 DEF DockerRoot
    <3>2. QED
      BY <1>1, <1>2, <1>4, <2>3, <3>1 DEF ContainerdRoot
  <2>4. QED
    BY <2>1, <2>2, <2>3
<1>7. QED
  BY <1>5, <1>6 DEF RootsBelong, SeenInImage

\* For all flags and all that is configured in the image, a root that is not
\* given is the configured directory as the image has it, however the path is
\* spelt as long as it does not climb above its root, or beside the root that
\* is given: env.go:75-96.
THEOREM RootsAlwaysBelong == Spec => []RootsBelong
BY Control, RootsFit, PTL

-----------------------------------------------------------------------------
\* Listings

Rows ==
  [type : Texts, ns : Texts, id : Texts, name : Texts, pid : Int,
   status : Texts, labels : Labels, support : BOOLEAN]
Pics == [type : Texts, ns : Texts, id : Texts, support : BOOLEAN]

Results(T) == [res : {"ok", "error", "panic"}, items : Seq(T)]

\* seqs has the items of the parts.
ItemsOfParts(seqs, parts) ==
  DOMAIN seqs = DOMAIN parts
  /\ \A k \in DOMAIN parts : seqs[k] = parts[k].items

\* A listing succeeds if its parts do, and has then all that they have.
LEMMA CollectIs ==
  ASSUME NEW T, NEW parts \in Seq(Results(T))
  PROVE  /\ Collect(parts) \in Results(T)
         /\ Collect(parts).res = "ok" <=>
              \A i \in DOMAIN parts : parts[i].res = "ok"
         /\ Collect(parts).res # "ok" =>
              /\ Collect(parts).items = <<>>
              /\ \E i \in DOMAIN parts : parts[i].res = Collect(parts).res
         /\ Collect(parts).res = "ok" =>
              /\ ToSet(Collect(parts).items) =
                   UNION {ToSet(parts[i].items) : i \in DOMAIN parts}
              /\ \E seqs \in Seq(Seq(T)) :
                   /\ ItemsOfParts(seqs, parts)
                   /\ Collect(parts).items = FlattenSeq(seqs)
<1> DEFINE stops == {i \in DOMAIN parts : parts[i].res # "ok"}
           seqs == [k \in DOMAIN parts |-> parts[k].items]
           c == Collect(parts)
<1>1. /\ Len(parts) \in Nat /\ DOMAIN parts = 1..Len(parts)
      /\ \A i \in DOMAIN parts : parts[i] \in Results(T)
  BY LenProperties, ElementOfSeq
<1>2. \A i \in DOMAIN parts : /\ parts[i].items \in Seq(T)
                              /\ parts[i].res \in {"ok", "error", "panic"}
  BY <1>1 DEF Results
<1>3. CASE stops = {}
  <2>1. c = Ok(FlattenSeq(seqs))
    BY <1>3 DEF Collect
  <2>2. seqs \in Seq(Seq(T))
    <3> DEFINE V == Seq(T)
    <3>1. seqs = [k \in DOMAIN parts |-> seqs[k]]
      OBVIOUS
    <3>2. \A k \in DOMAIN parts : seqs[k] \in V
      BY <1>2
    <3> HIDE DEF V, seqs
    <3>3. seqs \in Seq(V)
      BY <3>1, <3>2, SequenceOf
    <3>4. QED
      BY <3>3 DEF V
  <2>3. ItemsOfParts(seqs, parts)
    BY DEF ItemsOfParts
  <2> HIDE DEF seqs
  <2>4. /\ FlattenSeq(seqs) \in Seq(T)
        /\ ToSet(FlattenSeq(seqs)) =
             UNION {ToSet(seqs[i]) : i \in DOMAIN seqs}
    BY <2>2, Flattened
  <2>5. UNION {ToSet(seqs[i]) : i \in DOMAIN seqs} =
          UNION {ToSet(parts[i].items) : i \in DOMAIN parts}
    BY <2>3 DEF ItemsOfParts
  <2>6. c.res = "ok" /\ c.items = FlattenSeq(seqs) /\ c \in Results(T)
    BY <2>1, <2>4 DEF Ok, Results
  <2> HIDE DEF c
  <2>7. \A i \in DOMAIN parts : parts[i].res = "ok"
    BY <1>3
  <2>8. QED
    BY <2>2, <2>3, <2>4, <2>5, <2>6, <2>7 DEF c
<1>4. CASE stops # {}
  <2>1. stops \in SUBSET Nat
    BY <1>1
  <2>2. Min(stops) \in stops
    BY <1>4, <2>1, MinIsLeast
  <2>3. c = [res |-> parts[Min(stops)].res, items |-> <<>>]
    BY <1>4 DEF Collect
  <2>4. PICK i \in DOMAIN parts : i = Min(stops) /\ parts[i].res # "ok"
    BY <2>2
  <2>5. /\ c \in Results(T) /\ c.items = <<>> /\ c.res = parts[i].res
    BY <1>2, <2>3, <2>4 DEF Results
  <2> HIDE DEF c
  <2>6. QED
    BY <2>4, <2>5 DEF c
<1>5. QED
  BY <1>3, <1>4

\* The outcomes of a listing.
LEMMA OutcomesAre ==
  ASSUME NEW T
  PROVE  /\ \A s \in Seq(T) : /\ Ok(s) \in Results(T) /\ Ok(s).res = "ok"
                              /\ Ok(s).items = s
         /\ Failed \in Results(T) /\ Failed.res = "error"
         /\ Failed.items = <<>>
         /\ Panics \in Results(T) /\ Panics.res = "panic"
         /\ Panics.items = <<>>
         /\ <<>> \in Seq(T) /\ ToSet(<<>>) = {}
         /\ \A x \in T : <<x>> \in Seq(T) /\ ToSet(<<x>>) = {x}
<1>1. <<>> \in Seq(T) /\ ToSet(<<>>) = {}
  BY NothingIn
<1>2. \A x \in T : <<x>> \in Seq(T) /\ ToSet(<<x>>) = {x}
  BY DEF ToSet
<1>3. QED
  BY <1>1, <1>2 DEF Ok, Failed, Panics, Results

\* What is in a row.
LEMMA RowIs ==
  ASSUME NEW type \in Texts, NEW ns \in Texts, NEW id \in Texts,
         NEW name \in Texts, NEW pid \in Int, NEW status \in Texts
  PROVE  /\ Row(type, ns, id, name, pid, status) \in Rows
         /\ Row(type, ns, id, name, pid, status).type = type
         /\ Row(type, ns, id, name, pid, status).ns = ns
         /\ Row(type, ns, id, name, pid, status).id = id
         /\ Row(type, ns, id, name, pid, status).name = name
         /\ Row(type, ns, id, name, pid, status).pid = pid
         /\ Row(type, ns, id, name, pid, status).status = status
         /\ Row(type, ns, id, name, pid, status).labels = {}
         /\ Row(type, ns, id, name, pid, status).support = FALSE
BY DEF Row, Rows, Labels

\* Parts of one item each.
OfOnes(parts, n, row, T) ==
  /\ n \in Nat /\ parts = [k \in 1..n |-> parts[k]]
  /\ \A k \in 1..n :
       row[k] \in T /\ parts[k] \in {Ok(<<row[k]>>), Failed, Panics}

\* A listing of such parts has the row of each of them, in order.
LEMMA OneByOne ==
  ASSUME NEW T, NEW n, NEW row, NEW parts, OfOnes(parts, n, row, T)
  PROVE  /\ Collect(parts) \in Results(T)
         /\ Collect(parts).res = "ok" <=>
              \A k \in 1..n : parts[k] = Ok(<<row[k]>>)
         /\ Collect(parts).res # "ok" =>
              /\ Collect(parts).items = <<>>
              /\ \E k \in 1..n : parts[k].res = Collect(parts).res
         /\ Collect(parts).res = "ok" =>
              /\ ToSet(Collect(parts).items) = Values(row, 1..n)
              /\ \A S, key :
                   (\A k, l \in 1..n :
                      row[k] \in S /\ row[l] \in S /\ key[row[k]] = key[row[l]]
                        => k = l)
                   => Apart(Collect(parts).items, S, key)
              /\ \A S : \A k \in 1..n :
                   row[k] \in S /\ (\A j \in 1..n : j < k => row[j] \notin S)
                   => IsFirst(Collect(parts).items, S, row[k])
<1> DEFINE c == Collect(parts)
<1>1. /\ n \in Nat /\ parts = [k \in 1..n |-> parts[k]] /\ DOMAIN parts = 1..n
      /\ \A k \in 1..n :
           row[k] \in T /\ parts[k] \in {Ok(<<row[k]>>), Failed, Panics}
  BY DEF OfOnes
<1>2. \A k \in 1..n :
        /\ parts[k] \in Results(T)
        /\ parts[k].res = "ok" <=> parts[k] = Ok(<<row[k]>>)
        /\ Ok(<<row[k]>>).items = <<row[k]>>
  <2> SUFFICES ASSUME NEW k \in 1..n
               PROVE  /\ parts[k] \in Results(T)
                      /\ parts[k].res = "ok" <=> parts[k] = Ok(<<row[k]>>)
                      /\ Ok(<<row[k]>>).items = <<row[k]>>
    OBVIOUS
  <2>1. row[k] \in T /\ parts[k] \in {Ok(<<row[k]>>), Failed, Panics}
    BY <1>1
  <2>2. <<row[k]>> \in Seq(T)
    BY <2>1
  <2>3. /\ Ok(<<row[k]>>) \in Results(T) /\ Ok(<<row[k]>>).res = "ok"
        /\ Ok(<<row[k]>>).items = <<row[k]>>
        /\ Failed \in Results(T) /\ Failed.res = "error"
        /\ Panics \in Results(T) /\ Panics.res = "panic"
    BY ONLY <2>2, OutcomesAre
  <2>4. QED
    BY ONLY <2>1, <2>3
<1>3. parts \in Seq(Results(T))
  <2> DEFINE V == Results(T)
  <2>1. parts \in [1..n -> V] /\ n \in Nat
    BY <1>1, <1>2
  <2> HIDE DEF V
  <2>2. parts \in Seq(V)
    BY <2>1, SeqDef
  <2>3. QED
    BY <2>2 DEF V
<1>4. /\ c \in Results(T)
      /\ c.res = "ok" <=> \A k \in 1..n : parts[k].res = "ok"
      /\ c.res # "ok" => /\ c.items = <<>>
                         /\ \E k \in 1..n : parts[k].res = c.res
      /\ c.res = "ok" =>
           \E seqs \in Seq(Seq(T)) :
             ItemsOfParts(seqs, parts) /\ c.items = FlattenSeq(seqs)
  BY ONLY <1>1, <1>3, CollectIs
<1>5. c.res = "ok" <=> \A k \in 1..n : parts[k] = Ok(<<row[k]>>)
  BY ONLY <1>2, <1>4
<1>6. ASSUME c.res = "ok"
      PROVE  /\ ToSet(c.items) = Values(row, 1..n)
             /\ \A S, key :
                  (\A k, l \in 1..n :
                     row[k] \in S /\ row[l] \in S /\ key[row[k]] = key[row[l]]
                       => k = l)
                  => Apart(c.items, S, key)
             /\ \A S : \A k \in 1..n :
                  row[k] \in S /\ (\A j \in 1..n : j < k => row[j] \notin S)
                  => IsFirst(c.items, S, row[k])
  <2>1. PICK seqs \in Seq(Seq(T)) :
          ItemsOfParts(seqs, parts) /\ c.items = FlattenSeq(seqs)
    BY <1>4, <1>6
  <2> DEFINE f == FlattenSeq(seqs)
             used == 1..n
  <2>2. DOMAIN seqs = 1..n /\ \A k \in 1..n : seqs[k] = <<row[k]>>
    BY ONLY <1>1, <1>2, <1>5, <1>6, <2>1 DEF ItemsOfParts
  <2>3. AreSingles(seqs, n, used, row) /\ \A k \in used : row[k] \in T
    BY <1>1, <2>2 DEF AreSingles
  <2>4. seqs \in Seq(Seq(T))
    OBVIOUS
  <2> HIDE DEF c, used
  <2>5. ToSet(f) = Values(row, used)
    BY ONLY <2>3, <2>4, Singles
  <2>6. ASSUME NEW S, NEW key,
               \A k, l \in used :
                 row[k] \in S /\ row[l] \in S /\ key[row[k]] = key[row[l]]
                   => k = l
        PROVE  Apart(f, S, key)
    BY ONLY <2>3, <2>4, <2>6, Singles
  <2>7. ASSUME NEW S, NEW k \in used, row[k] \in S,
               \A j \in used : j < k => row[j] \notin S
        PROVE  IsFirst(f, S, row[k])
    BY ONLY <2>3, <2>4, <2>7, Singles
  <2>8. c.items = f
    BY <2>1
  <2> HIDE DEF f
  <2>9. QED
    BY ONLY <2>5, <2>6, <2>7, <2>8 DEF used
<1>7. QED
  BY ONLY <1>4, <1>5, <1>6 DEF c

\* A listing has the rows of the places, each of them once.
HasOnce(L, row, places, T) ==
  /\ L \in Results(T)
  /\ L.res # "ok" => L.items = <<>>
  /\ L.res = "ok" =>
       /\ ToSet(L.items) = Values(row, places)
       /\ \A S, key :
            (\A p, q \in places :
               row[p] \in S /\ row[q] \in S /\ key[row[p]] = key[row[q]]
                 => p = q)
            => Apart(L.items, S, key)

\* The row of a place comes before those of later places.
FirstOf(L, row, places) ==
  L.res = "ok" =>
    \A S : \A p \in places :
      row[p] \in S /\ (\A q \in places : q < p => row[q] \notin S)
        => IsFirst(L.items, S, row[p])

\* The values of a function on a set.
LEMMA ValuesAre ==
  ASSUME NEW f, NEW S
  PROVE  \A x : x \in Values(f, S) <=> \E k \in S : x = f[k]
BY DEF Values

\* The places of all parts are pairs of a part and a place in it.
Nested(parts, rowOf, D, row, places, T) ==
  /\ parts \in Seq(Results(T))
  /\ \A k \in DOMAIN parts : HasOnce(parts[k], rowOf[k], D[k], T)
  /\ \A k \in DOMAIN parts : \A i \in D[k] :
       rowOf[k][i] = row[<<k, i>>] /\ <<k, i>> \in places
  /\ \A p \in places :
       p = <<p[1], p[2]>> /\ p[1] \in DOMAIN parts /\ p[2] \in D[p[1]]

\* A listing of listings has the rows of all places.
LEMMA NestedOnce ==
  ASSUME NEW T, NEW parts, NEW rowOf, NEW D, NEW row, NEW places, NEW L,
         Nested(parts, rowOf, D, row, places, T), L = Collect(parts)
  PROVE  HasOnce(L, row, places, T)
<1>1. /\ parts \in Seq(Results(T))
      /\ \A k \in DOMAIN parts : \A i \in D[k] :
           rowOf[k][i] = row[<<k, i>>] /\ <<k, i>> \in places
      /\ \A p \in places :
           p = <<p[1], p[2]>> /\ p[1] \in DOMAIN parts /\ p[2] \in D[p[1]]
  BY DEF Nested
<1>2. ASSUME NEW k \in DOMAIN parts
      PROVE  /\ parts[k] \in Results(T)
             /\ parts[k].res = "ok" =>
                  ToSet(parts[k].items) = Values(rowOf[k], D[k])
  <2>1. HasOnce(parts[k], rowOf[k], D[k], T)
    BY DEF Nested
  <2>2. QED
    BY ONLY <2>1 DEF HasOnce
<1>3. /\ L \in Results(T)
      /\ L.res = "ok" <=> \A k \in DOMAIN parts : parts[k].res = "ok"
      /\ L.res # "ok" => L.items = <<>>
      /\ L.res = "ok" =>
           /\ ToSet(L.items) =
                UNION {ToSet(parts[k].items) : k \in DOMAIN parts}
           /\ \E seqs \in Seq(Seq(T)) :
                ItemsOfParts(seqs, parts) /\ L.items = FlattenSeq(seqs)
  BY ONLY <1>1, CollectIs, L = Collect(parts), ZenonT(40)
<1>4. ASSUME L.res = "ok" PROVE ToSet(L.items) = Values(row, places)
  <2>1. /\ \A k \in DOMAIN parts : parts[k].res = "ok"
        /\ ToSet(L.items) = UNION {ToSet(parts[k].items) : k \in DOMAIN parts}
    BY ONLY <1>3, <1>4
  <2>2. ASSUME NEW x \in ToSet(L.items) PROVE x \in Values(row, places)
    <3>1. PICK k \in DOMAIN parts : x \in ToSet(parts[k].items)
      BY <2>1
    <3>2. x \in Values(rowOf[k], D[k])
      BY <1>2, <2>1, <3>1
    <3>3. PICK i \in D[k] : x = rowOf[k][i]
      BY ONLY <3>2, ValuesAre
    <3>4. x = row[<<k, i>>] /\ <<k, i>> \in places
      BY <1>1, <3>3
    <3>5. QED
      BY ONLY <3>4, ValuesAre
  <2>3. ASSUME NEW x \in Values(row, places) PROVE x \in ToSet(L.items)
    <3>1. PICK p \in places : x = row[p]
      BY ONLY <2>3, ValuesAre
    <3>2. /\ p = <<p[1], p[2]>> /\ p[1] \in DOMAIN parts
          /\ p[2] \in D[p[1]]
      BY <1>1
    <3>3. x = rowOf[p[1]][p[2]]
      BY <1>1, <3>1, <3>2
    <3>4. x \in Values(rowOf[p[1]], D[p[1]])
      BY ONLY <3>2, <3>3, ValuesAre
    <3>5. x \in ToSet(parts[p[1]].items)
      BY <1>2, <2>1, <3>2, <3>4
    <3>6. QED
      BY <2>1, <3>2, <3>5
  <2>4. QED
    BY <2>2, <2>3
<1>5. ASSUME L.res = "ok", NEW S, NEW key,
             \A p, q \in places :
               row[p] \in S /\ row[q] \in S /\ key[row[p]] = key[row[q]]
                 => p = q
      PROVE  Apart(L.items, S, key)
  <2>1. PICK seqs \in Seq(Seq(T)) :
          ItemsOfParts(seqs, parts) /\ L.items = FlattenSeq(seqs)
    BY <1>3, <1>5
  <2>2. /\ DOMAIN seqs = DOMAIN parts
        /\ \A k \in DOMAIN parts :
             seqs[k] = parts[k].items /\ parts[k].res = "ok"
    BY ONLY <1>3, <1>5, <2>1 DEF ItemsOfParts
  <2>3. ASSUME NEW k \in DOMAIN seqs PROVE Apart(seqs[k], S, key)
    <3>1. \A i, j \in D[k] :
            rowOf[k][i] \in S /\ rowOf[k][j] \in S
              /\ key[rowOf[k][i]] = key[rowOf[k][j]] => i = j
      <4> SUFFICES ASSUME NEW i \in D[k], NEW j \in D[k], rowOf[k][i] \in S,
                          rowOf[k][j] \in S,
                          key[rowOf[k][i]] = key[rowOf[k][j]]
                   PROVE  i = j
        OBVIOUS
      <4>1. /\ rowOf[k][i] = row[<<k, i>>] /\ rowOf[k][j] = row[<<k, j>>]
            /\ <<k, i>> \in places /\ <<k, j>> \in places
        BY <1>1, <2>2
      <4>2. <<k, i>> = <<k, j>>
        BY ONLY <1>5, <4>1, rowOf[k][i] \in S, rowOf[k][j] \in S,
                key[rowOf[k][i]] = key[rowOf[k][j]]
      <4>3. QED
        BY <4>2
    <3>2. HasOnce(parts[k], rowOf[k], D[k], T) /\ parts[k].res = "ok"
      BY <2>2 DEF Nested
    <3>3. Apart(parts[k].items, S, key)
      BY ONLY <3>1, <3>2 DEF HasOnce
    <3>4. QED
      BY <2>2, <3>3
  <2>4. ASSUME NEW k \in DOMAIN seqs, NEW l \in DOMAIN seqs, k # l,
               NEW x \in ToSet(seqs[k]) \cap S, NEW y \in ToSet(seqs[l]) \cap S
        PROVE  key[x] # key[y]
    <3>1. PICK i \in D[k] : x = rowOf[k][i]
      <4>1. x \in Values(rowOf[k], D[k])
        BY <1>2, <2>2
      <4>2. QED
        BY ONLY <4>1, ValuesAre
    <3>2. PICK j \in D[l] : y = rowOf[l][j]
      <4>1. y \in Values(rowOf[l], D[l])
        BY <1>2, <2>2
      <4>2. QED
        BY ONLY <4>1, ValuesAre
    <3>3. <<k, i>> # <<l, j>>
      BY <2>4
    <3>4. /\ <<k, i>> \in places /\ <<l, j>> \in places
          /\ x = row[<<k, i>>] /\ y = row[<<l, j>>]
      BY <1>1, <2>2, <3>1, <3>2
    <3>5. row[<<k, i>>] \in S /\ row[<<l, j>>] \in S
      BY <3>4
    <3>6. QED
      BY ONLY <1>5, <3>3, <3>4, <3>5
  <2>5. Apart(FlattenSeq(seqs), S, key)
    BY ONLY <2>1, <2>3, <2>4, FlattenedApart
  <2>6. QED
    BY <2>1, <2>5
<1>6. QED
  BY ONLY <1>3, <1>4, <1>5 DEF HasOnce

-----------------------------------------------------------------------------
\* The listings of containerd

\* The evidence of containerd is typed at every depth.
LEMMA ContainerdTyped ==
  ASSUME NEW root \in ContainerdEvidence
  PROVE  /\ root.nss \in Seq(NamespaceRecord) /\ Len(root.nss) \in Nat
         /\ DOMAIN root.nss = 1..Len(root.nss)
         /\ \A k \in DOMAIN root.nss :
              /\ root.nss[k] \in NamespaceRecord
              /\ root.nss[k].name \in STRING
              /\ root.nss[k].ctrs \in Seq(ContainerRecord)
              /\ Len(root.nss[k].ctrs) \in Nat
              /\ DOMAIN root.nss[k].ctrs = 1..Len(root.nss[k].ctrs)
              /\ \A i \in DOMAIN root.nss[k].ctrs :
                   root.nss[k].ctrs[i] \in ContainerRecord
<1>1. root.nss \in Seq(NamespaceRecord)
  BY DEF ContainerdEvidence
<1>2. /\ Len(root.nss) \in Nat /\ DOMAIN root.nss = 1..Len(root.nss)
      /\ \A k \in DOMAIN root.nss : root.nss[k] \in NamespaceRecord
  BY <1>1, LenProperties, ElementOfSeq
<1>3. \A n \in NamespaceRecord : n.name \in STRING
      /\ n.ctrs \in Seq(ContainerRecord)
  BY DEF NamespaceRecord
<1>4. ASSUME NEW s \in Seq(ContainerRecord)
      PROVE  /\ Len(s) \in Nat /\ DOMAIN s = 1..Len(s)
             /\ \A i \in DOMAIN s : s[i] \in ContainerRecord
  BY LenProperties, ElementOfSeq
<1>5. QED
  BY <1>1, <1>2, <1>3, <1>4

\* A place of a record that can be read, with the ID.
RecordAt(root, id, k, i) ==
  /\ k \in DOMAIN root.nss /\ i \in DOMAIN root.nss[k].ctrs
  /\ root.nss[k].ctrs[i].ok /\ root.nss[k].ctrs[i].id = id

\* The record that a lookup by ID finds is the first that can be read.
LEMMA StoredIs ==
  ASSUME NEW root \in ContainerdEvidence, NEW id
  PROVE  /\ FirstNs(root, id) = 0 <=> \A k, i : ~RecordAt(root, id, k, i)
         /\ FirstNs(root, id) # 0 =>
              \E i : /\ RecordAt(root, id, FirstNs(root, id), i)
                     /\ Stored(root, id) = root.nss[FirstNs(root, id)].ctrs[i]
                     /\ \A k, j : RecordAt(root, id, k, j) =>
                          /\ FirstNs(root, id) <= k
                          /\ FirstNs(root, id) = k => i <= j
<1> DEFINE N == {n \in ToSet(root.nss) :
                  \E c \in ToSet(n.ctrs) : c.id = id /\ c.ok}
           f == FirstNs(root, id)
<1>1. f = First(root.nss, N)
  BY DEF FirstNs
<1>2. \A k \in DOMAIN root.nss :
        root.nss[k] \in N <=> \E i : RecordAt(root, id, k, i)
  BY DEF ToSet, RecordAt
<1>3. /\ f \in 0..Len(root.nss) /\ (f = 0 <=> ToSet(root.nss) \cap N = {})
      /\ f # 0 => /\ root.nss[f] \in N /\ root.nss[f] \in ToSet(root.nss)
                  /\ \A k \in 1..Len(root.nss) : root.nss[k] \in N => f <= k
  <2> HIDE DEF N, f
  <2>1. root.nss \in Seq(NamespaceRecord)
    BY ContainerdTyped
  <2>2. QED
    BY ONLY <1>1, <2>1, FirstIs
<1>4. /\ Len(root.nss) \in Nat /\ DOMAIN root.nss = 1..Len(root.nss)
  BY ContainerdTyped
<1> HIDE DEF N
<1>5. f = 0 <=> \A k, i : ~RecordAt(root, id, k, i)
  <2>1. ToSet(root.nss) \cap N = {}
        <=> \A k \in DOMAIN root.nss : root.nss[k] \notin N
    BY DEF ToSet
  <2>2. \A k, i : RecordAt(root, id, k, i) => k \in DOMAIN root.nss
    BY DEF RecordAt
  <2>3. QED
    BY <1>2, <1>3, <2>1, <2>2
<1>6. ASSUME f # 0
      PROVE  \E i : /\ RecordAt(root, id, f, i)
                    /\ Stored(root, id) = root.nss[f].ctrs[i]
                    /\ \A k, j : RecordAt(root, id, k, j) =>
                         f <= k /\ (f = k => i <= j)
  <2> DEFINE ctrs == root.nss[f].ctrs
             S == {c \in ToSet(ctrs) : c.id = id /\ c.ok}
             i == First(ctrs, S)
  <2>1. f \in DOMAIN root.nss
    BY <1>3, <1>4, <1>6
  <2>2. /\ ctrs \in Seq(ContainerRecord) /\ DOMAIN ctrs = 1..Len(ctrs)
        /\ Len(ctrs) \in Nat
    BY <2>1, ContainerdTyped
  <2>3. /\ i \in 0..Len(ctrs) /\ (i = 0 <=> ToSet(ctrs) \cap S = {})
        /\ i # 0 => /\ ctrs[i] \in S
                    /\ \A j \in 1..Len(ctrs) : ctrs[j] \in S => i <= j
    BY <2>2, FirstIs, SMTT(30)
  <2>4. \A j \in 1..Len(ctrs) : ctrs[j] \in S <=> RecordAt(root, id, f, j)
    BY <2>1, <2>2 DEF ToSet, RecordAt
  <2>5. PICK j : RecordAt(root, id, f, j)
    BY <1>2, <1>3, <1>6, <2>1
  <2>6. j \in 1..Len(ctrs) /\ ctrs[j] \in S
    BY <2>2, <2>4, <2>5 DEF RecordAt
  <2>7. Stored(root, id) = ctrs[i]
    BY DEF Stored
  <2> HIDE DEF S, i
  <2>8. i # 0
    BY <2>2, <2>3, <2>6 DEF ToSet
  <2>9. RecordAt(root, id, f, i)
    BY <2>2, <2>3, <2>4, <2>8
  <2>10. ASSUME NEW k, NEW l, RecordAt(root, id, k, l)
         PROVE  f <= k /\ (f = k => i <= l)
    <3>1. k \in 1..Len(root.nss) /\ root.nss[k] \in N
      BY <1>2, <1>4, <2>10 DEF RecordAt
    <3>2. ASSUME f = k PROVE i <= l
      <4>1. l \in 1..Len(ctrs) /\ RecordAt(root, id, f, l)
        BY <2>2, <2>10, <3>2 DEF RecordAt
      <4>2. QED
        BY <2>3, <2>4, <2>8, <4>1
    <3>3. QED
      BY <1>3, <1>6, <3>1, <3>2
  <2>11. QED
    BY <2>7, <2>9, <2>10
<1>7. QED
  BY <1>5, <1>6

\* The statuses of a container that is alive.
Active == Runs \cup Pauses

\* Where the PID of a row comes from: cgroup.procs or, if that has none, init.
PidBacks(pid, cg, init) ==
  \/ pid \in {0, NoNumber, cg.procs}
  \/ pid = init /\ cg.procs = NoNumber

\* What is left of a task, by the specification and the cgroup.
TaskFits(t, cg, init) ==
  /\ t.res \in {"ok", "error", "panic"}
  /\ t.task.type \in Texts /\ t.task.pid \in Int /\ t.task.status \in Texts
  /\ t.task.status \in Active => CgroupBacks(cg, t.task.status)
  /\ PidBacks(t.task.pid, cg, init)

\* The status of a task that is not known to run.
Idle == {"", "UNKNOWN"}

\* A task that runs has a populated cgroup, which is frozen if it is paused.
LEMMA TaskIs ==
  ASSUME NEW specs \in SUBSET Specification, NEW cg \in CgroupFiles,
         NEW init \in Int
  PROVE  TaskFits(GetContainerTask(specs, cg, init), cg, init)
<1> DEFINE t == GetContainerTask(specs, cg, init)
<1>1. /\ cg.there \in BOOLEAN /\ cg.events \in BOOLEAN /\ cg.populated \in Int
      /\ cg.frozen \in Int /\ cg.procs \in Int
  BY DEF CgroupFiles
<1>2. /\ "" \in Texts /\ Idle \subseteq Texts
      /\ Idle \cap Active = {} /\ "" \in Idle /\ "UNKNOWN" \in Idle
  BY DEF Texts, Idle, Active, Runs, Pauses
<1>3. ASSUME NEW res \in {"ok", "error", "panic"}, NEW type \in Texts,
             NEW status \in Idle, NEW zero \in {0},
             t = [res |-> res, task |-> Task(type, zero, status)]
      PROVE  TaskFits(t, cg, init)
  <2>1. /\ t.res = res /\ t.task.type = type /\ t.task.pid = zero
        /\ t.task.status = status
    BY <1>3 DEF Task
  <2>2. zero \in Int /\ PidBacks(zero, cg, init)
    BY DEF PidBacks
  <2> HIDE DEF t
  <2>3. QED
    BY <1>2, <2>1, <2>2 DEF TaskFits
<1>4. CASE specs = {} \/ \E s \in specs : ~s.linux
  <2>1. t = [res |-> "panic", task |-> Task("", 0, "")]
    BY <1>4 DEF GetContainerTask
  <2> HIDE DEF t
  <2>2. TaskFits(t, cg, init)
    BY <1>2, <1>3, <2>1
  <2>3. QED
    BY <2>2 DEF t
<1>5. CASE ~(specs = {} \/ \E s \in specs : ~s.linux)
  <2> DEFINE spec == CHOOSE s \in specs : TRUE
             type == ContainerType(spec)
             pid == TaskPID(type, cg, init)
             status == GetTaskStatus(cg)
  <2>1. type \in Texts
    BY DEF ContainerType, Texts
  <2>2. pid \in Int /\ PidBacks(pid, cg, init)
    BY <1>1 DEF TaskPID, GetTaskPID, PidBacks
  <2>3. status \in Texts /\ (cg.there /\ status \in Active
                             => CgroupBacks(cg, status))
    BY <1>1 DEF GetTaskStatus, ReadCgroupEvents, NoNumber, Texts, Active, Runs,
                Pauses, CgroupBacks
  <2> HIDE DEF type, pid, status
  <2>4. CASE spec.cgroupsPath = "dockerfs"
    <3>1. t = [res |-> "error", task |-> Task("", 0, "")]
      BY <1>5, <2>4 DEF GetContainerTask
    <3> HIDE DEF t
    <3>2. TaskFits(t, cg, init)
      BY <1>2, <1>3, <3>1
    <3>3. QED
      BY <3>2 DEF t
  <2>5. CASE spec.cgroupsPath # "dockerfs" /\ ~cg.there
    <3>1. t = [res |-> "ok", task |-> Task(type, 0, "UNKNOWN")]
      BY <1>5, <2>5 DEF GetContainerTask, type
    <3> HIDE DEF t
    <3>2. TaskFits(t, cg, init)
      BY <1>2, <1>3, <2>1, <3>1
    <3>3. QED
      BY <3>2 DEF t
  <2>6. CASE spec.cgroupsPath # "dockerfs" /\ cg.there
    <3>1. t = [res |-> "ok", task |-> Task(type, pid, status)]
      BY <1>5, <2>6 DEF GetContainerTask, type, pid, status
    <3> HIDE DEF t
    <3>2. /\ t.res = "ok" /\ t.task.type = type /\ t.task.pid = pid
          /\ t.task.status = status
      BY <3>1 DEF Task
    <3>3. TaskFits(t, cg, init)
      BY <2>1, <2>2, <2>3, <2>6, <3>2 DEF TaskFits
    <3>4. QED
      BY <3>3 DEF t
  <2>7. QED
    BY <1>1, <2>4, <2>5, <2>6
<1>6. QED
  BY <1>4, <1>5

\* Whether a PID is found depends on the specification and the cgroup, and not
\* on what state.json has, unless that has one.
LEMMA NoPid ==
  ASSUME NEW specs \in SUBSET Specification, NEW cg \in CgroupFiles,
         NEW i \in Int, NEW j \in Int,
         GetContainerTask(specs, cg, i).task.pid = 0
  PROVE  GetContainerTask(specs, cg, j).task.pid = 0
<1> DEFINE spec == CHOOSE s \in specs : TRUE
           type == ContainerType(spec)
           Is(t, p) == t.task.pid = p
<1>1. cg.there \in BOOLEAN /\ cg.procs \in Int
  BY DEF CgroupFiles
<1>2. CASE specs = {} \/ \E s \in specs : ~s.linux
  BY <1>2 DEF GetContainerTask, Task
<1>3. CASE /\ ~(specs = {} \/ \E s \in specs : ~s.linux)
           /\ spec.cgroupsPath = "dockerfs"
  BY <1>3 DEF GetContainerTask, Task
<1>4. CASE /\ ~(specs = {} \/ \E s \in specs : ~s.linux)
           /\ spec.cgroupsPath # "dockerfs" /\ ~cg.there
  BY <1>4 DEF GetContainerTask, Task
<1>5. CASE /\ ~(specs = {} \/ \E s \in specs : ~s.linux)
           /\ spec.cgroupsPath # "dockerfs" /\ cg.there
  <2>1. /\ GetContainerTask(specs, cg, i).task.pid = TaskPID(type, cg, i)
        /\ GetContainerTask(specs, cg, j).task.pid = TaskPID(type, cg, j)
    BY <1>5 DEF GetContainerTask, Task
  <2>2. QED
    BY <1>1, <2>1 DEF TaskPID, GetTaskPID, NoNumber
<1>6. QED
  BY <1>1, <1>2, <1>3, <1>4, <1>5

\* The row of a record that can be read.
RecordRow(root, criteria, rooted, ns, c) ==
  LET t == TaskOf(root, rooted, c)
  IN  [Row(t.task.type, ns, c.id, c.id, t.task.pid, t.task.status)
         EXCEPT !.labels = c.labels,
                !.support = IsSupportContainer(criteria, c)]

CgroupOf(first, rooted) ==
  IF rooted THEN first.cgroup ELSE Absent(first.cgroup)
InitOf(c, rooted) == IF rooted THEN c.init ELSE 0

\* What is in the row of a record, by the first record of its ID.
LEMMA RecordRowIs ==
  ASSUME NEW root \in ContainerdEvidence, NEW criteria, NEW rooted \in BOOLEAN,
         NEW ns \in STRING, NEW c \in ContainerRecord, FirstNs(root, c.id) # 0,
         NEW r, r = RecordRow(root, criteria, rooted, ns, c)
  PROVE  LET first == Stored(root, c.id)
         IN  /\ r \in Rows /\ r.ns = ns /\ r.id = c.id /\ r.labels = c.labels
             /\ r.support = IsSupportContainer(criteria, c)
             /\ r.pid = GetContainerTask(first.specs, CgroupOf(first, rooted),
                                         InitOf(c, rooted)).task.pid
             /\ r.status \in Active =>
                  rooted /\ CgroupBacks(first.cgroup, r.status)
             /\ PidBacks(r.pid, first.cgroup, c.init)
             /\ first \in ContainerRecord /\ first.id = c.id
             /\ CgroupOf(first, rooted) \in CgroupFiles
             /\ InitOf(c, rooted) \in Int
<1> DEFINE first == Stored(root, c.id)
           cg == CgroupOf(first, rooted)
           init == InitOf(c, rooted)
           t == TaskOf(root, rooted, c)
<1>1. first \in ContainerRecord /\ first.id = c.id
  <2>1. PICK i : /\ RecordAt(root, c.id, FirstNs(root, c.id), i)
                 /\ first = root.nss[FirstNs(root, c.id)].ctrs[i]
    BY StoredIs
  <2>2. QED
    BY <2>1, ContainerdTyped DEF RecordAt
<1>2. /\ first.specs \in SUBSET Specification /\ first.cgroup \in CgroupFiles
      /\ c.init \in Int /\ c.id \in STRING /\ c.labels \in Labels
  BY <1>1 DEF ContainerRecord
<1>3. /\ cg \in CgroupFiles /\ init \in Int
      /\ cg.procs = first.cgroup.procs /\ init \in {0, c.init}
      /\ cg.there => rooted /\ cg = first.cgroup
  <2> HIDE DEF first
  <2>1. \A x \in CgroupFiles :
          /\ Absent(x) \in CgroupFiles /\ Absent(x).procs = x.procs
          /\ ~Absent(x).there
    BY DEF CgroupFiles, Absent
  <2>2. CASE rooted
    BY <1>2, <2>2 DEF CgroupOf, InitOf
  <2>3. CASE ~rooted
    BY <1>2, <2>1, <2>3 DEF CgroupOf, InitOf
  <2>4. QED
    BY <2>2, <2>3
<1>4. t = GetContainerTask(first.specs, cg, init)
  BY DEF TaskOf, CgroupOf, InitOf
<1> HIDE DEF first, cg, init, t
<1>5. TaskFits(t, cg, init)
  BY <1>2, <1>3, <1>4, TaskIs
<1> DEFINE type == t.task.type
           pid == t.task.pid
           status == t.task.status
           sup == IsSupportContainer(criteria, c)
           row == Row(type, ns, c.id, c.id, pid, status)
<1>6. /\ type \in Texts /\ pid \in Int /\ status \in Texts
      /\ status \in Active => CgroupBacks(cg, status)
      /\ PidBacks(pid, cg, init)
  BY <1>5 DEF TaskFits
<1>7. sup \in BOOLEAN /\ ns \in Texts /\ c.id \in Texts
  BY <1>2 DEF IsSupportContainer, Texts
<1>8. r = [row EXCEPT !.labels = c.labels, !.support = sup]
  BY DEF RecordRow, t
<1> HIDE DEF type, pid, status, sup
<1>9. /\ r \in Rows /\ r.ns = ns /\ r.id = c.id /\ r.labels = c.labels
      /\ r.support = sup /\ r.pid = pid /\ r.status = status
  BY <1>2, <1>6, <1>7, <1>8 DEF Row, Rows
<1>10. r.status \in Active => rooted /\ CgroupBacks(first.cgroup, r.status)
  <2>1. CgroupBacks(cg, status) => cg.there
    BY DEF CgroupBacks
  <2>2. QED
    BY <1>3, <1>6, <1>9, <2>1
<1>11. PidBacks(r.pid, first.cgroup, c.init)
  BY <1>3, <1>6, <1>9 DEF PidBacks
<1>12. r.pid = GetContainerTask(first.specs, cg, init).task.pid
  BY <1>4, <1>9 DEF pid
<1>13. QED
  BY <1>1, <1>3, <1>9, <1>10, <1>11, <1>12 DEF first, cg, init, sup

\* The rows of a namespace.
RowAt(root, criteria, rooted, k, i) ==
  RecordRow(root, criteria, rooted, root.nss[k].name, root.nss[k].ctrs[i])
RowsOf(root, criteria, rooted, k) ==
  [i \in DOMAIN root.nss[k].ctrs |-> RowAt(root, criteria, rooted, k, i)]

\* A namespace is listed with one row for each record, or not at all.
LEMMA NamespaceListed ==
  ASSUME NEW root \in ContainerdEvidence, NEW criteria, NEW rooted \in BOOLEAN,
         NEW k \in DOMAIN root.nss, NEW L,
         L = ContainerdNamespace(root, criteria, rooted, root.nss[k])
  PROVE  LET ctrs == root.nss[k].ctrs
             row == RowsOf(root, criteria, rooted, k)
         IN  /\ HasOnce(L, row, DOMAIN ctrs, Rows)
             /\ FirstOf(L, row, DOMAIN ctrs)
             /\ L.res = "error" => \E i \in DOMAIN ctrs : ~ctrs[i].ok
             /\ L.res = "ok" => \A i \in DOMAIN ctrs : ctrs[i].ok
<1> DEFINE ctrs == root.nss[k].ctrs
           n == Len(ctrs)
           row == RowsOf(root, criteria, rooted, k)
           parts == [i \in DOMAIN ctrs |->
                       ContainerdRecord(root, criteria, rooted,
                                        root.nss[k].name, ctrs[i])]
<1>1. /\ n \in Nat /\ DOMAIN ctrs = 1..n /\ root.nss[k].name \in STRING
      /\ \A i \in 1..n : ctrs[i] \in ContainerRecord
  BY ContainerdTyped
<1>2. CASE \E i \in DOMAIN ctrs : ~ctrs[i].ok
  <2>1. L = Failed
    BY <1>2 DEF ContainerdNamespace
  <2>2. L \in Results(Rows) /\ L.res = "error" /\ L.items = <<>>
    BY <2>1, OutcomesAre
  <2>3. HasOnce(L, row, DOMAIN ctrs, Rows) /\ FirstOf(L, row, DOMAIN ctrs)
    BY ONLY <2>2 DEF HasOnce, FirstOf
  <2>4. QED
    BY <1>2, <2>2, <2>3
<1>3. CASE \A i \in DOMAIN ctrs : ctrs[i].ok
  <2>1. L = Collect(parts)
    BY <1>3 DEF ContainerdNamespace
  <2>2. \A i \in 1..n :
          /\ row[i] \in Rows
          /\ parts[i] \in {Ok(<<row[i]>>), Panics}
    <3> SUFFICES ASSUME NEW i \in 1..n
                 PROVE  /\ row[i] \in Rows
                        /\ parts[i] \in {Ok(<<row[i]>>), Panics}
      OBVIOUS
    <3>1. RecordAt(root, ctrs[i].id, k, i)
      BY <1>1, <1>3 DEF RecordAt
    <3>2. FirstNs(root, ctrs[i].id) # 0
      BY <3>1, StoredIs
    <3>3. row[i] = RecordRow(root, criteria, rooted, root.nss[k].name, ctrs[i])
      BY <1>1 DEF RowsOf, RowAt
    <3>4. row[i] \in Rows
      <4> DEFINE c == ctrs[i]
                 ns == root.nss[k].name
                 r == row[i]
      <4>1. /\ c \in ContainerRecord /\ ns \in STRING
               /\ FirstNs(root, c.id) # 0
            /\ r = RecordRow(root, criteria, rooted, ns, c)
        BY <1>1, <3>2, <3>3
      <4> HIDE DEF c, ns, r
      <4>2. r \in Rows
        BY <4>1, RecordRowIs, SMTT(30)
      <4>3. QED
        BY <4>2 DEF r
    <3>5. ContainerdRecord(root, criteria, rooted, root.nss[k].name, ctrs[i])
            \in {Ok(<<row[i]>>), Panics}
      BY <1>1, <1>3, <3>3 DEF ContainerdRecord, RecordRow
    <3>6. QED
      BY <1>1, <3>4, <3>5
  <2>3. parts = [i \in 1..n |-> parts[i]]
    BY <1>1
  <2> HIDE DEF parts, row, n, ctrs
  <2>4. OfOnes(parts, n, row, Rows)
    BY <1>1, <2>2, <2>3 DEF OfOnes
  <2>5. /\ L \in Results(Rows)
        /\ L.res = "ok" <=> \A i \in 1..n : parts[i] = Ok(<<row[i]>>)
        /\ L.res # "ok" => /\ L.items = <<>>
                           /\ \E i \in 1..n : parts[i].res = L.res
        /\ L.res = "ok" => ToSet(L.items) = Values(row, 1..n)
    BY ONLY <2>1, <2>4, OneByOne
  <2>6. ASSUME L.res = "ok", NEW S, NEW key,
               \A i, j \in 1..n : row[i] \in S /\ row[j] \in S
                                    /\ key[row[i]] = key[row[j]] => i = j
        PROVE  Apart(L.items, S, key)
    BY ONLY <2>1, <2>4, <2>6, OneByOne
  <2>7. ASSUME L.res = "ok", NEW S, NEW i \in 1..n, row[i] \in S,
               \A j \in 1..n : j < i => row[j] \notin S
        PROVE  IsFirst(L.items, S, row[i])
    BY ONLY <2>1, <2>4, <2>7, OneByOne
  <2>8. L.res # "error"
    <3>1. \A i \in 1..n : parts[i].res # "error"
      <4>1. \A x : Ok(x).res = "ok" /\ Panics.res = "panic"
        BY DEF Ok, Panics
      <4>2. QED
        BY <2>2, <4>1
    <3>2. QED
      BY <2>5, <3>1
  <2>9. HasOnce(L, row, 1..n, Rows)
    BY ONLY <2>5, <2>6 DEF HasOnce
  <2>10. FirstOf(L, row, 1..n)
    BY ONLY <2>7 DEF FirstOf
  <2>11. QED
    BY <1>1, <1>3, <2>8, <2>9, <2>10 DEF ctrs, row
<1>4. QED
  BY <1>2, <1>3

-----------------------------------------------------------------------------
\* The listings of docker

DockerRow(c) == Row("docker", "", c.id, c.name, c.pid, DockerStatus(c))
DockerTask(c) ==
  Row("docker", "", c.id, "", c.pid,
      IF c.paused THEN "paused" ELSE IF c.running THEN "running" ELSE "")

\* row has the rows of the configurations, of containers or of tasks.
DockerRows(root, row) ==
  \/ row = [i \in DOMAIN root.configs |-> DockerRow(root.configs[i])]
  \/ row = [i \in DOMAIN root.configs |-> DockerTask(root.configs[i])]

\* The evidence of docker is typed.
LEMMA DockerTyped ==
  ASSUME NEW root \in DockerEvidence
  PROVE  /\ root.configs \in Seq(ConfigFile) /\ Len(root.configs) \in Nat
         /\ DOMAIN root.configs = 1..Len(root.configs)
         /\ \A i \in DOMAIN root.configs : root.configs[i] \in ConfigFile
<1>1. root.configs \in Seq(ConfigFile)
  BY DEF DockerEvidence
<1>2. QED
  BY <1>1, LenProperties, ElementOfSeq

\* What is in a row of docker.
LEMMA DockerRowIs ==
  ASSUME NEW root \in DockerEvidence, NEW row, DockerRows(root, row),
         NEW i \in DOMAIN root.configs
  PROVE  /\ row[i] \in Rows /\ row[i].type = "docker" /\ row[i].ns = ""
         /\ row[i].id = root.configs[i].id /\ row[i].pid = root.configs[i].pid
         /\ row[i].labels = {} /\ row[i].support = FALSE
         /\ ConfigBacks(root.configs[i], row[i].status)
<1> DEFINE c == root.configs[i]
           r == row[i]
           task == IF c.paused THEN "paused"
                   ELSE IF c.running THEN "running" ELSE ""
<1>1. c \in ConfigFile
  BY DockerTyped
<1>2. /\ c.id \in Texts /\ c.name \in Texts /\ c.pid \in Int
      /\ c.started \in BOOLEAN /\ c.running \in BOOLEAN
      /\ c.paused \in BOOLEAN
  BY <1>1 DEF ConfigFile, Texts
<1>3. "docker" \in Texts /\ "" \in Texts
  BY DEF Texts
<1>4. \/ r = Row("docker", "", c.id, c.name, c.pid, DockerStatus(c))
      \/ r = Row("docker", "", c.id, "", c.pid, task)
  BY DEF DockerRows, DockerRow, DockerTask
<1>5. DockerStatus(c) \in Texts /\ ConfigBacks(c, DockerStatus(c))
  BY <1>2 DEF DockerStatus, Texts, ConfigBacks, Runs, Pauses
<1>6. task \in Texts /\ ConfigBacks(c, task)
  BY <1>2 DEF Texts, ConfigBacks, Runs, Pauses
<1> HIDE DEF c, r, task
<1>7. PICK type \in Texts, ns \in Texts, name \in Texts, status \in Texts :
        /\ type = "docker" /\ ns = ""
        /\ r = Row(type, ns, c.id, name, c.pid, status)
        /\ ConfigBacks(c, status)
  BY ONLY <1>2, <1>3, <1>4, <1>5, <1>6
<1>8. /\ r \in Rows /\ r.type = type /\ r.ns = ns /\ r.id = c.id
      /\ r.pid = c.pid /\ r.labels = {} /\ r.support = FALSE
      /\ r.status = status
  BY ONLY <1>2, <1>7 DEF Row, Rows, Labels
<1>9. QED
  BY <1>7, <1>8 DEF c, r

\* The row of a configuration has its ID and its PID.
LEMMA DockerRowTells ==
  ASSUME NEW root \in DockerEvidence, NEW row, DockerRows(root, row),
         NEW i \in DOMAIN root.configs
  PROVE  row[i].id = root.configs[i].id /\ row[i].pid = root.configs[i].pid
<1> DEFINE c == root.configs[i]
<1>1. row[i] = DockerRow(c) \/ row[i] = DockerTask(c)
  BY DEF DockerRows
<1> HIDE DEF c
<1>2. DockerRow(c).id = c.id /\ DockerRow(c).pid = c.pid
  BY DEF DockerRow, Row
<1>3. DockerTask(c).id = c.id /\ DockerTask(c).pid = c.pid
  BY DEF DockerTask, Row
<1>4. QED
  BY <1>1, <1>2, <1>3 DEF c

\* docker lists one row for each configuration, or nothing.
LEMMA DockerListed ==
  ASSUME NEW root \in DockerEvidence, NEW row, NEW L,
         \/ /\ L = DockerContainers(root)
            /\ row = [i \in DOMAIN root.configs |-> DockerRow(root.configs[i])]
         \/ /\ L = DockerTasks(root)
            /\ row = [i \in DOMAIN root.configs
                 |-> DockerTask(root.configs[i])]
  PROVE  /\ HasOnce(L, row, DOMAIN root.configs, Rows) /\ DockerRows(root, row)
         /\ L.res \in {"ok", "error"}
         /\ L.res = "ok" <=> \A i \in DOMAIN root.configs : root.configs[i].ok
<1> DEFINE n == Len(root.configs)
           parts == [i \in DOMAIN root.configs |->
                       IF root.configs[i].ok THEN Ok(<<row[i]>>) ELSE Failed]
<1>1. /\ n \in Nat /\ DOMAIN root.configs = 1..n
      /\ \A i \in 1..n : root.configs[i].ok \in BOOLEAN
  BY DockerTyped DEF ConfigFile
<1>2. DockerRows(root, row)
  BY DEF DockerRows
<1>3. \A i \in 1..n : row[i] \in Rows
  BY <1>1, <1>2, DockerRowIs
<1>4. L = Collect(parts)
  <2>1. CASE /\ L = DockerContainers(root)
             /\ row = [i \in DOMAIN root.configs
                  |-> DockerRow(root.configs[i])]
    BY <2>1 DEF DockerContainers, DockerRow
  <2>2. CASE /\ L = DockerTasks(root)
             /\ row = [i \in DOMAIN root.configs
                  |-> DockerTask(root.configs[i])]
    BY <2>2 DEF DockerTasks, DockerTask
  <2>3. QED
    BY <2>1, <2>2
<1>5. /\ parts = [i \in 1..n |-> parts[i]]
      /\ \A i \in 1..n :
           parts[i] = IF root.configs[i].ok THEN Ok(<<row[i]>>) ELSE Failed
  BY <1>1
<1> HIDE DEF n, parts
<1>6. OfOnes(parts, n, row, Rows)
  BY <1>1, <1>3, <1>5 DEF OfOnes
<1>7. /\ L \in Results(Rows)
      /\ L.res = "ok" <=> \A i \in 1..n : parts[i] = Ok(<<row[i]>>)
      /\ L.res # "ok" => /\ L.items = <<>>
                         /\ \E i \in 1..n : parts[i].res = L.res
      /\ L.res = "ok" => ToSet(L.items) = Values(row, 1..n)
  BY ONLY <1>4, <1>6, OneByOne
<1>8. ASSUME L.res = "ok", NEW S, NEW key,
             \A i, j \in 1..n : row[i] \in S /\ row[j] \in S
                                  /\ key[row[i]] = key[row[j]] => i = j
      PROVE  Apart(L.items, S, key)
  BY ONLY <1>4, <1>6, <1>8, OneByOne, ZenonT(40)
<1>9. HasOnce(L, row, DOMAIN root.configs, Rows)
  BY ONLY <1>1, <1>7, <1>8 DEF HasOnce
<1>10. \A i \in 1..n : /\ parts[i].res \in {"ok", "error"}
                       /\ parts[i] = Ok(<<row[i]>>) <=> root.configs[i].ok
  <2>1. \A x : Ok(x) # Failed /\ Ok(x).res = "ok" /\ Failed.res = "error"
    BY DEF Ok, Failed
  <2>2. QED
    BY <1>1, <1>5, <2>1
<1>11. L.res \in {"ok", "error"}
  BY <1>7, <1>10
<1>12. L.res = "ok" <=> \A i \in DOMAIN root.configs : root.configs[i].ok
  BY <1>1, <1>7, <1>10
<1>13. QED
  BY <1>2, <1>9, <1>11, <1>12

-----------------------------------------------------------------------------
\* The search for one container

\* What is on the disk is typed for the explorers that are open.
LEMMA DiskTyped ==
  ASSUME CtlInv
  PROVE  /\ Opened("docker") => DockerDisk \in DockerEvidence
         /\ Opened("containerd") =>
              ContainerdDisk \in ContainerdEvidence
              /\ WellFormed(ContainerdDisk)
         /\ disk.podman \in Seq(PodmanEvidence) /\ Rooted \in BOOLEAN
<1>1. IsDisk(disk)
  BY Given DEF CtlInv
<1>2. Opened("docker") => dockerRoot \in DOMAIN disk.dockers
  BY DEF CtlInv, OpenedInv, DockerOpens, Opened
<1>3. Opened("containerd") => containerdRoot \in DOMAIN disk.containerds
  BY DEF CtlInv, OpenedInv, ContainerdOpens, Opened
<1>4. QED
  BY <1>1, <1>2, <1>3 DEF IsDisk, DockerDisk, ContainerdDisk, Rooted

\* Who can tell of a container depends on what stays.
LEMMA SameTelling ==
  ASSUME UNCHANGED <<given, config, opened>>
  PROVE  \A k : Telling(k)' = Telling(k)
<1>1. /\ UNCHANGED <<flags, disk, command, opened>>
      /\ UNCHANGED <<dockerRoot, containerdRoot, sc>>
  BY DEF given, config
<1>2. \A e : Opened(e)' = Opened(e)
  BY <1>1 DEF Opened
<1>3. DockerDisk' = DockerDisk /\ ContainerdDisk' = ContainerdDisk
  BY <1>1 DEF DockerDisk, ContainerdDisk
<1>4. Records' = Records /\ Rooted' = Rooted
  BY <1>1, <1>3 DEF Records, Rooted
<1>5. \A e : IDsOf(e)' = IDsOf(e)
  BY <1>1, <1>2, <1>3, <1>4 DEF IDsOf, Intact, PodmanRoots, Entries
<1>6. \A e, k : Finds(e, k)' = Finds(e, k)
  BY <1>1, <1>3, <1>4 DEF Finds
<1>7. QED
  BY <1>2, <1>4, <1>5, <1>6 DEF Telling

\* The records of containerd by their places.
LEMMA RecordsAre ==
  /\ \A r \in Records : \E n \in DOMAIN ContainerdDisk.nss :
       \E i \in DOMAIN ContainerdDisk.nss[n].ctrs :
         /\ r[1] = ContainerdDisk.nss[n].name
         /\ r[2] = ContainerdDisk.nss[n].ctrs[i]
  /\ \A n \in DOMAIN ContainerdDisk.nss :
       \A i \in DOMAIN ContainerdDisk.nss[n].ctrs :
         \E r \in Records : /\ r[1] = ContainerdDisk.nss[n].name
                            /\ r[2] = ContainerdDisk.nss[n].ctrs[i]
<1>1. \A x, y : <<x, y>>[1] = x /\ <<x, y>>[2] = y
  OBVIOUS
<1>2. ASSUME NEW r \in Records
      PROVE  \E n \in DOMAIN ContainerdDisk.nss :
               \E i \in DOMAIN ContainerdDisk.nss[n].ctrs :
                 /\ r[1] = ContainerdDisk.nss[n].name
                 /\ r[2] = ContainerdDisk.nss[n].ctrs[i]
  <2>1. PICK m \in ToSet(ContainerdDisk.nss) :
          r \in {<<m.name, c>> : c \in ToSet(m.ctrs)}
    BY DEF Records
  <2>2. PICK n \in DOMAIN ContainerdDisk.nss : m = ContainerdDisk.nss[n]
    BY DEF ToSet
  <2>3. PICK c \in ToSet(m.ctrs) : r = <<m.name, c>>
    BY <2>1
  <2>4. PICK i \in DOMAIN m.ctrs : c = m.ctrs[i]
    BY DEF ToSet
  <2>5. QED
    BY <1>1, <2>2, <2>3, <2>4
<1>3. ASSUME NEW n \in DOMAIN ContainerdDisk.nss,
             NEW i \in DOMAIN ContainerdDisk.nss[n].ctrs
      PROVE  \E r \in Records : /\ r[1] = ContainerdDisk.nss[n].name
                                /\ r[2] = ContainerdDisk.nss[n].ctrs[i]
  <2> DEFINE m == ContainerdDisk.nss[n]
  <2>1. m \in ToSet(ContainerdDisk.nss) /\ m.ctrs[i] \in ToSet(m.ctrs)
    BY DEF ToSet
  <2> HIDE DEF m
  <2>2. <<m.name, m.ctrs[i]>> \in Records
    BY <2>1 DEF Records
  <2>3. QED
    BY <1>1, <2>2 DEF m
<1>4. QED
  BY <1>2, <1>3

\* An explorer answers that it does not know the container if it cannot tell.
LEMMA SearchIs ==
  ASSUME CtlInv, NEW e \in Engines, Opened(e), NEW k
  PROVE  /\ Finds(e, k) \in {"yes", "no", "panic"}
         /\ Finds(e, k) = "no" <=> e \notin Telling(k)
<1>1. CASE e = "docker"
  <2> DEFINE root == DockerDisk
             L == DockerContainers(root)
             row == [i \in DOMAIN root.configs |-> DockerRow(root.configs[i])]
  <2>1. root \in DockerEvidence
    BY <1>1, DiskTyped
  <2> HIDE DEF root
  <2>2. /\ HasOnce(L, row, DOMAIN root.configs, Rows) /\ DockerRows(root, row)
        /\ L.res = "ok" <=> \A i \in DOMAIN root.configs : root.configs[i].ok
    BY <2>1, DockerListed
  <2> HIDE DEF L, row
  <2>3. \A i \in DOMAIN root.configs : row[i].id = root.configs[i].id
    BY <2>1, <2>2, DockerRowIs, ZenonT(40)
  <2>4. CASE L.res = "ok"
    <3>1. ToSet(L.items) = Values(row, DOMAIN root.configs)
      BY <2>2, <2>4 DEF HasOnce
    <3>2. Knows(L.items, k) <=> \E r \in ToSet(L.items) : r.id = k
      BY DEF Knows, ToSet
    <3>3. Knows(L.items, k) <=>
            \E i \in DOMAIN root.configs : root.configs[i].id = k
      BY <2>3, <3>1, <3>2 DEF Values
    <3>4. Intact("docker")
      BY <2>2, <2>4 DEF Intact, root, ToSet
    <3>5. k \in IDsOf("docker") <=> Knows(L.items, k)
      BY <1>1, <3>3, <3>4 DEF IDsOf, root, ToSet
    <3>6. QED
      BY <1>1, <3>5 DEF Finds, Telling, L, root
  <2>5. CASE L.res # "ok"
    <3>1. L.items = <<>>
      BY <2>2, <2>5 DEF HasOnce
    <3>2. ~Knows(L.items, k)
      BY <3>1 DEF Knows
    <3>3. ~Intact("docker")
      BY <2>2, <2>5 DEF Intact, root, ToSet
    <3>4. QED
      BY <1>1, <3>2, <3>3 DEF Finds, Telling, L, root, IDsOf
  <2>6. QED
    BY <2>4, <2>5
<1>2. CASE e = "podman"
  BY <1>2 DEF Finds, Telling
<1>3. CASE e = "containerd"
  <2> DEFINE root == ContainerdDisk
  <2>1. root \in ContainerdEvidence
    BY <1>3, DiskTyped
  <2>2. FirstNs(root, k) = 0 <=> \A n, i : ~RecordAt(root, k, n, i)
    BY <2>1, StoredIs
  <2>3. (\E r \in Records : r[2].ok /\ r[2].id = k)
          <=> \E n, i : RecordAt(root, k, n, i)
    <3>1. ASSUME NEW r \in Records, r[2].ok, r[2].id = k
          PROVE  \E n, i : RecordAt(root, k, n, i)
      BY <3>1, RecordsAre DEF RecordAt
    <3>2. ASSUME NEW n, NEW i, RecordAt(root, k, n, i)
          PROVE  \E r \in Records : r[2].ok /\ r[2].id = k
      BY <3>2, RecordsAre DEF RecordAt
    <3>3. QED
      BY <3>1, <3>2
  <2>4. e \in Telling(k) <=> \E r \in Records : r[2].ok /\ r[2].id = k
    BY <1>3 DEF Telling
  <2>5. /\ Finds(e, k) \in {"yes", "no", "panic"}
        /\ Finds(e, k) = "no" <=> FirstNs(root, k) = 0
    BY <1>3 DEF Finds
  <2>6. QED
    BY <2>2, <2>3, <2>4, <2>5
<1>4. QED
  BY <1>1, <1>2, <1>3 DEF Engines

\* The search has passed only explorers that cannot tell.
FindInv ==
  /\ FoundIfKnown
  /\ pc = "next" /\ command.kind \in FindKinds =>
       found = "none" /\ Telling(command.key) \cap Asked = {}

\* Nothing is looked for at first.
LEMMA InitFind == Init => FindInv
<1> SUFFICES ASSUME Init PROVE FindInv
  OBVIOUS
<1>1. pc = "start"
  BY DEF Init
<1>2. QED
  BY <1>1 DEF FindInv, FoundIfKnown

\* Every step keeps what the search has found.
LEMMA NextFind == CtlInv /\ FindInv /\ [Next]_vars => FindInv'
<1> SUFFICES ASSUME CtlInv, FindInv, [Next]_vars PROVE FindInv'
  OBVIOUS
<1>1. CASE InitializeRuntime \/ GetDocker \/ GetPodman
  BY <1>1 DEF InitializeRuntime, GetDocker, GetPodman, GetExplorer, FindInv,
              FoundIfKnown
<1>2. CASE GetContainerd
  <2>1. pc' = "next" /\ UNCHANGED <<given, found>> /\ found = "none"
    BY <1>2 DEF GetContainerd, GetExplorer, CtlInv, PlaceInv, Opening
  <2>2. xplrs' = opened'
    BY <1>2 DEF GetContainerd, GetExplorer, CtlInv, OpenedInv, Opening
  <2>3. Asked' = {}
    BY <2>2 DEF Asked
  <2>4. QED
    BY <2>1, <2>3 DEF FindInv, FoundIfKnown
<1>3. CASE ListNext \/ Show \/ LoopNext \/ MountOne \/ ScanOne \/ EndLoop
             \/ LoopsEnd
  <2>1. command.kind \notin FindKinds /\ UNCHANGED command
    BY <1>3 DEF ListNext, Show, LoopNext, MountOne, ScanOne, EndLoop,
                LoopsEnd, given, CtlInv, PlaceInv, ListKinds, LoopKinds,
                FindKinds
  <2>2. QED
    BY <2>1 DEF FindInv, FoundIfKnown
<1>4. CASE FindNext
  <2> DEFINE e == Head(xplrs)
             k == command.key
  <2>1. /\ UNCHANGED <<given, config, opened>> /\ pc = "next" /\ xplrs # <<>>
        /\ command.kind \in FindKinds
        /\ \/ /\ Finds(e, k) = "no" /\ xplrs' = Tail(xplrs)
              /\ UNCHANGED <<found, pc, result>>
           \/ /\ Finds(e, k) = "yes" /\ found' = e /\ pc' = "found"
              /\ UNCHANGED <<xplrs, result>>
           \/ pc' = "end" /\ result' = "panic"
    BY <1>4 DEF FindNext, Panic
  <2>2. /\ \A x : Telling(x)' = Telling(x)
        /\ UNCHANGED command
    BY <2>1, SameTelling DEF given
  <2>3. found = "none" /\ Telling(k) \cap Asked = {}
    BY <2>1 DEF FindInv
  <2>4. /\ e \in Engines /\ e \in ToSet(opened)
        /\ Finds(e, k) = "no" <=> e \notin Telling(k)
    BY <2>1, NextExplorer, SearchIs DEF CtlInv, Opened
  <2>5. CASE Finds(e, k) = "no" /\ xplrs' = Tail(xplrs)
               /\ UNCHANGED <<found, pc, result>>
    <3>1. Asked' = Asked \cup {e}
      BY <2>1, <2>5, ThenAsked DEF CtlInv, Asked
    <3>2. Telling(k) \cap Asked' = {}
      BY <2>3, <2>4, <2>5, <3>1
    <3>3. QED
      BY <2>1, <2>2, <2>3, <2>5, <3>2 DEF FindInv, FoundIfKnown
  <2>6. CASE Finds(e, k) = "yes" /\ found' = e /\ pc' = "found"
               /\ UNCHANGED <<xplrs, result>>
    <3> DEFINE f == First(opened, Telling(k))
    <3>1. PICK i \in DOMAIN opened :
            opened[i] = e /\ \A j \in 1..(i - 1) : opened[j] \in Asked
      BY <2>1, NextExplorer DEF CtlInv
    <3>2. /\ opened \in Seq(Engines) /\ DOMAIN opened = 1..Len(opened)
          /\ Len(opened) \in Nat
      BY InOrder, LenProperties DEF CtlInv, OpenedInv
    <3>3. /\ f \in 0..Len(opened)
          /\ f = 0 <=> ToSet(opened) \cap Telling(k) = {}
          /\ f # 0 => /\ opened[f] \in Telling(k)
                      /\ \A j \in 1..Len(opened) :
                           opened[j] \in Telling(k) => f <= j
      BY <3>2, FirstIs
    <3> HIDE DEF f
    <3>4. e \in Telling(k)
      BY <2>4, <2>6
    <3>5. f # 0 /\ f <= i
      BY <2>4, <3>1, <3>2, <3>3, <3>4
    <3>6. ~(f < i)
      <4> SUFFICES ASSUME f < i PROVE FALSE
        OBVIOUS
      <4>1. f \in 1..(i - 1)
        BY <3>2, <3>3, <3>5
      <4>2. QED
        BY <2>3, <3>1, <3>3, <3>5, <4>1
    <3>7. f = i
      BY <3>2, <3>3, <3>5, <3>6
    <3>8. found' = opened[f] /\ Telling(k) # {}
      BY <2>6, <3>1, <3>4, <3>7
    <3>9. QED
      BY <2>1, <2>2, <2>6, <3>8 DEF FindInv, FoundIfKnown, f
  <2>7. CASE pc' = "end" /\ result' = "panic"
    BY <2>7 DEF FindInv, FoundIfKnown
  <2>8. QED
    BY <2>1, <2>5, <2>6, <2>7
<1>5. CASE NotFound
  <2>1. /\ UNCHANGED <<given, config, opened, found>> /\ pc = "next"
        /\ xplrs = <<>> /\ command.kind \in FindKinds /\ pc' = "end"
    BY <1>5 DEF NotFound
  <2>2. /\ \A x : Telling(x)' = Telling(x)
        /\ UNCHANGED command
    BY <2>1, SameTelling DEF given
  <2>3. found = "none" /\ Telling(command.key) \cap Asked = {}
    BY <2>1 DEF FindInv
  <2>4. Asked = ToSet(opened)
    BY <2>1, NothingIn DEF Asked
  <2>5. Telling(command.key) = {}
    BY <2>3, <2>4 DEF Telling, Opened
  <2>6. QED
    BY <2>1, <2>2, <2>3, <2>5 DEF FindInv, FoundIfKnown
<1>6. CASE UseFound \/ UNCHANGED vars
  <2>1. /\ UNCHANGED <<given, config, opened, found, xplrs>>
        /\ pc' = "next" => pc = "next"
        /\ pc' \in {"found", "end"} /\ result' # "panic" =>
             pc \in {"found", "end"} /\ result # "panic"
    BY <1>6 DEF UseFound, vars, given, config, CtlInv, PlaceInv
  <2>2. /\ \A x : Telling(x)' = Telling(x)
        /\ UNCHANGED command
    BY <2>1, SameTelling DEF given
  <2>3. Asked' = Asked
    BY <2>1 DEF Asked
  <2>4. QED
    BY <2>1, <2>2, <2>3 DEF FindInv, FoundIfKnown
<1>7. QED
  BY <1>1, <1>2, <1>3, <1>4, <1>5, <1>6 DEF Next, Step, Done

\* For every disk, every set of explorers that could be opened and every ID: a
\* search that ends without a panic has the first explorer that can tell that
\* it has the container, and says that there is none only if none can tell.
THEOREM FoundWhereKnown == Spec => []FoundIfKnown
<1>1. Init => CtlInv /\ FindInv
  BY InitCtl, InitFind
<1>2. CtlInv /\ FindInv /\ [Next]_vars => (CtlInv /\ FindInv)'
  BY NextCtl, NextFind
<1>3. CtlInv /\ FindInv => FoundIfKnown
  BY DEF FindInv
<1>4. QED
  BY <1>1, <1>2, <1>3, PTL DEF Spec

-----------------------------------------------------------------------------
\* All namespaces of containerd

\* The places of the records, and their rows.
Places(root) ==
  UNION {{k} \X DOMAIN root.nss[k].ctrs : k \in DOMAIN root.nss}
PlacedRows(root, criteria, rooted) ==
  [p \in Places(root) |-> RowAt(root, criteria, rooted, p[1], p[2])]
OfID(id) == {r \in Rows : r.id = id}

\* The places are pairs.
LEMMA PlacesAre ==
  ASSUME NEW root
  PROVE  /\ \A p \in Places(root) :
              /\ p = <<p[1], p[2]>> /\ p[1] \in DOMAIN root.nss
              /\ p[2] \in DOMAIN root.nss[p[1]].ctrs
         /\ \A k \in DOMAIN root.nss : \A i \in DOMAIN root.nss[k].ctrs :
              /\ <<k, i>> \in Places(root)
              /\ <<k, i>>[1] = k /\ <<k, i>>[2] = i
BY SMTT(30) DEF Places

\* r is the row of the record in the i-th place of the k-th namespace: it has
\* the record's own ID, and the state of the first record of that ID.
RowTold(r, root, criteria, rooted, k, i) ==
  LET c == root.nss[k].ctrs[i]
      first == Stored(root, c.id)
  IN  /\ r \in Rows /\ r.ns = root.nss[k].name /\ r.id = c.id
      /\ r.labels = c.labels
      /\ r.support = IsSupportContainer(criteria, c)
      /\ r.pid = GetContainerTask(first.specs, CgroupOf(first, rooted),
                                  InitOf(c, rooted)).task.pid
      /\ r.status \in Active => rooted /\ CgroupBacks(first.cgroup, r.status)
      /\ PidBacks(r.pid, first.cgroup, c.init)
      /\ first \in ContainerRecord /\ first.id = c.id
      /\ CgroupOf(first, rooted) \in CgroupFiles
      /\ InitOf(c, rooted) \in Int

\* The row of a record is the row of its ID.
LEMMA RowAtIs ==
  ASSUME NEW root \in ContainerdEvidence, NEW criteria, NEW rooted \in BOOLEAN,
         NEW k \in DOMAIN root.nss, NEW i \in DOMAIN root.nss[k].ctrs,
         root.nss[k].ctrs[i].ok
  PROVE  RowTold(RowAt(root, criteria, rooted, k, i), root, criteria, rooted,
                 k, i)
<1> DEFINE c == root.nss[k].ctrs[i]
           ns == root.nss[k].name
           r == RowAt(root, criteria, rooted, k, i)
<1>1. c \in ContainerRecord /\ ns \in STRING
  BY ContainerdTyped
<1>2. RecordAt(root, c.id, k, i)
  BY DEF RecordAt
<1>3. FirstNs(root, c.id) # 0
  BY <1>2, StoredIs
<1>4. r = RecordRow(root, criteria, rooted, ns, c)
  BY DEF RowAt
<1> HIDE DEF c, ns, r
<1>5. LET first == Stored(root, c.id)
      IN  /\ r \in Rows /\ r.ns = ns /\ r.id = c.id /\ r.labels = c.labels
          /\ r.support = IsSupportContainer(criteria, c)
          /\ r.pid = GetContainerTask(first.specs, CgroupOf(first, rooted),
                                      InitOf(c, rooted)).task.pid
          /\ r.status \in Active =>
               rooted /\ CgroupBacks(first.cgroup, r.status)
          /\ PidBacks(r.pid, first.cgroup, c.init)
          /\ first \in ContainerRecord /\ first.id = c.id
          /\ CgroupOf(first, rooted) \in CgroupFiles
          /\ InitOf(c, rooted) \in Int
  BY ONLY <1>1, <1>3, <1>4, RecordRowIs, root \in ContainerdEvidence,
          rooted \in BOOLEAN
<1>6. QED
  BY <1>5 DEF c, ns, r, RowTold

\* The row at a place tells its record.
LEMMA RowTells ==
  ASSUME NEW root \in ContainerdEvidence, NEW criteria, NEW rooted \in BOOLEAN,
         NEW p \in Places(root), root.nss[p[1]].ctrs[p[2]].ok
  PROVE  LET r == PlacedRows(root, criteria, rooted)[p]
             c == root.nss[p[1]].ctrs[p[2]]
         IN  /\ r \in Rows /\ r.ns = root.nss[p[1]].name /\ r.id = c.id
             /\ r.labels = c.labels
             /\ r.support = IsSupportContainer(criteria, c)
<1> DEFINE k == p[1]
           i == p[2]
<1>1. k \in DOMAIN root.nss /\ i \in DOMAIN root.nss[k].ctrs
        /\ root.nss[k].ctrs[i].ok
  BY PlacesAre
<1>2. PlacedRows(root, criteria, rooted)[p] =
        RowAt(root, criteria, rooted, k, i)
  BY DEF PlacedRows
<1> HIDE DEF k, i
<1> DEFINE r == RowAt(root, criteria, rooted, k, i)
           c == root.nss[k].ctrs[i]
<1>3. RowTold(r, root, criteria, rooted, k, i)
  BY ONLY <1>1, RowAtIs, root \in ContainerdEvidence, rooted \in BOOLEAN,
          SMTT(30)
<1>4. /\ r \in Rows /\ r.ns = root.nss[k].name
      /\ r.id = c.id /\ r.labels = c.labels
      /\ r.support = IsSupportContainer(criteria, c)
  BY ONLY <1>3 DEF RowTold
<1>5. QED
  BY <1>2, <1>4 DEF k, i

\* containerd lists one row for each record, or nothing.
LEMMA ContainerdListed ==
  ASSUME NEW root \in ContainerdEvidence, NEW criteria, NEW rooted \in BOOLEAN,
         NEW L, L = ContainerdContainers(root, criteria, rooted)
  PROVE  LET row == PlacedRows(root, criteria, rooted)
         IN  /\ HasOnce(L, row, Places(root), Rows)
             /\ L.res = "error" =>
                  \E p \in Places(root) : ~root.nss[p[1]].ctrs[p[2]].ok
             /\ L.res = "ok" =>
                  \A p \in Places(root) : root.nss[p[1]].ctrs[p[2]].ok
             /\ L.res = "ok" =>
                  \A id, k, i : RecordAt(root, id, k, i)
                    /\ (\A m, j : RecordAt(root, id, m, j) =>
                                    k <= m /\ (k = m => i <= j))
                    => IsFirst(L.items, OfID(id), row[<<k, i>>])
<1> DEFINE row == PlacedRows(root, criteria, rooted)
           parts == [k \in DOMAIN root.nss |->
                       ContainerdNamespace(root, criteria, rooted,
                                           root.nss[k])]
           rowOf == [k \in DOMAIN root.nss |->
                       RowsOf(root, criteria, rooted, k)]
           D(k) == DOMAIN root.nss[k].ctrs
           T == Results(Rows)
<1>1. /\ root.nss \in Seq(NamespaceRecord)
      /\ Len(root.nss) \in Nat /\ DOMAIN root.nss = 1..Len(root.nss)
  BY ContainerdTyped
<1>2. \A k \in DOMAIN root.nss : \A i \in D(k) :
        rowOf[k][i] = row[<<k, i>>] /\ <<k, i>> \in Places(root)
  BY PlacesAre DEF RowsOf, PlacedRows
<1>3. \A k \in DOMAIN root.nss :
        parts[k] = ContainerdNamespace(root, criteria, rooted, root.nss[k])
  OBVIOUS
<1>4. \A k \in DOMAIN root.nss : rowOf[k] = RowsOf(root, criteria, rooted, k)
  OBVIOUS
<1>5. L = Collect(parts) /\ parts = [k \in DOMAIN root.nss |-> parts[k]]
      /\ DOMAIN parts = DOMAIN root.nss
  BY DEF ContainerdContainers
<1> HIDE DEF parts, rowOf
<1>6. ASSUME NEW k \in DOMAIN root.nss
      PROVE  /\ HasOnce(parts[k], rowOf[k], D(k), Rows)
             /\ FirstOf(parts[k], rowOf[k], D(k))
             /\ parts[k].res = "error" =>
                  \E i \in D(k) : ~root.nss[k].ctrs[i].ok
             /\ parts[k].res = "ok" => \A i \in D(k) : root.nss[k].ctrs[i].ok
  BY ONLY <1>3, <1>4, <1>6, NamespaceListed, root \in ContainerdEvidence,
          rooted \in BOOLEAN
<1>7. /\ \A p \in Places(root) :
           p = <<p[1], p[2]>> /\ p[1] \in DOMAIN root.nss /\ p[2] \in D(p[1])
      /\ \A k \in DOMAIN root.nss : \A i \in D(k) : <<k, i>> \in Places(root)
      /\ \A k, i, l, j : <<k, i>> = <<l, j>> => k = l /\ i = j
      /\ \A k, i : <<k, i>>[1] = k /\ <<k, i>>[2] = i
  BY PlacesAre
<1>8. ASSUME NEW k \in DOMAIN root.nss
      PROVE  /\ parts[k] \in T
             /\ parts[k].res = "ok" =>
                  ToSet(parts[k].items) = Values(rowOf[k], D(k))
  <2>1. HasOnce(parts[k], rowOf[k], D(k), Rows)
    BY <1>6
  <2>2. QED
    BY ONLY <2>1 DEF HasOnce
<1>9. parts \in Seq(T)
  <2>1. \A k \in DOMAIN root.nss : parts[k] \in T
    BY <1>8
  <2> HIDE DEF T
  <2>2. QED
    BY ONLY <1>1, <1>5, <2>1, SequenceOf
<1>10. /\ L \in T
       /\ L.res = "ok" <=> \A k \in DOMAIN root.nss : parts[k].res = "ok"
       /\ L.res # "ok" => /\ L.items = <<>>
                          /\ \E k \in DOMAIN root.nss : parts[k].res = L.res
       /\ L.res = "ok" =>
            /\ ToSet(L.items) =
                 UNION {ToSet(parts[k].items) : k \in DOMAIN root.nss}
            /\ \E seqs \in Seq(Seq(Rows)) :
                 ItemsOfParts(seqs, parts) /\ L.items = FlattenSeq(seqs)
  BY ONLY <1>5, <1>9, CollectIs
<1>11. HasOnce(L, row, Places(root), Rows)
  <2> DEFINE E == [k \in DOMAIN root.nss |-> D(k)]
  <2>1. \A k \in DOMAIN root.nss : E[k] = D(k)
    OBVIOUS
  <2> HIDE DEF D, E, row
  <2>2. \A k \in DOMAIN parts : HasOnce(parts[k], rowOf[k], E[k], Rows)
    BY <1>5, <1>6, <2>1
  <2>3. /\ \A k \in DOMAIN parts : \A i \in E[k] :
             rowOf[k][i] = row[<<k, i>>] /\ <<k, i>> \in Places(root)
        /\ \A p \in Places(root) :
             p = <<p[1], p[2]>> /\ p[1] \in DOMAIN parts /\ p[2] \in E[p[1]]
    BY ONLY <1>2, <1>5, <1>7, <2>1
  <2>4. Nested(parts, rowOf, E, row, Places(root), Rows)
    BY ONLY <1>9, <2>2, <2>3 DEF Nested
  <2>5. QED
    BY ONLY <1>5, <2>4, NestedOnce
<1>12. ASSUME L.res = "ok", NEW id, NEW k, NEW i, RecordAt(root, id, k, i),
              \A m, j : RecordAt(root, id, m, j) => k <= m /\ (k = m => i <= j)
       PROVE  IsFirst(L.items, OfID(id), row[<<k, i>>])
  <2>1. PICK seqs \in Seq(Seq(Rows)) :
          ItemsOfParts(seqs, parts) /\ L.items = FlattenSeq(seqs)
    BY <1>10, <1>12
  <2>2. /\ DOMAIN seqs = DOMAIN root.nss
        /\ \A m \in DOMAIN root.nss :
             seqs[m] = parts[m].items /\ parts[m].res = "ok"
    BY ONLY <1>5, <1>10, <1>12, <2>1 DEF ItemsOfParts
  <2>3. k \in DOMAIN root.nss /\ i \in D(k)
    BY <1>12 DEF RecordAt
  <2>4. \A m \in DOMAIN root.nss : \A j \in D(m) :
          rowOf[m][j] \in OfID(id) <=> RecordAt(root, id, m, j)
    <3> SUFFICES ASSUME NEW m \in DOMAIN root.nss, NEW j \in D(m)
                 PROVE  rowOf[m][j] \in OfID(id) <=> RecordAt(root, id, m, j)
      OBVIOUS
    <3>1. root.nss[m].ctrs[j].ok
      BY <1>6, <2>2
    <3>2. rowOf[m][j] = RowAt(root, criteria, rooted, m, j)
      BY <1>4 DEF RowsOf
    <3>3. rowOf[m][j] \in Rows /\ rowOf[m][j].id = root.nss[m].ctrs[j].id
      <4>1. RowTold(rowOf[m][j], root, criteria, rooted, m, j)
        BY ONLY <3>1, <3>2, RowAtIs, root \in ContainerdEvidence,
                rooted \in BOOLEAN, m \in DOMAIN root.nss, j \in D(m)
      <4>2. QED
        BY ONLY <4>1 DEF RowTold
    <3>4. QED
      BY <3>1, <3>3 DEF OfID, RecordAt
  <2> HIDE DEF D, row
  <2>5. ASSUME NEW m \in 1..(k - 1) PROVE ToSet(seqs[m]) \cap OfID(id) = {}
    <3>1. m \in DOMAIN root.nss /\ ~(k <= m)
      BY <1>1, <2>3
    <3>2. \A j \in D(m) : rowOf[m][j] \notin OfID(id)
      BY <1>12, <2>4, <3>1
    <3>3. ToSet(seqs[m]) = Values(rowOf[m], D(m))
      BY <1>8, <2>2, <3>1
    <3>4. QED
      BY ONLY <3>2, <3>3, ValuesAre
  <2>6. IsFirst(seqs[k], OfID(id), rowOf[k][i])
    <3>1. rowOf[k][i] \in OfID(id)
      BY <1>12, <2>3, <2>4
    <3>2. \A j \in D(k) : j < i => rowOf[k][j] \notin OfID(id)
      <4> SUFFICES ASSUME NEW j \in D(k), j < i, rowOf[k][j] \in OfID(id)
                   PROVE  FALSE
        OBVIOUS
      <4>1. RecordAt(root, id, k, j)
        BY <2>3, <2>4
      <4>2. i <= j /\ i \in Nat /\ j \in Nat
        BY <1>12, <2>3, <4>1, ContainerdTyped DEF D
      <4>3. QED
        BY <4>2
    <3>3. FirstOf(parts[k], rowOf[k], D(k)) /\ seqs[k] = parts[k].items
            /\ parts[k].res = "ok"
      BY <1>6, <2>2, <2>3
    <3>4. QED
      BY ONLY <2>3, <3>1, <3>2, <3>3 DEF FirstOf
  <2>7. IsFirst(FlattenSeq(seqs), OfID(id), rowOf[k][i])
    BY ONLY <2>1, <2>2, <2>3, <2>5, <2>6, FlattenedFirst
  <2>8. QED
    BY <1>2, <2>1, <2>3, <2>7
<1>13. ASSUME L.res = "error"
       PROVE  \E p \in Places(root) : ~root.nss[p[1]].ctrs[p[2]].ok
  <2>1. PICK k \in DOMAIN root.nss : parts[k].res = "error"
    BY <1>10, <1>13
  <2>2. PICK i \in D(k) : ~root.nss[k].ctrs[i].ok
    BY <1>6, <2>1
  <2>3. <<k, i>> \in Places(root)
        /\ ~root.nss[<<k, i>>[1]].ctrs[<<k, i>>[2]].ok
    BY <1>7, <2>1, <2>2
  <2>4. QED
    BY <2>3
<1>14. ASSUME L.res = "ok"
       PROVE  \A p \in Places(root) : root.nss[p[1]].ctrs[p[2]].ok
  BY <1>6, <1>7, <1>10, <1>14
<1>15. QED
  BY <1>11, <1>12, <1>13, <1>14

-----------------------------------------------------------------------------
\* The listings of podman

\* The evidence of podman is typed at every depth.
LEMMA PodmanTyped ==
  ASSUME NEW roots \in Seq(PodmanEvidence)
  PROVE  /\ Len(roots) \in Nat /\ DOMAIN roots = 1..Len(roots)
         /\ \A r \in DOMAIN roots :
              /\ roots[r] \in PodmanEvidence
              /\ roots[r].entries \in Seq(ContainerConfig)
              /\ Len(roots[r].entries) \in Nat
              /\ DOMAIN roots[r].entries = 1..Len(roots[r].entries)
              /\ \A k \in DOMAIN roots[r].entries :
                   roots[r].entries[k] \in ContainerConfig
              /\ roots[r].states \in Seq(ContainerState)
              /\ roots[r].images \in ImageNames
<1>1. /\ Len(roots) \in Nat /\ DOMAIN roots = 1..Len(roots)
      /\ \A r \in DOMAIN roots : roots[r] \in PodmanEvidence
  BY LenProperties, ElementOfSeq
<1>2. \A x \in PodmanEvidence : /\ x.entries \in Seq(ContainerConfig)
                                /\ x.states \in Seq(ContainerState)
                                /\ x.images \in ImageNames
  BY DEF PodmanEvidence
<1>3. ASSUME NEW s \in Seq(ContainerConfig)
      PROVE  /\ Len(s) \in Nat /\ DOMAIN s = 1..Len(s)
             /\ \A k \in DOMAIN s : s[k] \in ContainerConfig
  BY LenProperties, ElementOfSeq
<1>4. QED
  BY <1>1, <1>2, <1>3

\* A title is a text.
LEMMA TitleIs ==
  ASSUME NEW roots \in Seq(PodmanEvidence), NEW r \in DOMAIN roots,
         NEW k \in DOMAIN roots[r].entries
  PROVE  Title(roots[r], k) \in Texts
<1> DEFINE es == roots[r].entries
           named == {i \in 1..k : es[i].metadata /\ es[i].title # ""}
<1>1. /\ k \in Nat /\ DOMAIN es = 1..Len(es) /\ Len(es) \in Nat
      /\ k \in 1..Len(es) /\ \A i \in 1..Len(es) : es[i] \in ContainerConfig
  BY PodmanTyped
<1>2. Title(roots[r], k) = IF named = {} THEN "" ELSE es[Max(named)].title
  BY DEF Title
<1>3. named \in SUBSET (0..k)
  <2>1. \A i \in 1..k : i \in 0..k /\ i \in 1..Len(es)
    <3> HIDE DEF es
    <3>1. QED
      BY <1>1
  <2>2. QED
    BY <2>1
<1>4. ASSUME named # {} PROVE es[Max(named)].title \in STRING
  <2> DEFINE m == Max(named)
  <2>1. m \in named
    BY <1>1, <1>3, <1>4, MaxIsGreatest
  <2>2. m \in 1..k
    BY <2>1
  <2> HIDE DEF es, m
  <2>3. m \in 1..Len(es)
    BY <1>1, <2>2
  <2>4. es[m] \in ContainerConfig
    BY <1>1, <2>3
  <2>5. es[m].title \in STRING
    BY <2>4 DEF ContainerConfig
  <2>6. QED
    BY <2>5 DEF m
<1>5. QED
  BY <1>2, <1>4 DEF Texts

\* A container of podman is listed without state, labels or support.
PlainRow(r, id) ==
  /\ r \in Rows /\ r.type = "podman" /\ r.ns = "" /\ r.id = id /\ r.pid = 0
  /\ r.status = "" /\ r.labels = {} /\ r.support = FALSE

\* The row of podman is such a row.
LEMMA PlainRowIs ==
  ASSUME NEW id \in STRING, NEW name \in Texts
  PROVE  PlainRow(Row("podman", "", id, name, 0, ""), id)
<1> DEFINE r == Row("podman", "", id, name, 0, "")
<1>1. PICK type \in Texts, ns \in Texts, pid \in Int, status \in Texts :
        /\ type = "podman" /\ ns = "" /\ pid = 0 /\ status = ""
        /\ r = Row(type, ns, id, name, pid, status)
  <2>1. "podman" \in Texts /\ "" \in Texts
    BY DEF Texts
  <2>2. 0 \in Int
    OBVIOUS
  <2>3. QED
    BY ONLY <2>1, <2>2
<1>2. id \in Texts
  BY DEF Texts
<1>3. /\ r \in Rows /\ r.type = type /\ r.ns = ns /\ r.id = id
      /\ r.pid = pid /\ r.labels = {} /\ r.support = FALSE
      /\ r.status = status
  BY ONLY <1>1, <1>2, name \in Texts DEF Row, Rows, Labels
<1> HIDE DEF r
<1>4. PlainRow(r, id)
  BY <1>1, <1>3 DEF PlainRow
<1>5. QED
  BY <1>4 DEF r

\* The places of the containers with metadata, and their rows.
PodmanPlaces(roots) ==
  {p \in UNION {{r} \X DOMAIN roots[r].entries : r \in DOMAIN roots} :
     roots[p[1]].ok /\ roots[p[1]].entries[p[2]].metadata}
PodmanRow(root, k) ==
  Row("podman", "", root.entries[k].id, Title(root, k), 0, "")
PodmanRows(roots) ==
  [p \in PodmanPlaces(roots) |-> PodmanRow(roots[p[1]], p[2])]

\* The places are pairs, and their containers have metadata.
LEMMA PodmanPlacesAre ==
  ASSUME NEW roots
  PROVE  /\ \A p \in PodmanPlaces(roots) :
              /\ p = <<p[1], p[2]>> /\ p[1] \in DOMAIN roots
              /\ p[2] \in DOMAIN roots[p[1]].entries
              /\ roots[p[1]].ok /\ roots[p[1]].entries[p[2]].metadata
         /\ \A r \in DOMAIN roots : \A k \in DOMAIN roots[r].entries :
              roots[r].ok /\ roots[r].entries[k].metadata =>
                <<r, k>> \in PodmanPlaces(roots)
         /\ \A r, k : <<r, k>>[1] = r /\ <<r, k>>[2] = k
<1>1. ASSUME NEW p \in PodmanPlaces(roots)
      PROVE  /\ p = <<p[1], p[2]>> /\ p[1] \in DOMAIN roots
             /\ p[2] \in DOMAIN roots[p[1]].entries
             /\ roots[p[1]].ok /\ roots[p[1]].entries[p[2]].metadata
  BY DEF PodmanPlaces
<1>2. \A r, k : <<r, k>>[1] = r /\ <<r, k>>[2] = k
  OBVIOUS
<1>3. ASSUME NEW r \in DOMAIN roots, NEW k \in DOMAIN roots[r].entries,
             roots[r].ok /\ roots[r].entries[k].metadata
      PROVE  <<r, k>> \in PodmanPlaces(roots)
  <2>1. <<r, k>> \in UNION {{x} \X DOMAIN roots[x].entries :
                               x \in DOMAIN roots}
    OBVIOUS
  <2>2. QED
    BY <1>2, <1>3, <2>1 DEF PodmanPlaces
<1>4. QED
  BY <1>1, <1>2, <1>3

\* What is listed of one root.
LEMMA PodmanOfIs ==
  ASSUME NEW roots \in Seq(PodmanEvidence), NEW r \in DOMAIN roots, NEW row,
         row = [k \in DOMAIN roots[r].entries |-> PodmanRow(roots[r], k)]
  PROVE  LET used == IF roots[r].ok
                     THEN {k \in DOMAIN roots[r].entries :
                             roots[r].entries[k].metadata} ELSE {}
         IN  /\ HasOnce(Ok(PodmanOf(roots[r])), row, used, Rows)
             /\ \A k \in used : PlainRow(row[k], roots[r].entries[k].id)
<1> DEFINE root == roots[r]
           es == root.entries
           n == Len(es)
           with == {k \in DOMAIN es : es[k].metadata}
           used == IF root.ok THEN with ELSE {}
           seqs == [k \in DOMAIN es |->
                      IF es[k].metadata THEN <<PodmanRow(root, k)>> ELSE <<>>]
           L == Ok(PodmanOf(root))
<1>1. /\ n \in Nat /\ DOMAIN es = 1..n /\ es \in Seq(ContainerConfig)
      /\ \A k \in 1..n : es[k].id \in STRING /\ Title(root, k) \in Texts
  <2>1. /\ n \in Nat /\ DOMAIN es = 1..n /\ es \in Seq(ContainerConfig)
        /\ \A k \in 1..n : es[k] \in ContainerConfig
    BY PodmanTyped
  <2>2. \A k \in 1..n : Title(root, k) \in Texts
    BY <2>1, TitleIs
  <2>3. QED
    BY <2>1, <2>2 DEF ContainerConfig
<1>2. \A k \in 1..n : PlainRow(row[k], es[k].id)
  BY <1>1, PlainRowIs DEF PodmanRow
<1>3. \A k \in 1..n : row[k] \in Rows
  BY <1>2 DEF PlainRow
<1>4. ASSUME ~root.ok PROVE HasOnce(L, row, used, Rows)
  <2>1. used = {} /\ L = Ok(<<>>)
    BY <1>4 DEF PodmanOf
  <2>2. L \in Results(Rows) /\ L.res = "ok" /\ L.items = <<>>
    BY <2>1, OutcomesAre
  <2>3. /\ ToSet(L.items) = {} /\ Values(row, used) = {}
        /\ \A S, key : Apart(L.items, S, key)
    BY <2>1, <2>2, NothingIn DEF Values, Apart
  <2>4. HasOnce(L, row, used, Rows)
    <3> HIDE DEF L, used
    <3>1. QED
      BY ONLY <2>2, <2>3 DEF HasOnce
  <2>5. QED
    BY <2>4
<1>5. ASSUME root.ok PROVE HasOnce(L, row, used, Rows)
  <2>1. L = Ok(FlattenSeq(seqs))
    BY <1>5 DEF PodmanOf, PodmanRow
  <2>2. \A k \in 1..n : seqs[k] = IF k \in with THEN <<row[k]>> ELSE <<>>
    BY <1>1
  <2>3. with \subseteq 1..n /\ DOMAIN seqs = 1..n
    BY <1>1
  <2>4. AreSingles(seqs, n, with, row)
    <3> HIDE DEF n, with, seqs
    <3>1. QED
      BY ONLY <1>1, <2>2, <2>3 DEF AreSingles
  <2>5. seqs = [k \in DOMAIN es |-> seqs[k]]
    OBVIOUS
  <2> DEFINE V == Seq(Rows)
             f == FlattenSeq(seqs)
  <2> HIDE DEF seqs, with
  <2>6. \A k \in DOMAIN es : seqs[k] \in V
    <3>1. \A x \in Rows : <<x>> \in Seq(Rows)
      OBVIOUS
    <3>2. <<>> \in Seq(Rows)
      OBVIOUS
    <3>3. QED
      BY <1>1, <1>3, <2>2, <3>1, <3>2
  <2> HIDE DEF V
  <2>7. seqs \in Seq(V)
    BY ONLY <1>1, <2>5, <2>6, SequenceOf
  <2>8. seqs \in Seq(Seq(Rows)) /\ \A k \in with : row[k] \in Rows
    BY <1>3, <2>3, <2>7 DEF V
  <2>9. f \in Seq(Rows) /\ ToSet(f) = Values(row, with)
    BY ONLY <2>4, <2>8, Singles
  <2>10. ASSUME NEW S, NEW key,
                \A p, q \in with :
                  row[p] \in S /\ row[q] \in S /\ key[row[p]] = key[row[q]]
                    => p = q
         PROVE  Apart(f, S, key)
    BY ONLY <2>4, <2>8, <2>10, Singles
  <2> HIDE DEF f
  <2>11. L \in Results(Rows) /\ L.res = "ok" /\ L.items = f
    BY <2>1, <2>9, OutcomesAre DEF f
  <2> HIDE DEF L
  <2>12. HasOnce(L, row, with, Rows)
    BY ONLY <2>9, <2>10, <2>11 DEF HasOnce
  <2>13. used = with
    BY <1>5
  <2>14. HasOnce(L, row, used, Rows)
    BY <2>12, <2>13
  <2>15. QED
    BY <2>14 DEF with
<1>6. HasOnce(L, row, used, Rows)
  BY <1>4, <1>5
<1>7. \A k \in used : k \in 1..n
  BY <1>1
<1>8. \A k \in used : PlainRow(row[k], es[k].id)
  BY <1>2, <1>7
<1>9. QED
  BY <1>6, <1>8

\* podman lists one row for each container that has metadata.
LEMMA PodmanListed ==
  ASSUME NEW roots \in Seq(PodmanEvidence), NEW L, L = PodmanContainers(roots)
  PROVE  /\ HasOnce(L, PodmanRows(roots), PodmanPlaces(roots), Rows)
         /\ L.res = "ok"
         /\ \A p \in PodmanPlaces(roots) :
              PlainRow(PodmanRows(roots)[p], roots[p[1]].entries[p[2]].id)
<1> DEFINE row == PodmanRows(roots)
           places == PodmanPlaces(roots)
           parts == [r \in DOMAIN roots |-> Ok(PodmanOf(roots[r]))]
           rowOf == [r \in DOMAIN roots |->
                       [k \in DOMAIN roots[r].entries |->
                          PodmanRow(roots[r], k)]]
           D == [r \in DOMAIN roots |->
                   IF roots[r].ok
                   THEN {k \in DOMAIN roots[r].entries :
                           roots[r].entries[k].metadata} ELSE {}]
<1>1. ASSUME NEW r \in DOMAIN roots
      PROVE  /\ HasOnce(parts[r], rowOf[r], D[r], Rows)
             /\ \A k \in D[r] : PlainRow(rowOf[r][k], roots[r].entries[k].id)
  BY PodmanOfIs
<1>2. L = Collect(parts) /\ L.res = "ok"
  <2>1. \A r \in DOMAIN parts : parts[r].res = "ok"
    BY DEF Ok
  <2>2. {r \in DOMAIN parts : parts[r].res # "ok"} = {}
    BY <2>1
  <2>3. [r \in DOMAIN parts |-> parts[r].items] =
          [r \in DOMAIN roots |-> PodmanOf(roots[r])]
    BY DEF Ok
  <2>4. Collect(parts) =
          Ok(FlattenSeq([r \in DOMAIN parts |-> parts[r].items]))
    BY <2>2 DEF Collect
  <2>5. L = Collect(parts)
    BY <2>3, <2>4 DEF PodmanContainers
  <2>6. QED
    BY <2>4, <2>5 DEF Ok
<1>3. parts \in Seq(Results(Rows)) /\ DOMAIN parts = DOMAIN roots
  <2> DEFINE V == Results(Rows)
  <2>1. \A r \in DOMAIN roots : parts[r] \in V
    BY <1>1 DEF HasOnce
  <2>2. parts = [r \in DOMAIN roots |-> parts[r]]
    OBVIOUS
  <2> HIDE DEF parts, V
  <2>3. parts \in Seq(V) /\ DOMAIN parts = DOMAIN roots
    BY ONLY <2>1, <2>2, SequenceOf, roots \in Seq(PodmanEvidence)
  <2>4. QED
    BY <2>3 DEF V
<1>4. \A r \in DOMAIN roots : \A k \in D[r] :
        /\ k \in DOMAIN roots[r].entries /\ roots[r].ok
        /\ roots[r].entries[k].metadata
        /\ rowOf[r][k] = PodmanRow(roots[r], k)
  OBVIOUS
<1>5. \A p \in places : p[1] \in DOMAIN roots /\ p[2] \in D[p[1]]
  BY PodmanPlacesAre
<1>6. \A p \in places : row[p] = PodmanRow(roots[p[1]], p[2])
  BY DEF PodmanRows
<1> HIDE DEF parts, rowOf, D, row, places
<1>7. /\ \A r \in DOMAIN parts : \A k \in D[r] :
           rowOf[r][k] = row[<<r, k>>] /\ <<r, k>> \in places
      /\ \A p \in places :
           p = <<p[1], p[2]>> /\ p[1] \in DOMAIN parts /\ p[2] \in D[p[1]]
  <2>1. \A p \in places : p = <<p[1], p[2]>>
    BY PodmanPlacesAre DEF places
  <2>2. ASSUME NEW r \in DOMAIN roots, NEW k \in D[r]
        PROVE  rowOf[r][k] = row[<<r, k>>] /\ <<r, k>> \in places
    <3>1. <<r, k>> \in places /\ <<r, k>>[1] = r /\ <<r, k>>[2] = k
      BY <1>4, PodmanPlacesAre DEF places
    <3>2. QED
      BY <1>4, <1>6, <3>1
  <2>3. QED
    BY <1>3, <1>5, <2>1, <2>2
<1>8. \A r \in DOMAIN parts : HasOnce(parts[r], rowOf[r], D[r], Rows)
  BY <1>1, <1>3
<1>9. Nested(parts, rowOf, D, row, places, Rows)
  BY ONLY <1>3, <1>7, <1>8 DEF Nested
<1>10. HasOnce(L, row, places, Rows)
  BY ONLY <1>2, <1>9, NestedOnce
<1>11. \A p \in places : PlainRow(row[p], roots[p[1]].entries[p[2]].id)
  <2> SUFFICES ASSUME NEW p \in places
               PROVE  PlainRow(row[p], roots[p[1]].entries[p[2]].id)
    OBVIOUS
  <2>1. p[1] \in DOMAIN roots /\ p[2] \in D[p[1]] /\ p = <<p[1], p[2]>>
    BY <1>3, <1>7
  <2>2. PlainRow(rowOf[p[1]][p[2]], roots[p[1]].entries[p[2]].id)
    BY <1>1, <2>1
  <2>3. rowOf[p[1]][p[2]] = row[p]
    BY <1>4, <1>6, <2>1
  <2>4. QED
    BY <2>2, <2>3
<1>12. QED
  BY <1>2, <1>10, <1>11 DEF row, places

-----------------------------------------------------------------------------
\* What a loop over the containers of an engine goes through

\* What is taken of a listing has the rows of the places that are meant.
LEMMA TakenOnce ==
  ASSUME NEW T, NEW s, NEW row, NEW places, HasOnce(Ok(s), row, places, T),
         NEW C, NEW taken, taken = {p \in places : row[p] \in C}
  PROVE  HasOnce(Ok(Only(s, C)), row, taken, T)
<1> DEFINE o == Only(s, C)
<1>1. /\ Ok(s) \in Results(T) /\ Ok(s).res = "ok" /\ Ok(s).items = s
  BY DEF HasOnce, Ok
<1>2. /\ s \in Seq(T) /\ ToSet(s) = Values(row, places)
  BY <1>1 DEF HasOnce, Results
<1>3. /\ o \in Seq(T) /\ ToSet(o) = ToSet(s) \cap C
  BY ONLY <1>2, TakenIs
<1>4. ToSet(o) = Values(row, taken)
  BY <1>2, <1>3 DEF Values
<1>5. ASSUME NEW S, NEW key,
             \A p, q \in taken :
               row[p] \in S /\ row[q] \in S /\ key[row[p]] = key[row[q]]
                 => p = q
      PROVE  Apart(o, S, key)
  <2> DEFINE U == S \cap C
  <2>1. \A p, q \in places :
          row[p] \in U /\ row[q] \in U /\ key[row[p]] = key[row[q]] => p = q
    BY <1>5
  <2>2. Apart(s, U, key)
    <3> HIDE DEF U
    <3>1. QED
      BY ONLY <1>1, <2>1, HasOnce(Ok(s), row, places, T) DEF HasOnce
  <2>3. Apart(o, U, key)
    BY ONLY <1>2, <2>2, SelectedApart
  <2>4. \A i \in DOMAIN o : o[i] \in C
    BY <1>3 DEF ToSet
  <2> HIDE DEF o
  <2>5. QED
    BY <2>3, <2>4 DEF Apart
<1> HIDE DEF o
<1>6. Ok(o) \in Results(T) /\ Ok(o).res = "ok" /\ Ok(o).items = o
  BY ONLY <1>3, OutcomesAre
<1>7. HasOnce(Ok(o), row, taken, T)
  BY ONLY <1>4, <1>5, <1>6 DEF HasOnce
<1>8. QED
  BY <1>7 DEF o

\* What is made of each element has the rows that are made of theirs.
LEMMA MadeOnce ==
  ASSUME NEW V, NEW T, NEW s, NEW row,
         NEW places, HasOnce(Ok(s), row, places, V),
         NEW f \in [V -> T], NEW made, made = [i \in DOMAIN s |-> f[s[i]]],
         NEW rowMade, \A p \in places : row[p] \in V /\ rowMade[p] = f[row[p]]
  PROVE  HasOnce(Ok(made), rowMade, places, T)
<1>1. /\ Ok(s) \in Results(V) /\ Ok(s).res = "ok" /\ Ok(s).items = s
  BY DEF HasOnce, Ok
<1>2. /\ s \in Seq(V) /\ ToSet(s) = Values(row, places)
  BY <1>1 DEF HasOnce, Results
<1>3. \A i \in DOMAIN s : s[i] \in V /\ s[i] \in ToSet(s)
  BY <1>2, ElementOfSeq, LenProperties DEF ToSet
<1>4. made = [i \in DOMAIN s |-> made[i]] /\ DOMAIN made = DOMAIN s
      /\ \A i \in DOMAIN s : made[i] \in T /\ made[i] = f[s[i]]
  BY <1>3
<1>5. made \in Seq(T)
  BY ONLY <1>2, <1>4, SequenceOf
<1>6. ToSet(made) = Values(rowMade, places)
  <2>1. ASSUME NEW x \in ToSet(made) PROVE x \in Values(rowMade, places)
    <3>1. PICK i \in DOMAIN s : x = f[s[i]]
      BY <1>4 DEF ToSet
    <3>2. PICK p \in places : s[i] = row[p]
      BY <1>2, <1>3, ValuesAre
    <3>3. QED
      BY <3>1, <3>2, ValuesAre
  <2>2. ASSUME NEW x \in Values(rowMade, places) PROVE x \in ToSet(made)
    <3>1. PICK p \in places : x = f[row[p]]
      BY ValuesAre
    <3>2. row[p] \in ToSet(s)
      BY <1>2, ValuesAre
    <3>3. PICK i \in DOMAIN s : s[i] = row[p]
      BY <3>2 DEF ToSet
    <3>4. QED
      BY <1>4, <3>1, <3>3 DEF ToSet
  <2>3. QED
    BY <2>1, <2>2
<1>7. ASSUME NEW S, NEW key,
             \A p, q \in places :
               rowMade[p] \in S /\ rowMade[q] \in S
                 /\ key[rowMade[p]] = key[rowMade[q]] => p = q
      PROVE  Apart(made, S, key)
  <2> DEFINE U == {x \in V : f[x] \in S}
             of == [x \in V |-> key[f[x]]]
  <2>1. \A x \in V : (x \in U <=> f[x] \in S) /\ of[x] = key[f[x]]
    OBVIOUS
  <2> HIDE DEF U, of
  <2>2. \A p, q \in places :
          row[p] \in U /\ row[q] \in U /\ of[row[p]] = of[row[q]] => p = q
    BY <1>7, <2>1
  <2>3. Apart(s, U, of)
    BY ONLY <1>1, <2>2, HasOnce(Ok(s), row, places, V) DEF HasOnce
  <2>4. QED
    BY <1>3, <1>4, <2>1, <2>3 DEF Apart
<1>8. Ok(made) \in Results(T) /\ Ok(made).res = "ok" /\ Ok(made).items = made
  BY ONLY <1>5, OutcomesAre
<1>9. QED
  BY ONLY <1>6, <1>7, <1>8 DEF HasOnce

\* A sequence has its own elements at their places.
LEMMA OwnOnce ==
  ASSUME NEW T, NEW s \in Seq(T)
  PROVE  HasOnce(Ok(s), s, DOMAIN s, T)
<1>1. Ok(s) \in Results(T) /\ Ok(s).res = "ok" /\ Ok(s).items = s
  BY OutcomesAre
<1>2. ToSet(s) = Values(s, DOMAIN s)
  BY DEF ToSet, Values
<1>3. ASSUME NEW S, NEW key,
             \A i, j \in DOMAIN s :
               s[i] \in S /\ s[j] \in S /\ key[s[i]] = key[s[j]] => i = j
      PROVE  Apart(s, S, key)
  BY <1>3 DEF Apart
<1>4. QED
  BY ONLY <1>1, <1>2, <1>3 DEF HasOnce

\* The rows tell the namespace and the ID of the containers that are meant.
Tells(f, e) ==
  \A p \in Meant(e) : /\ f[p] \in Rows /\ f[p].ns = NamespaceAt(e, p)
                      /\ f[p].id = EvidenceAt(e, p).id

\* What an explorer cannot list.
Damaged(e) ==
  \/ e = "docker" /\ DockerDisk.configs = <<>>
  \/ e = "containerd" /\ ~Intact(e)

\* L is what an engine goes through.
GoesThrough(L, e) ==
  /\ L \in Results(Rows)
  /\ L.res = "ok" => \E f : HasOnce(L, f, Meant(e), Rows) /\ Tells(f, e)
  /\ L.res = "error" => Damaged(e)

\* A row with nothing but an ID.
BareRow(type, id) == Row(type, "", id, "", 0, "")

\* What is in a bare row.
LEMMA BareRowIs ==
  ASSUME NEW id \in STRING, NEW type \in {"docker", "podman"}
  PROVE  /\ BareRow(type, id) \in Rows /\ BareRow(type, id).ns = ""
         /\ BareRow(type, id).id = id
<1> DEFINE r == BareRow(type, id)
<1>1. PICK ns \in Texts, pid \in Int :
        ns = "" /\ r = Row(type, ns, id, ns, pid, ns)
  <2>1. "" \in Texts
    BY DEF Texts
  <2>2. 0 \in Int
    OBVIOUS
  <2>3. QED
    BY ONLY <2>1, <2>2 DEF BareRow
<1>2. id \in Texts /\ type \in Texts
  BY DEF Texts
<1> HIDE DEF r
<1>3. r \in Rows /\ r.ns = ns /\ r.id = id
  BY ONLY <1>1, <1>2 DEF Row, Rows, Labels
<1>4. QED
  BY <1>1, <1>3 DEF r

\* docker goes through the configurations that can be read, if there are any.
LEMMA DockerCandidates ==
  ASSUME CtlInv, Opened("docker"), Selected("docker"), NEW L,
         L = Candidates("docker")
  PROVE  GoesThrough(L, "docker")
<1> DEFINE configs == DockerDisk.configs
           whole == {c \in ToSet(configs) : c.ok}
           docker == Only(configs, whole)
           of == [c \in ConfigFile |-> BareRow("docker", c.id)]
           row == [i \in DOMAIN configs |-> of[configs[i]]]
           read == {i \in DOMAIN configs : configs[i] \in whole}
           all == [i \in DOMAIN docker |-> of[docker[i]]]
           C == {r \in ToSet(all) : Chosen("docker", r)}
<1>1. /\ DockerDisk \in DockerEvidence /\ configs \in Seq(ConfigFile)
      /\ DOMAIN configs = 1..Len(configs)
      /\ \A i \in DOMAIN configs : configs[i] \in ConfigFile
  BY DiskTyped, DockerTyped
<1>2. ASSUME configs = <<>> PROVE GoesThrough(L, "docker")
  <2>1. L = [Failed EXCEPT !.items =
               Only(@, {r \in ToSet(@) : Chosen("docker", r)})]
    BY <1>2 DEF Candidates
  <2>2. L.res = "error" /\ L \in Results(Rows)
    <3>1. \A S : Only(<<>>, S) \in Seq(Rows)
      <4>1. <<>> \in Seq(Rows)
        OBVIOUS
      <4>2. QED
        BY <4>1, TakenIs
    <3>2. QED
      BY <2>1, <3>1 DEF Failed, Results
  <2>3. Damaged("docker")
    BY <1>2 DEF Damaged
  <2>4. QED
    BY <2>2, <2>3 DEF GoesThrough
<1>3. ASSUME configs # <<>> PROVE GoesThrough(L, "docker")
  <2>1. \A c \in ConfigFile : /\ c.id \in STRING /\ of[c] \in Rows
                              /\ of[c] = BareRow("docker", c.id)
                              /\ of[c].ns = "" /\ of[c].id = c.id
    <3>1. \A c \in ConfigFile : c.id \in STRING
      BY DEF ConfigFile
    <3>2. QED
      BY <3>1, BareRowIs
  <2>2. docker \in Seq(ConfigFile) /\ \A i \in DOMAIN docker :
          docker[i] \in ConfigFile
    <3>1. docker \in Seq(ConfigFile)
      BY <1>1, TakenIs
    <3>2. QED
      BY <3>1, ElementOfSeq, LenProperties
  <2>3. all = [i \in DOMAIN docker |-> BareRow("docker", docker[i].id)]
    BY <2>1, <2>2
  <2>4. L = [Ok(all) EXCEPT !.items =
               Only(@, {r \in ToSet(@) : Chosen("docker", r)})]
    BY <1>3, <2>3 DEF Candidates, BareRow
  <2>5. L = Ok(Only(all, C))
    BY <2>4 DEF Ok
  <2>6. HasOnce(Ok(configs), configs, DOMAIN configs, ConfigFile)
    BY <1>1, OwnOnce
  <2>7. HasOnce(Ok(docker), configs, read, ConfigFile)
    <3> HIDE DEF configs, whole
    <3>1. QED
      BY ONLY <2>6, TakenOnce
  <2>8. of \in [ConfigFile -> Rows]
    BY <2>1
  <2>9. \A p \in read : configs[p] \in ConfigFile /\ row[p] = of[configs[p]]
    BY <1>1
  <2>10. HasOnce(Ok(all), row, read, Rows)
    <3> HIDE DEF configs, docker, of, row, read
    <3>1. QED
      BY ONLY <2>7, <2>8, <2>9, MadeOnce
  <2>11. HasOnce(Ok(Only(all, C)), row, {p \in read : row[p] \in C}, Rows)
    <3> HIDE DEF configs, docker, of, row, read, all, C
    <3>1. QED
      BY ONLY <2>10, TakenOnce
  <2>12. ToSet(all) = Values(row, read)
    BY <2>10 DEF HasOnce, Ok
  <2>13. \A p \in read : row[p] \in C <=> Chosen("docker", row[p])
    <3> HIDE DEF row, read, all
    <3>1. \A p \in read : row[p] \in ToSet(all)
      BY <2>12, ValuesAre
    <3>2. QED
      BY <3>1
  <2>14. \A p \in read : Chosen("docker", row[p]) <=>
           /\ command.kind = "drift" => command.key \in {"", configs[p].id}
           /\ Matches(command.filter, {})
    BY <2>1, <2>9 DEF Chosen
  <2>15. Meant("docker") = {p \in read : row[p] \in C}
    <3>1. Meant("docker") = {p \in DOMAIN configs :
             /\ configs[p].ok
             /\ command.kind = "drift" => command.key \in {"", configs[p].id}
             /\ Matches(command.filter, {})}
      BY DEF Meant, IsMeant, Spots, EvidenceAt
    <3>2. \A p \in DOMAIN configs : p \in read <=> configs[p].ok
      BY DEF ToSet
    <3>3. QED
      BY <2>13, <2>14, <3>1, <3>2
  <2>16. Tells(row, "docker")
    <3>1. \A p \in Meant("docker") : p \in read
      BY <2>15
    <3>2. \A p \in read : row[p].ns = "" /\ row[p].id = configs[p].id
                          /\ row[p] \in Rows
      BY <2>1, <2>9
    <3>3. QED
      BY <3>1, <3>2 DEF Tells, NamespaceAt, EvidenceAt
  <2>17. L.res = "ok"
    BY <2>5, SMTT(30) DEF Ok
  <2>18. HasOnce(L, row, Meant("docker"), Rows)
    BY <2>5, <2>11, <2>15
  <2>19. QED
    BY <2>16, <2>17, <2>18 DEF GoesThrough, HasOnce
<1>4. QED
  BY <1>2, <1>3

\* Sequences one after another are the listing of parts that do not fail.
LEMMA OneAfterAnother ==
  ASSUME NEW seqs, NEW parts, parts = [r \in DOMAIN seqs |-> Ok(seqs[r])],
         seqs = [r \in DOMAIN seqs |-> seqs[r]]
  PROVE  Ok(FlattenSeq(seqs)) = Collect(parts)
<1>1. {r \in DOMAIN parts : parts[r].res # "ok"} = {}
  BY DEF Ok
<1>2. [r \in DOMAIN parts |-> parts[r].items] = seqs
  BY DEF Ok
<1>3. QED
  BY <1>1, <1>2 DEF Collect

\* What drift goes through in one root of podman.
Drifts(root, L, row, D) ==
  /\ root \in PodmanEvidence /\ root.entries \in Seq(ContainerConfig)
  /\ \A k \in DOMAIN root.entries : root.entries[k] \in ContainerConfig
  /\ L = Ok(DriftEntries(root))
  /\ row = [k \in DOMAIN root.entries |->
              BareRow("podman", root.entries[k].id)]
  /\ D = {k \in DOMAIN root.entries :
            root.ok /\ command.key \in {"", root.entries[k].id,
                                        root.entries[k].name}}

\* drift goes once through each entry that is asked for.
LEMMA DriftEntriesAre ==
  ASSUME NEW root, NEW L, NEW row, NEW D, Drifts(root, L, row, D)
  PROVE  HasOnce(L, row, D, Rows)
<1> DEFINE es == root.entries
           asked == {e \in Entries(root) : command.key \in {"", e.id, e.name}}
           entries == Only(es, asked)
           of == [c \in ContainerConfig |-> BareRow("podman", c.id)]
           made == [k \in DOMAIN entries |-> of[entries[k]]]
           taken == {k \in DOMAIN es : es[k] \in asked}
<1> USE DEF Drifts
<1>1. \A c \in ContainerConfig : /\ c.id \in STRING /\ of[c] \in Rows
                                 /\ of[c] = BareRow("podman", c.id)
                                 /\ of[c].ns = "" /\ of[c].id = c.id
  <2>1. \A c \in ContainerConfig : c.id \in STRING
    BY DEF ContainerConfig
  <2>2. QED
    BY <2>1, BareRowIs
<1>2. \A k \in DOMAIN es : /\ row[k] = of[es[k]] /\ row[k] \in Rows
                           /\ row[k].ns = "" /\ row[k].id = es[k].id
  BY <1>1
<1>3. CASE ~root.ok
  <2>1. L = Ok(<<>>) /\ D = {}
    BY <1>3 DEF DriftEntries
  <2>2. /\ Ok(<<>>) \in Results(Rows) /\ Ok(<<>>).res = "ok"
        /\ Ok(<<>>).items = <<>>
    BY OutcomesAre
  <2>3. HasOnce(L, row, D, Rows)
    BY ONLY <2>1, <2>2, NothingIn DEF HasOnce, Values, Apart
  <2>4. QED
    BY <2>1, <2>3
<1>4. CASE root.ok
  <2>1. entries \in Seq(ContainerConfig)
    BY TakenIs
  <2>2. \A k \in DOMAIN entries : entries[k] \in ContainerConfig
    BY <2>1, ElementOfSeq, LenProperties
  <2>3. L = Ok(made)
    <3>1. made = [k \in DOMAIN entries |-> BareRow("podman", entries[k].id)]
      BY <1>1, <2>2
    <3>2. QED
      BY <1>4, <3>1 DEF DriftEntries, BareRow
  <2>4. taken = D
    BY <1>4 DEF Entries, ToSet
  <2>5. HasOnce(Ok(es), es, DOMAIN es, ContainerConfig)
    BY OwnOnce
  <2>6. HasOnce(Ok(entries), es, taken, ContainerConfig)
    <3> HIDE DEF es, asked
    <3>1. QED
      BY ONLY <2>5, TakenOnce
  <2>7. of \in [ContainerConfig -> Rows]
    BY <1>1
  <2>8. \A k \in taken : es[k] \in ContainerConfig /\ row[k] = of[es[k]]
    BY <1>2
  <2>9. HasOnce(Ok(made), row, taken, Rows)
    <3> HIDE DEF es, asked, entries, of, taken
    <3>1. QED
      BY ONLY <2>6, <2>7, <2>8, MadeOnce, SMTT(30)
  <2>10. HasOnce(L, row, D, Rows)
    BY ONLY <2>3, <2>4, <2>9
  <2>11. QED
    BY <1>2, <2>10
<1>5. root.ok \in BOOLEAN
  BY DEF PodmanEvidence
<1>6. QED
  BY <1>3, <1>4, <1>5

\* podman goes through the entries with metadata of the roots that can be
\* read, and drift through those that the key fits.
LEMMA PodmanCandidates ==
  ASSUME CtlInv, Opened("podman"), Selected("podman"),
         command.kind \in LoopKinds, NEW L, L = Candidates("podman")
  PROVE  GoesThrough(L, "podman")
<1> DEFINE roots == disk.podman
<1>1. roots \in Seq(PodmanEvidence)
  BY DiskTyped
<1>2. CASE command.kind = "mount all"
  <2>1. L = PodmanContainers(roots)
    BY <1>2 DEF Candidates, Containers
  <2> HIDE DEF roots
  <2>2. /\ HasOnce(L, PodmanRows(roots), PodmanPlaces(roots), Rows)
        /\ L.res = "ok"
        /\ \A p \in PodmanPlaces(roots) :
             PlainRow(PodmanRows(roots)[p], roots[p[1]].entries[p[2]].id)
    BY ONLY <1>1, <2>1, PodmanListed
  <2>3. Meant("podman") = PodmanPlaces(roots)
    BY <1>2 DEF Meant, IsMeant, Spots, EvidenceAt, PodmanPlaces, roots
  <2>4. Tells(PodmanRows(roots), "podman")
    BY <2>2, <2>3, ZenonT(40)
       DEF Tells, PlainRow, NamespaceAt, EvidenceAt, roots
  <2>5. QED
    BY <2>2, <2>3, <2>4 DEF GoesThrough, HasOnce
<1>3. CASE command.kind = "drift"
  <2> DEFINE seqs == [r \in DOMAIN roots |-> DriftEntries(roots[r])]
             parts == [r \in DOMAIN seqs |-> Ok(seqs[r])]
             rowOf == [r \in DOMAIN roots |->
                         [k \in DOMAIN roots[r].entries |->
                            BareRow("podman", roots[r].entries[k].id)]]
             D == [r \in DOMAIN roots |->
                     {k \in DOMAIN roots[r].entries :
                        roots[r].ok
                          /\ command.key \in {"", roots[r].entries[k].id,
                                              roots[r].entries[k].name}}]
             places == Meant("podman")
             row == [p \in places |-> rowOf[p[1]][p[2]]]
  <2>1. L = Ok(FlattenSeq(seqs))
    BY <1>3 DEF Candidates
  <2>2. L = Collect(parts)
    <3>1. seqs = [r \in DOMAIN seqs |-> seqs[r]]
      OBVIOUS
    <3> HIDE DEF seqs
    <3>2. QED
      BY <2>1, <3>1, OneAfterAnother
  <2>3. ASSUME NEW r \in DOMAIN roots
        PROVE  /\ HasOnce(parts[r], rowOf[r], D[r], Rows)
               /\ \A k \in D[r] :
                    /\ k \in DOMAIN roots[r].entries
                    /\ rowOf[r][k] \in Rows /\ rowOf[r][k].ns = ""
                    /\ rowOf[r][k].id = roots[r].entries[k].id
    <3> DEFINE root == roots[r]
    <3>1. /\ root \in PodmanEvidence /\ root.entries \in Seq(ContainerConfig)
          /\ \A k \in DOMAIN root.entries : root.entries[k] \in ContainerConfig
      BY <1>1, PodmanTyped, SMTT(30)
    <3>2. /\ parts[r] = Ok(DriftEntries(root))
          /\ rowOf[r] = [k \in DOMAIN root.entries |->
                           BareRow("podman", root.entries[k].id)]
          /\ D[r] = {k \in DOMAIN root.entries :
                       root.ok /\ command.key \in {"", root.entries[k].id,
                                                   root.entries[k].name}}
      BY ZenonT(40)
    <3>3. \A k \in D[r] : k \in DOMAIN root.entries
      BY <3>2
    <3> HIDE DEF root, parts, rowOf, D
    <3>4. HasOnce(parts[r], rowOf[r], D[r], Rows)
      <4>1. Drifts(root, parts[r], rowOf[r], D[r])
        BY ONLY <3>1, <3>2 DEF Drifts
      <4>2. QED
        BY ONLY <4>1, DriftEntriesAre
    <3>5. \A k \in DOMAIN root.entries :
            /\ rowOf[r][k] = BareRow("podman", root.entries[k].id)
            /\ root.entries[k].id \in STRING
      BY <3>1, <3>2 DEF ContainerConfig
    <3>6. \A k \in DOMAIN root.entries :
            /\ rowOf[r][k] \in Rows /\ rowOf[r][k].ns = ""
            /\ rowOf[r][k].id = root.entries[k].id
      <4>1. \A id \in STRING : /\ BareRow("podman", id) \in Rows
                               /\ BareRow("podman", id).ns = ""
                               /\ BareRow("podman", id).id = id
        BY ONLY BareRowIs
      <4> SUFFICES ASSUME NEW k \in DOMAIN root.entries
                   PROVE  /\ rowOf[r][k] \in Rows /\ rowOf[r][k].ns = ""
                          /\ rowOf[r][k].id = root.entries[k].id
        OBVIOUS
      <4> DEFINE id == root.entries[k].id
      <4>2. rowOf[r][k] = BareRow("podman", id) /\ id \in STRING
        BY <3>5
      <4> HIDE DEF id
      <4>3. /\ rowOf[r][k] \in Rows /\ rowOf[r][k].ns = ""
            /\ rowOf[r][k].id = id
        BY ONLY <4>1, <4>2
      <4>4. QED
        BY <4>3 DEF id
    <3>7. QED
      BY <3>3, <3>4, <3>6 DEF root
  <2>4. parts \in Seq(Results(Rows)) /\ DOMAIN parts = DOMAIN roots
    <3> DEFINE V == Results(Rows)
    <3>1. \A r \in DOMAIN roots : parts[r] \in V
      BY <2>3 DEF HasOnce
    <3>2. parts = [r \in DOMAIN roots |-> parts[r]]
      OBVIOUS
    <3> HIDE DEF parts, V, roots
    <3>3. parts \in Seq(V) /\ DOMAIN parts = DOMAIN roots
      BY ONLY <1>1, <3>1, <3>2, SequenceOf
    <3>4. QED
      BY <3>3, SMTT(30) DEF V
  <2>5. /\ \A p \in places :
             p = <<p[1], p[2]>> /\ p[1] \in DOMAIN roots /\ p[2] \in D[p[1]]
        /\ \A r \in DOMAIN roots : \A k \in D[r] : <<r, k>> \in places
    <3>1. places = {p \in UNION {{r} \X DOMAIN roots[r].entries :
                                   r \in DOMAIN roots} :
                      /\ roots[p[1]].ok
                      /\ \/ command.key \in {"", roots[p[1]].entries[p[2]].id}
                         \/ command.key \in
                              {"", roots[p[1]].entries[p[2]].name}}
      BY <1>3 DEF Meant, IsMeant, Spots, EvidenceAt
    <3>5. \A r \in DOMAIN roots : \A k :
            k \in D[r] <=> /\ k \in DOMAIN roots[r].entries /\ roots[r].ok
                          /\ command.key \in {"", roots[r].entries[k].id,
                                              roots[r].entries[k].name}
      OBVIOUS
    <3> HIDE DEF places, D
    <3>2. ASSUME NEW p \in places
          PROVE  p = <<p[1], p[2]>> /\ p[1] \in DOMAIN roots
                 /\ p[2] \in D[p[1]]
      <4>1. PICK r \in DOMAIN roots : p \in {r} \X DOMAIN roots[r].entries
        BY <3>1
      <4>2. p = <<p[1], p[2]>> /\ p[1] = r /\ p[2] \in DOMAIN roots[r].entries
        BY <4>1, SMTT(30)
      <4>3. /\ roots[r].ok /\ command.key \in {"", roots[r].entries[p[2]].id,
                                               roots[r].entries[p[2]].name}
        BY <3>1, <4>2
      <4>4. QED
        BY <3>5, <4>2, <4>3
    <3>3. ASSUME NEW r \in DOMAIN roots, NEW k \in D[r]
          PROVE  <<r, k>> \in places
      <4>1. <<r, k>> \in UNION {{x} \X DOMAIN roots[x].entries :
                                  x \in DOMAIN roots}
        <5>1. <<r, k>> \in {r} \X DOMAIN roots[r].entries
          BY <3>5
        <5>2. QED
          BY <5>1
      <4>2. <<r, k>>[1] = r /\ <<r, k>>[2] = k
        OBVIOUS
      <4>3. /\ roots[r].ok /\ command.key \in {"", roots[r].entries[k].id,
                                               roots[r].entries[k].name}
        BY <3>5
      <4>4. QED
        BY <3>1, <4>1, <4>2, <4>3
    <3>4. QED
      BY <3>2, <3>3
  <2>6. \A r, k : <<r, k>>[1] = r /\ <<r, k>>[2] = k
    OBVIOUS
  <2>7. \A p \in places : row[p] = rowOf[p[1]][p[2]]
    OBVIOUS
  <2>8. Nested(parts, rowOf, D, row, places, Rows)
    <3> HIDE DEF parts, rowOf, D, row, places, roots
    <3>1. \A r \in DOMAIN parts : HasOnce(parts[r], rowOf[r], D[r], Rows)
      BY <2>3, <2>4
    <3>2. \A r \in DOMAIN parts : \A k \in D[r] :
            rowOf[r][k] = row[<<r, k>>] /\ <<r, k>> \in places
      BY <2>4, <2>5, <2>6, <2>7
    <3>3. QED
      BY ONLY <2>4, <2>5, <3>1, <3>2 DEF Nested
  <2>9. HasOnce(L, row, places, Rows)
    <3> HIDE DEF parts, rowOf, D, row, places, roots
    <3>1. QED
      BY ONLY <2>2, <2>8, NestedOnce
  <2>10. Tells(row, "podman")
    <3> SUFFICES ASSUME NEW p \in places
                 PROVE  /\ row[p] \in Rows
                           /\ row[p].ns = NamespaceAt("podman", p)
                        /\ row[p].id = EvidenceAt("podman", p).id
      BY DEF Tells
    <3> HIDE DEF parts, rowOf, D, row, places, roots
    <3>1. p[1] \in DOMAIN roots /\ p[2] \in D[p[1]]
      BY <2>5
    <3>2. \A k \in D[p[1]] : /\ rowOf[p[1]][k] \in Rows
                             /\ rowOf[p[1]][k].ns = ""
                             /\ rowOf[p[1]][k].id = roots[p[1]].entries[k].id
      BY <2>3, <3>1
    <3>3. /\ row[p] \in Rows /\ row[p].ns = ""
          /\ row[p].id = roots[p[1]].entries[p[2]].id
      BY <2>7, <3>1, <3>2
    <3>4. QED
      BY <3>3, ZenonT(40) DEF NamespaceAt, EvidenceAt, roots
  <2>11. L.res = "ok"
    BY <2>1 DEF Ok
  <2>12. QED
    BY <2>9, <2>10, <2>11 DEF GoesThrough, HasOnce
<1>4. QED
  BY <1>2, <1>3 DEF LoopKinds

\* containerd goes through the records that are meant, if it can read all.
LEMMA ContainerdCandidates ==
  ASSUME CtlInv, Opened("containerd"), Selected("containerd"), NEW L,
         L = Candidates("containerd")
  PROVE  GoesThrough(L, "containerd")
<1> DEFINE root == ContainerdDisk
           all == ContainerdContainers(root, sc, Rooted)
           row == PlacedRows(root, sc, Rooted)
           places == Places(root)
           C == {r \in ToSet(all.items) : Chosen("containerd", r)}
           taken == {p \in places : row[p] \in C}
<1>1. root \in ContainerdEvidence /\ Rooted \in BOOLEAN
  BY DiskTyped
<1>2. /\ HasOnce(all, row, places, Rows)
      /\ all.res = "error" => \E p \in places : ~root.nss[p[1]].ctrs[p[2]].ok
      /\ all.res = "ok" => \A p \in places : root.nss[p[1]].ctrs[p[2]].ok
  <2> HIDE DEF root
  <2>1. QED
    BY ONLY <1>1, ContainerdListed
<1>3. L = [all EXCEPT !.items = Only(@, {r \in ToSet(@) :
                                           Chosen("containerd", r)})]
  BY DEF Candidates, Containers
<1> HIDE DEF all, root
<1>4. /\ all.res \in {"ok", "error", "panic"} /\ all.items \in Seq(Rows)
      /\ all.res # "ok" => all.items = <<>>
      /\ L = [res |-> all.res, items |-> Only(all.items, C)]
  BY <1>2, <1>3 DEF HasOnce, Results
<1> HIDE DEF C
<1>5. L.res = all.res /\ L.items = Only(all.items, C)
  BY <1>4
<1>6. L.items \in Seq(Rows)
  BY <1>4, <1>5, TakenIs
<1>7. Damaged("containerd") \/ \A p \in places : root.nss[p[1]].ctrs[p[2]].ok
  <2>1. ASSUME NEW p \in places, ~root.nss[p[1]].ctrs[p[2]].ok
        PROVE  Damaged("containerd")
    <3>1. /\ p[1] \in DOMAIN root.nss
          /\ p[2] \in DOMAIN root.nss[p[1]].ctrs
      BY PlacesAre
    <3>2. \E r \in Records : r[2] = root.nss[p[1]].ctrs[p[2]]
      BY <3>1, RecordsAre DEF root
    <3>3. ~Intact("containerd")
      BY <2>1, <3>2 DEF Intact
    <3>4. QED
      BY <3>3 DEF Damaged
  <2>2. QED
    BY <2>1
<1>8. CASE all.res # "ok"
  <2>1. L.res # "ok" /\ L.res \in {"ok", "error", "panic"}
    BY <1>4, <1>5, <1>8
  <2>3. L \in Results(Rows)
    BY <1>4, <1>6, <2>1, SMTT(30) DEF Results
  <2>4. L.res = "error" => Damaged("containerd")
    BY <1>2, <1>5, <1>7
  <2>5. QED
    BY <2>1, <2>3, <2>4 DEF GoesThrough
<1>9. CASE all.res = "ok"
  <2>1. all = Ok(all.items)
    BY <1>2, <1>9 DEF HasOnce, Results, Ok
  <2>2. L = Ok(Only(all.items, C))
    BY <1>4, <1>9 DEF Ok
  <2>3. HasOnce(Ok(all.items), row, places, Rows)
    BY ONLY <1>2, <2>1
  <2>4. HasOnce(L, row, taken, Rows)
    <3> HIDE DEF row, places
    <3>1. QED
      BY ONLY <2>2, <2>3, TakenOnce
  <2>5. ToSet(all.items) = Values(row, places)
    BY ONLY <1>2, <1>9 DEF HasOnce
  <2>6. \A p \in places : row[p] \in C <=> Chosen("containerd", row[p])
    <3> HIDE DEF row, places
    <3>1. \A p \in places : row[p] \in ToSet(all.items)
      BY <2>5, ValuesAre
    <3>2. QED
      BY <3>1 DEF C
  <2>7. ASSUME NEW p \in places
        PROVE  /\ row[p] \in Rows
               /\ row[p].ns = root.nss[p[1]].name
               /\ row[p].id = root.nss[p[1]].ctrs[p[2]].id
               /\ row[p].labels = root.nss[p[1]].ctrs[p[2]].labels
               /\ row[p].support =
                    IsSupportContainer(sc, root.nss[p[1]].ctrs[p[2]])
    <3>1. p \in Places(root) /\ root.nss[p[1]].ctrs[p[2]].ok
      BY <1>2, <1>9
    <3> HIDE DEF places
    <3>2. QED
      BY ONLY <1>1, <3>1, RowTells
  <2>8. \A p \in places :
          Chosen("containerd", row[p]) <=>
            LET c == root.nss[p[1]].ctrs[p[2]]
            IN  /\ command.kind = "drift" => command.key \in {"", c.id}
                /\ root.nss[p[1]].name # "moby"
                /\ ~(IsSupportContainer(sc, c) /\ ~command.all)
                /\ Matches(command.filter, c.labels)
    <3> HIDE DEF row, places
    <3> SUFFICES ASSUME NEW p \in places
                 PROVE  Chosen("containerd", row[p]) <=>
                          LET c == root.nss[p[1]].ctrs[p[2]]
                          IN  /\ command.kind = "drift" =>
                                   command.key \in {"", c.id}
                              /\ root.nss[p[1]].name # "moby"
                              /\ ~(IsSupportContainer(sc, c) /\ ~command.all)
                              /\ Matches(command.filter, c.labels)
      OBVIOUS
    <3>1. Chosen("containerd", row[p]) <=>
            /\ command.kind = "drift" => command.key \in {"", row[p].id}
            /\ row[p].ns # "moby"
            /\ ~(row[p].support /\ ~command.all)
            /\ Matches(command.filter, row[p].labels)
      BY DEF Chosen
    <3>2. /\ row[p].ns = root.nss[p[1]].name
          /\ row[p].id = root.nss[p[1]].ctrs[p[2]].id
          /\ row[p].labels = root.nss[p[1]].ctrs[p[2]].labels
          /\ row[p].support =
               IsSupportContainer(sc, root.nss[p[1]].ctrs[p[2]])
          /\ row[p].support \in BOOLEAN
      BY <2>7 DEF Rows
    <3>3. QED
      BY ONLY <3>1, <3>2
  <2>9. Meant("containerd") = taken
    <3>1. Meant("containerd") = {p \in places :
             LET c == root.nss[p[1]].ctrs[p[2]]
             IN  /\ root.nss[p[1]].name # "moby"
                 /\ command.kind = "drift" => command.key \in {"", c.id}
                 /\ Matches(command.filter, c.labels)
                 /\ IsSupportContainer(sc, c) => command.all}
      BY DEF Meant, IsMeant, Spots, EvidenceAt, NamespaceAt, Places, root
    <3>2. \A c : IsSupportContainer(sc, c) \in BOOLEAN
      BY DEF IsSupportContainer
    <3> HIDE DEF row, places
    <3>3. QED
      BY <2>6, <2>8, <3>1, <3>2
  <2>10. Tells(row, "containerd")
    <3> HIDE DEF row, places
    <3>1. QED
      BY <2>7, <2>9 DEF Tells, NamespaceAt, EvidenceAt, root
  <2>11. QED
    BY <1>5, <1>9, <2>4, <2>9, <2>10 DEF GoesThrough, HasOnce
<1>10. QED
  BY <1>8, <1>9

\* What an engine goes through when its turn comes.
LEMMA CandidatesAre ==
  ASSUME CtlInv, NEW e \in Engines, Opened(e), Selected(e),
         command.kind \in LoopKinds
  PROVE  GoesThrough(Candidates(e), e)
BY DockerCandidates, PodmanCandidates, ContainerdCandidates DEF Engines

\* Where the rows are to be mounted.
Placed(t) == {Place(t[i]) : i \in DOMAIN t}
PlacesApart(t) == \A i, j \in DOMAIN t : Place(t[i]) = Place(t[j]) => i = j
IDsApart(t) == \A i, j \in DOMAIN t : t[i].id = t[j].id => i = j

\* The containers of an engine that have been tried, and those that are left.
Served(e) == {t \in ToSet(tried) : t[1] = e}
Left(e) == IF pc = "loop" /\ Head(xplrs) = e THEN Placed(todo) ELSE {}

\* Whether the turn of an engine has come.
Begun(e) == e \in Asked \/ (pc = "loop" /\ Head(xplrs) = e)

\* An engine whose turn has come goes through all that is meant, unless it
\* cannot be listed or a mount ends the loop of containerd.
InTurn(e) ==
  /\ ~Begun(e) => Served(e) = {} /\ e \notin failed
  /\ Begun(e) /\ e \notin failed => Served(e) \cup Left(e) = Due(e)
  /\ Begun(e) /\ e \in failed =>
       /\ Served(e) \subseteq Due(e) /\ Left(e) = {}
       /\ \/ Damaged(e)
          \/ e = "containerd" /\ Served(e) \ ToSet(mounts) # {}

\* The place that containerd fails to mount is not mounted before or after.
LoopInv ==
  /\ pc = "loop" =>
       todo \in Seq(Rows) /\ \A i \in DOMAIN todo : todo[i].type = Head(xplrs)
  /\ pc = "loop" /\ Head(xplrs) = "containerd" =>
       PlacesApart(todo) /\ Placed(todo) \cap ToSet(tried) = {}
  /\ pc \notin Opening \cup {"end"} /\ command.kind \in LoopKinds =>
       \A e \in Engines : InTurn(e)
  /\ EachServed

\* No ID that is left has been tried.
ApartInv ==
  command.kind = "mount all" /\ UniqueIDs =>
    /\ \A t \in ToSet(tried) : t[1] \in Engines
    /\ IDsApart(todo)
    /\ \A i \in DOMAIN todo : \A t \in ToSet(tried) : t[3] # todo[i].id
    /\ \A i, j \in DOMAIN mounts : i # j => mounts[i][3] # mounts[j][3]

\* What is meant depends on what is given and on what was opened.
LEMMA SameDue ==
  ASSUME UNCHANGED <<given, config, opened>>
  PROVE  /\ \A e : Due(e)' = Due(e)
         /\ \A e : Damaged(e)' = Damaged(e)
         /\ \A e : Intact(e)' = Intact(e)
         /\ DockerDisk' = DockerDisk /\ UniqueIDs' = UniqueIDs
<1>1. /\ UNCHANGED <<flags, disk, command, opened>>
      /\ UNCHANGED <<dockerRoot, containerdRoot, sc>>
  BY DEF given, config
<1>2. \A e : Opened(e)' = Opened(e)
  BY <1>1 DEF Opened
<1>3. DockerDisk' = DockerDisk /\ ContainerdDisk' = ContainerdDisk
  BY <1>1 DEF DockerDisk, ContainerdDisk
<1>4. \A e : Intact(e)' = Intact(e)
  BY <1>1, <1>3 DEF Intact, Records
<1>5. \A e : Damaged(e)' = Damaged(e)
  BY <1>3, <1>4 DEF Damaged
<1>6. \A e, p : /\ EvidenceAt(e, p)' = EvidenceAt(e, p)
                /\ NamespaceAt(e, p)' = NamespaceAt(e, p)
  BY <1>1, <1>3 DEF EvidenceAt, NamespaceAt
<1>7. \A e : Spots(e)' = Spots(e) /\ Selected(e)' = Selected(e)
  BY <1>1, <1>3 DEF Spots, Selected
<1>8. \A e : Meant(e)' = Meant(e)
  <2>1. \A e, p : IsMeant(e, p)' = IsMeant(e, p)
    <3> SUFFICES ASSUME NEW e, NEW p PROVE IsMeant(e, p)' = IsMeant(e, p)
      OBVIOUS
    <3>1. /\ EvidenceAt(e, p)' = EvidenceAt(e, p)
          /\ NamespaceAt(e, p)' = NamespaceAt(e, p)
      BY <1>6
    <3>2. QED
      BY <1>1, <3>1 DEF IsMeant
  <2>2. QED
    BY <1>2, <1>7, <2>1 DEF Meant
<1>9. \A e : Due(e)' = Due(e)
  BY <1>6, <1>8 DEF Due
<1>10. UniqueIDs' = UniqueIDs
  BY <1>6, <1>8 DEF UniqueIDs
<1>11. QED
  BY <1>3, <1>4, <1>5, <1>9, <1>10

\* A loop starts with all that is meant, and containerd has each place once.
LEMMA LoopStarts ==
  ASSUME NEW e \in Engines, NEW L, GoesThrough(L, e), L.res = "ok", NEW t,
         t = [i \in DOMAIN L.items |-> [L.items[i] EXCEPT !.type = e]]
  PROVE  /\ t \in Seq(Rows) /\ \A i \in DOMAIN t : t[i].type = e
         /\ Placed(t) = Due(e)
         /\ UniqueIDs => IDsApart(t)
         /\ e = "containerd" /\ ContainerdDisk \in ContainerdEvidence
              /\ WellFormed(ContainerdDisk) => PlacesApart(t)
<1>1. PICK f : HasOnce(L, f, Meant(e), Rows) /\ Tells(f, e)
  BY DEF GoesThrough
<1>2. /\ L.items \in Seq(Rows) /\ ToSet(L.items) = Values(f, Meant(e))
  BY <1>1 DEF HasOnce, Results
<1>3. \A i \in DOMAIN L.items : L.items[i] \in Rows
  BY <1>2, ElementOfSeq, LenProperties
<1>4. e \in Texts
  BY DEF Engines, Texts
<1>5. /\ DOMAIN t = DOMAIN L.items /\ t = [i \in DOMAIN L.items |-> t[i]]
      /\ \A i \in DOMAIN L.items :
           /\ t[i] \in Rows /\ t[i].type = e
           /\ t[i].ns = L.items[i].ns /\ t[i].id = L.items[i].id
           /\ Place(t[i]) = <<e, L.items[i].ns, L.items[i].id>>
  <2>1. ASSUME NEW r \in Rows, NEW x, x = [r EXCEPT !.type = e]
        PROVE  /\ x \in Rows /\ x.type = e /\ x.ns = r.ns /\ x.id = r.id
    BY <1>4, <2>1 DEF Rows
  <2>2. DOMAIN t = DOMAIN L.items /\ t = [i \in DOMAIN L.items |-> t[i]]
    OBVIOUS
  <2>3. \A i \in DOMAIN L.items : t[i] = [L.items[i] EXCEPT !.type = e]
    OBVIOUS
  <2>4. QED
    BY <1>3, <2>1, <2>2, <2>3 DEF Place
<1>6. t \in Seq(Rows)
  BY ONLY <1>2, <1>5, SequenceOf
<1>7. \A p \in Meant(e) : /\ f[p] \in Rows /\ f[p].ns = NamespaceAt(e, p)
                          /\ f[p].id = EvidenceAt(e, p).id
  BY <1>1 DEF Tells
<1>8. Placed(t) = Due(e)
  <2>1. ASSUME NEW i \in DOMAIN t PROVE Place(t[i]) \in Due(e)
    <3>1. L.items[i] \in ToSet(L.items)
      BY <1>5 DEF ToSet
    <3>2. PICK p \in Meant(e) : L.items[i] = f[p]
      BY <1>2, <3>1, ValuesAre
    <3>3. L.items[i].ns = NamespaceAt(e, p)
            /\ L.items[i].id = EvidenceAt(e, p).id
      BY <1>7, <3>2
    <3>4. Place(t[i]) = <<e, NamespaceAt(e, p), EvidenceAt(e, p).id>>
      BY <1>5, <3>3
    <3>5. QED
      BY <3>4 DEF Due
  <2>2. ASSUME NEW p \in Meant(e)
        PROVE  <<e, NamespaceAt(e, p), EvidenceAt(e, p).id>> \in Placed(t)
    <3>1. f[p] \in ToSet(L.items)
      BY <1>2, ValuesAre
    <3>2. PICK i \in DOMAIN L.items : L.items[i] = f[p]
      BY <3>1 DEF ToSet
    <3>3. L.items[i].ns = NamespaceAt(e, p)
            /\ L.items[i].id = EvidenceAt(e, p).id
      BY <1>7, <3>2
    <3>4. i \in DOMAIN t
            /\ Place(t[i]) = <<e, NamespaceAt(e, p), EvidenceAt(e, p).id>>
      BY <1>5, <3>3
    <3>5. QED
      BY <3>4 DEF Placed
  <2>3. QED
    BY <2>1, <2>2, ZenonT(40) DEF Placed, Due
<1>9. ASSUME UniqueIDs PROVE IDsApart(t)
  <2> DEFINE key == [r \in Rows |-> r.id]
  <2>1. \A r \in Rows : key[r] = r.id
    OBVIOUS
  <2> HIDE DEF key
  <2>2. \A p, q \in Meant(e) :
          f[p] \in Rows /\ f[q] \in Rows /\ key[f[p]] = key[f[q]] => p = q
    BY <1>7, <1>9, <2>1 DEF UniqueIDs
  <2>3. Apart(L.items, Rows, key)
    BY ONLY <1>1, <2>2, L.res = "ok" DEF HasOnce
  <2>4. QED
    BY <1>3, <1>5, <2>1, <2>3 DEF IDsApart, Apart
<1>10. ASSUME e = "containerd", ContainerdDisk \in ContainerdEvidence,
              WellFormed(ContainerdDisk)
       PROVE  PlacesApart(t)
  <2> DEFINE key == [r \in Rows |-> <<r.ns, r.id>>]
             root == ContainerdDisk
  <2>1. \A r \in Rows : key[r] = <<r.ns, r.id>>
    OBVIOUS
  <2> HIDE DEF key
  <2>2. ASSUME NEW p \in Meant(e)
        PROVE  /\ p = <<p[1], p[2]>> /\ p[1] \in DOMAIN root.nss
               /\ p[2] \in DOMAIN root.nss[p[1]].ctrs
               /\ f[p].ns = root.nss[p[1]].name
               /\ f[p].id = root.nss[p[1]].ctrs[p[2]].id
    <3>1. p \in Places(root)
      BY <1>10 DEF Meant, Spots, Places
    <3>2. /\ NamespaceAt(e, p) = root.nss[p[1]].name
          /\ EvidenceAt(e, p) = root.nss[p[1]].ctrs[p[2]]
      BY <1>10 DEF NamespaceAt, EvidenceAt
    <3>3. QED
      BY <1>7, <3>1, <3>2, PlacesAre
  <2>3. ASSUME NEW p \in Meant(e), NEW q \in Meant(e), key[f[p]] = key[f[q]]
        PROVE  p = q
    <3>1. f[p].ns = f[q].ns /\ f[p].id = f[q].id
      BY <1>7, <2>1, <2>3
    <3>2. p[1] = q[1]
      BY <1>10, <2>2, <3>1 DEF WellFormed
    <3>3. root.nss[p[1]] \in ToSet(root.nss)
      BY <2>2 DEF ToSet
    <3>4. p[2] = q[2]
      BY <1>10, <2>2, <3>1, <3>2, <3>3 DEF WellFormed
    <3>5. QED
      BY <2>2, <3>2, <3>4
  <2>4. Apart(L.items, Rows, key)
    BY ONLY <1>1, <2>3, L.res = "ok" DEF HasOnce
  <2>5. ASSUME NEW i \in DOMAIN t,
               NEW j \in DOMAIN t, Place(t[i]) = Place(t[j])
        PROVE  i = j
    <3>1. L.items[i].ns = L.items[j].ns /\ L.items[i].id = L.items[j].id
      <4>1. <<e, L.items[i].ns, L.items[i].id>> =
              <<e, L.items[j].ns, L.items[j].id>>
        BY <1>5, <2>5, ZenonT(40)
      <4>2. \A a, b, c, d : <<e, a, b>> = <<e, c, d>> => a = c /\ b = d
        OBVIOUS
      <4>3. QED
        BY ONLY <4>1, <4>2
    <3>2. key[L.items[i]] = key[L.items[j]]
      BY <1>3, <1>5, <2>1, <3>1
    <3>3. QED
      BY <1>3, <1>5, <2>4, <3>2 DEF Apart
  <2>6. QED
    BY <2>5 DEF PlacesApart
<1>11. QED
  BY <1>5, <1>6, <1>8, <1>9, <1>10

\* One container less.
LEMMA OneLess ==
  ASSUME NEW t \in Seq(Rows), t # <<>>
  PROVE  /\ Tail(t) \in Seq(Rows)
         /\ \A i \in DOMAIN Tail(t) : \E j \in DOMAIN t : Tail(t)[i] = t[j]
         /\ \E j \in DOMAIN t : Head(t) = t[j]
         /\ Placed(t) = {Place(Head(t))} \cup Placed(Tail(t))
         /\ PlacesApart(t) => /\ PlacesApart(Tail(t))
                              /\ Place(Head(t)) \notin Placed(Tail(t))
         /\ IDsApart(t) =>
              /\ IDsApart(Tail(t))
              /\ \A i \in DOMAIN Tail(t) : Tail(t)[i].id # Head(t).id
<1> DEFINE n == Len(t)
           u == Tail(t)
<1>1. n \in Nat \ {0} /\ DOMAIN t = 1..n
  BY LenProperties, EmptySeq
<1>2. /\ u \in Seq(Rows) /\ Len(u) = n - 1 /\ DOMAIN u = 1..(n - 1)
      /\ \A i \in 1..(n - 1) : u[i] = t[i + 1]
      /\ Head(t) = t[1]
  BY HeadTailProperties, LenProperties
<1> HIDE DEF n, u
<1>3. 1 \in 1..n /\ \A i \in 1..(n - 1) : i + 1 \in 1..n /\ i + 1 # 1
  BY <1>1
<1>4. \A j \in 1..n : \/ j = 1
                      \/ j - 1 \in 1..(n - 1) /\ (j - 1) + 1 = j
  BY <1>1
<1>5. Placed(t) = {Place(Head(t))} \cup Placed(u)
  <2>1. \A j \in 1..n : j = 1 \/ \E i \in 1..(n - 1) : t[j] = u[i]
    BY <1>2, <1>4
  <2>2. \A i \in 1..(n - 1) : \E j \in 1..n : u[i] = t[j]
    BY <1>2, <1>3
  <2>3. \A x : x \in Placed(t) <=> \E j \in 1..n : x = Place(t[j])
    BY <1>1 DEF Placed
  <2>4. \A x : x \in Placed(u) <=> \E i \in 1..(n - 1) : x = Place(u[i])
    BY <1>2 DEF Placed
  <2>5. ASSUME NEW x \in Placed(t)
        PROVE  x = Place(Head(t)) \/ x \in Placed(u)
    BY <1>2, <2>1, <2>3, <2>4
  <2>6. Place(Head(t)) \in Placed(t) /\ Placed(u) \subseteq Placed(t)
    BY <1>2, <1>3, <2>2, <2>3, <2>4
  <2>7. QED
    BY <2>5, <2>6
<1>6. ASSUME PlacesApart(t)
      PROVE  PlacesApart(u) /\ Place(Head(t)) \notin Placed(u)
  <2>1. \A i, j \in 1..(n - 1) : i + 1 = j + 1 => i = j
    BY <1>1
  <2>2. QED
    BY <1>1, <1>2, <1>3, <1>6, <2>1, SMTT(30) DEF PlacesApart, Placed
<1>7. ASSUME IDsApart(t)
      PROVE  IDsApart(u) /\ \A i \in DOMAIN u : u[i].id # Head(t).id
  <2>1. \A i, j \in 1..n : t[i].id = t[j].id => i = j
    BY <1>1, <1>7 DEF IDsApart
  <2>2. ASSUME NEW i \in DOMAIN u, NEW j \in DOMAIN u, u[i].id = u[j].id
        PROVE  i = j
    <3>1. t[i + 1].id = t[j + 1].id /\ i + 1 \in 1..n /\ j + 1 \in 1..n
      BY <1>2, <1>3, <2>2
    <3>2. i + 1 = j + 1
      BY <2>1, <3>1
    <3>3. i \in Int /\ j \in Int
      BY <1>2
    <3>4. QED
      BY <3>2, <3>3
  <2>3. ASSUME NEW i \in DOMAIN u, u[i].id = Head(t).id PROVE FALSE
    <3>1. t[i + 1].id = t[1].id /\ i + 1 \in 1..n /\ i + 1 # 1
      BY <1>2, <1>3, <2>3
    <3>2. QED
      BY <1>3, <2>1, <3>1
  <2>4. QED
    BY <2>2, <2>3 DEF IDsApart
<1>8. QED
  BY <1>1, <1>2, <1>3, <1>5, <1>6, <1>7 DEF u

\* An engine of which nothing changes.
LEMMA SameTurn ==
  ASSUME NEW e, InTurn(e), UNCHANGED <<given, config, opened>>,
         Begun(e)' <=> Begun(e), Served(e)' = Served(e), Left(e)' = Left(e),
         e \in failed' <=> e \in failed,
         Served(e) \ ToSet(mounts') = Served(e) \ ToSet(mounts)
  PROVE  InTurn(e)'
<1>1. Due(e)' = Due(e) /\ Damaged(e)' = Damaged(e)
  BY SameDue
<1>2. (Served(e) \ ToSet(mounts))' = Served(e) \ ToSet(mounts)
  OBVIOUS
<1>3. (e \notin failed)' = (e \notin failed)
  OBVIOUS
<1>4. QED
  BY <1>1, <1>2 DEF InTurn

\* A run of another command, or one that is at its start or has ended badly.
LEMMA NoLoop ==
  ASSUME CtlInv', pc' # "loop",
         pc' \in Opening \/ command'.kind \notin LoopKinds
                                \/ (pc' = "end" /\ result' # "ok")
  PROVE  LoopInv'
<1>1. EachServed'
  BY DEF EachServed, CtlInv, PlaceInv, Opening
<1>2. QED
  BY <1>1 DEF LoopInv

\* No loop has begun at first.
LEMMA InitLoop == Init => LoopInv
<1> SUFFICES ASSUME Init PROVE LoopInv
  OBVIOUS
<1>1. pc = "start" /\ result = "running"
  BY DEF Init
<1>2. QED
  BY <1>1 DEF LoopInv, EachServed, Opening

\* Nothing has been tried when the loops begin.
LEMMA LoopBegins ==
  ASSUME CtlInv, GetContainerd
  PROVE  LoopInv'
<1>1. /\ pc = "containerd" /\ pc' = "next" /\ xplrs' = opened'
      /\ tried' = tried /\ failed' = failed /\ result' = result
      /\ result = "running" /\ tried = <<>> /\ failed = {}
  BY DEF GetContainerd, GetExplorer, CtlInv, OpenedInv, PlaceInv, Opening
<1>2. ASSUME NEW e PROVE InTurn(e)'
  <2>1. Asked' = {}
    BY <1>1 DEF Asked
  <2>2. ~Begun(e)'
    BY <1>1, <2>1 DEF Begun
  <2>3. ToSet(tried') = {}
    BY <1>1, NothingIn
  <2>4. Served(e)' = {}
    BY <2>3 DEF Served
  <2>5. QED
    BY <1>1, <2>2, <2>4 DEF InTurn
<1>3. EachServed'
  BY <1>1 DEF EachServed
<1>4. QED
  BY <1>1, <1>2, <1>3 DEF LoopInv

\* The turn of an engine begins with everything of it still ahead.
LEMMA TurnBegins ==
  ASSUME CtlInv, LoopInv, LoopNext, UNCHANGED result
  PROVE  LoopInv'
<1>1. /\ pc = "next" /\ xplrs # <<>> /\ command.kind \in LoopKinds
      /\ UNCHANGED <<given, config, opened>>
      /\ UNCHANGED <<tried, mounts, result>> /\ result = "running"
  BY DEF LoopNext, CtlInv, PlaceInv
<1>2. PICK d \in Engines : d = Head(xplrs) /\ Opened(d) /\ d \notin Asked
  BY <1>1, NextExplorer, ThenAsked DEF CtlInv, Opened
<1>3. \A e \in Engines : InTurn(e)
  BY <1>1 DEF LoopInv, Opening
<1>4. \A e : Left(e) = {} /\ (Begun(e) <=> e \in Asked)
  BY <1>1 DEF Left, Begun
<1>5. ~Begun(d) /\ Served(d) = {} /\ d \notin failed
  BY <1>2, <1>3, <1>4 DEF InTurn
<1>6. /\ \A e : Served(e)' = Served(e)
      /\ \A e : Served(e) \ ToSet(mounts') = Served(e) \ ToSet(mounts)
  BY <1>1 DEF Served
<1>7. EachServed'
  BY <1>1 DEF EachServed
<1>8. \A e : Due(e)' = Due(e) /\ Damaged(e)' = Damaged(e)
  BY <1>1, SameDue
<1>9. ASSUME pc' = "next", xplrs' = Tail(xplrs),
             failed' \in {failed, failed \cup {d}},
             d \in failed' => Damaged(d),
             d \notin failed' => Due(d) = {}
      PROVE  LoopInv'
  <2>1. Asked' = Asked \cup {d}
    BY <1>1, <1>2, <1>9, ThenAsked DEF Asked, CtlInv
  <2>2. \A e : Left(e)' = {} /\ (Begun(e)' <=> e \in Asked')
    BY <1>9 DEF Left, Begun
  <2>3. ASSUME NEW e \in Engines, e # d PROVE InTurn(e)'
    <3>1. (Begun(e)' <=> Begun(e)) /\ Left(e)' = Left(e)
      BY <1>4, <2>1, <2>2, <2>3
    <3>2. e \in failed' <=> e \in failed
      BY <1>9, <2>3
    <3>3. QED
      BY <1>1, <1>3, <1>6, <3>1, <3>2, SameTurn
  <2>4. InTurn(d)'
    <3>1. Begun(d)' /\ Left(d)' = {} /\ Served(d)' = {}
      BY <1>5, <1>6, <2>1, <2>2
    <3>2. Due(d)' = Due(d) /\ Damaged(d)' = Damaged(d)
      BY <1>8
    <3>3. QED
      BY <1>9, <3>1, <3>2 DEF InTurn
  <2>5. QED
    BY <1>7, <1>9, <2>3, <2>4 DEF LoopInv
<1>10. CASE ~Selected(d)
  <2>1. xplrs' = Tail(xplrs) /\ failed' = failed /\ pc' = "next"
    BY <1>1, <1>2, <1>10 DEF LoopNext
  <2>2. Due(d) = {}
    BY <1>10 DEF Due, Meant
  <2>3. QED
    BY <1>5, <1>9, <2>1, <2>2
<1>11. ASSUME Selected(d) PROVE GoesThrough(Candidates(d), d)
  BY <1>1, <1>2, <1>11, CandidatesAre
<1>12. CASE Selected(d) /\ Candidates(d).res = "error"
  <2>1. xplrs' = Tail(xplrs) /\ failed' = failed \cup {d} /\ pc' = "next"
    BY <1>1, <1>2, <1>12 DEF LoopNext
  <2>2. Damaged(d)
    BY <1>11, <1>12 DEF GoesThrough
  <2>3. QED
    BY <1>9, <2>1, <2>2
<1>13. CASE Selected(d) /\ Candidates(d).res = "ok"
  <2> DEFINE L == Candidates(d)
             t == [i \in DOMAIN L.items |-> [L.items[i] EXCEPT !.type = d]]
  <2>1. /\ todo' = t /\ pc' = "loop" /\ xplrs' = xplrs /\ failed' = failed
    BY <1>2, <1>13 DEF LoopNext
  <2>2. GoesThrough(L, d) /\ L.res = "ok" /\ t = t
    BY <1>11, <1>13
  <2> HIDE DEF L
  <2>3. /\ t \in Seq(Rows) /\ \A i \in DOMAIN t : t[i].type = d
        /\ Placed(t) = Due(d)
        /\ d = "containerd" /\ ContainerdDisk \in ContainerdEvidence
              /\ WellFormed(ContainerdDisk) => PlacesApart(t)
    BY <1>2, <2>2, LoopStarts
  <2>4. d = "containerd" =>
          ContainerdDisk \in ContainerdEvidence /\ WellFormed(ContainerdDisk)
    BY <1>2, DiskTyped DEF CtlInv
  <2> HIDE DEF t
  <2>5. Asked' = Asked /\ Head(xplrs') = d
    BY <1>1, <1>2, <2>1 DEF Asked
  <2>6. /\ Left(d)' = Due(d) /\ Begun(d)'
        /\ \A e : e # d => Left(e)' = {} /\ (Begun(e)' <=> e \in Asked)
    BY <2>1, <2>3, <2>5 DEF Left, Begun, Placed
  <2>7. ASSUME NEW e \in Engines, e # d PROVE InTurn(e)'
    <3>1. (Begun(e)' <=> Begun(e)) /\ Left(e)' = Left(e)
      BY <1>4, <2>6, <2>7
    <3>2. e \in failed' <=> e \in failed
      BY <2>1
    <3>3. QED
      BY <1>1, <1>3, <1>6, <3>1, <3>2, SameTurn
  <2>8. InTurn(d)'
    <3>1. Begun(d)' /\ Left(d)' = Due(d) /\ Served(d)' = {}
      BY <1>5, <1>6, <2>6
    <3>2. Due(d)' = Due(d) /\ (d \notin failed)'
      BY <1>5, <1>8, <2>1
    <3>3. QED
      BY <3>1, <3>2 DEF InTurn
  <2>9. Placed(t) \cap ToSet(tried) = {}
    <3>1. \A i \in DOMAIN t : Place(t[i])[1] = d
      BY <2>3 DEF Place
    <3>2. QED
      BY <1>5, <3>1 DEF Placed, Served
  <2>10. /\ todo' \in Seq(Rows)
         /\ \A i \in DOMAIN todo' : todo'[i].type = Head(xplrs')
    BY <2>1, <2>3, <2>5
  <2>11. (Head(xplrs) = "containerd" =>
            PlacesApart(todo) /\ Placed(todo) \cap ToSet(tried) = {})'
    BY <1>1, <2>1, <2>3, <2>4, <2>5, <2>9 DEF PlacesApart, Placed
  <2>12. QED
    BY <1>7, <2>1, <2>7, <2>8, <2>10, <2>11 DEF LoopInv
<1>14. QED
  <2>1. Selected(d)
        /\ Candidates(d).res \notin {"ok", "error"} => result' = "panic"
    BY <1>1, <1>2 DEF LoopNext, Panic
  <2>2. QED
    BY <1>1, <1>10, <1>12, <1>13, <2>1

\* One container more is tried, and the loop of containerd goes on or ends.
LEMMA OneTried ==
  ASSUME CtlInv, LoopInv, pc = "loop", todo # <<>>,
         UNCHANGED <<given, config, opened>>, UNCHANGED <<pc, xplrs, result>>,
         tried' = Append(tried, Place(Head(todo))),
         \/ /\ todo' = Tail(todo) /\ failed' = failed
            /\ ToSet(mounts') \subseteq ToSet(mounts) \cup {Place(Head(todo))}
            /\ ToSet(mounts) \subseteq ToSet(mounts')
         \/ /\ Head(xplrs) = "containerd" /\ todo' = <<>>
            /\ failed' = failed \cup {"containerd"} /\ mounts' = mounts
  PROVE  LoopInv'
<1>1. xplrs # <<>> /\ command.kind \in LoopKinds /\ result = "running"
  BY DEF CtlInv, PlaceInv
<1>2. PICK d \in Engines : d = Head(xplrs)
  BY <1>1, NextExplorer DEF CtlInv
<1>3. PICK p : p = Place(Head(todo))
  OBVIOUS
<1>4. PICK t : t = todo
  OBVIOUS
<1>5. PICK u : u = todo'
  OBVIOUS
<1>6. /\ t \in Seq(Rows) /\ t # <<>> /\ \A i \in DOMAIN t : t[i].type = d
      /\ d = "containerd" => PlacesApart(t) /\ Placed(t) \cap ToSet(tried) = {}
  BY <1>2, <1>4 DEF LoopInv
<1>7. \A e \in Engines : InTurn(e)
  BY <1>1 DEF LoopInv, Opening
<1>8. /\ ToSet(tried') = ToSet(tried) \cup {p}
  BY <1>3, Appended DEF CtlInv, NotesInv
<1>9. p[1] = d
  BY <1>3, <1>4, <1>6, OneLess DEF Place
<1>10. Begun(d) /\ Left(d) = Placed(t)
  BY <1>2, <1>4 DEF Begun, Left, Placed
<1>11. p \in Placed(t) /\ Placed(t) = {p} \cup Placed(Tail(t))
  BY <1>3, <1>4, <1>6, OneLess
<1>12. d \notin failed /\ Served(d) \cup Placed(t) = Due(d)
  <2>1. InTurn(d) /\ Left(d) # {}
    BY <1>7, <1>10, <1>11
  <2>2. d \notin failed /\ Served(d) \cup Left(d) = Due(d)
    BY ONLY <1>10, <2>1 DEF InTurn
  <2>3. QED
    BY <1>10, <2>2
<1>13. u \in Seq(Rows) /\ \A i \in DOMAIN u : u[i].type = d
  <2>1. \A i \in DOMAIN Tail(t) : Tail(t)[i].type = d
    BY <1>6, OneLess
  <2>2. Tail(t) \in Seq(Rows) /\ <<>> \in Seq(Rows) /\ DOMAIN <<>> = {}
    BY <1>6, OneLess
  <2>3. QED
    BY <1>4, <1>5, <2>1, <2>2
<1>14. Placed(<<>>) = {} /\ PlacesApart(<<>>)
  BY DEF Placed, PlacesApart
<1>15. d = "containerd" => PlacesApart(u)
                           /\ Placed(u) \cap ToSet(tried') = {}
                           /\ p \notin ToSet(tried)
  <2> SUFFICES ASSUME d = "containerd"
               PROVE  /\ PlacesApart(u) /\ Placed(u) \cap ToSet(tried') = {}
                      /\ p \notin ToSet(tried)
    OBVIOUS
  <2>1. PlacesApart(Tail(t)) /\ p \notin Placed(Tail(t))
    BY <1>3, <1>4, <1>6, OneLess
  <2>2. Placed(Tail(t)) \cap ToSet(tried') = {} /\ p \notin ToSet(tried)
    BY <1>6, <1>8, <1>11, <2>1
  <2>3. QED
    BY <1>4, <1>5, <1>14, <2>1, <2>2
<1>16. /\ Served(d)' = Served(d) \cup {p}
       /\ \A e : e # d => Served(e)' = Served(e)
  BY <1>8, <1>9 DEF Served
<1>17. /\ Left(d)' = Placed(u) /\ Begun(d)'
       /\ \A e : e # d => Left(e)' = {} /\ Left(e) = {}
       /\ \A e : Begun(e)' <=> Begun(e)
  BY <1>2, <1>5 DEF Left, Begun, Placed, Asked
<1>18. ASSUME NEW e \in Engines, e # d PROVE InTurn(e)'
  <2>1. Served(e) \ ToSet(mounts') = Served(e) \ ToSet(mounts)
    <3>1. p \notin Served(e)
      BY <1>9, <1>18 DEF Served
    <3>2. QED
      BY <1>3, <3>1
  <2>2. e \in failed' <=> e \in failed
    BY <1>2, <1>18
  <2>3. QED
    BY <1>7, <1>16, <1>17, <1>18, <2>1, <2>2, SameTurn
<1>19. Due(d)' = Due(d)
  BY SameDue
<1>20. InTurn(d)'
  <2>1. CASE todo' = Tail(todo) /\ failed' = failed
    <3>1. Served(d)' \cup Left(d)' = Due(d)'
      BY <1>4, <1>5, <1>11, <1>12, <1>16, <1>17, <1>19, <2>1
    <3>2. (d \notin failed)'
      BY <1>12, <2>1
    <3>3. QED
      BY <1>17, <3>1, <3>2 DEF InTurn
  <2>2. CASE /\ d = "containerd" /\ todo' = <<>>
             /\ failed' = failed \cup {"containerd"} /\ mounts' = mounts
    <3>1. Left(d)' = {} /\ Served(d)' \subseteq Due(d)'
      BY <1>5, <1>11, <1>12, <1>14, <1>16, <1>17, <1>19, <2>2
    <3>2. p \notin ToSet(mounts')
      BY <1>15, <2>2 DEF CtlInv, NotesInv
    <3>3. (Served(d) \ ToSet(mounts) # {})'
      BY <1>16, <3>2
    <3>4. (d \in failed)'
      BY <2>2
    <3>5. QED
      BY <1>17, <2>2, <3>1, <3>3, <3>4 DEF InTurn
  <2>3. QED
    BY <1>2, <2>1, <2>2
<1>21. EachServed'
  BY <1>1 DEF EachServed
<1>22. (pc = "loop" => todo \in Seq(Rows)
                       /\ \A i \in DOMAIN todo : todo[i].type = Head(xplrs))'
  BY <1>2, <1>5, <1>13
<1>23. (pc = "loop" /\ Head(xplrs) = "containerd" =>
          PlacesApart(todo) /\ Placed(todo) \cap ToSet(tried) = {})'
  BY <1>2, <1>5, <1>15 DEF PlacesApart, Placed
<1>24. \A e \in Engines : InTurn(e)'
  BY <1>18, <1>20
<1>25. QED
  BY <1>21, <1>22, <1>23, <1>24 DEF LoopInv

\* The turn of an engine ends.
LEMMA TurnEnds ==
  ASSUME CtlInv, LoopInv, EndLoop
  PROVE  LoopInv'
<1>1. /\ pc = "loop" /\ pc' = "next" /\ todo = <<>> /\ xplrs' = Tail(xplrs)
      /\ UNCHANGED <<given, config, opened>>
      /\ UNCHANGED <<tried, failed, mounts, result>>
  BY DEF EndLoop
<1>2. xplrs # <<>> /\ command.kind \in LoopKinds /\ result = "running"
  BY <1>1 DEF CtlInv, PlaceInv
<1>3. Asked' = Asked \cup {Head(xplrs)}
  BY <1>1, <1>2, ThenAsked DEF Asked, CtlInv
<1>4. \A e \in Engines : InTurn(e)
  BY <1>1, <1>2 DEF LoopInv, Opening
<1>5. \A e : Left(e) = {} /\ Left(e)' = {}
  BY <1>1 DEF Left, Placed
<1>6. \A e : Begun(e)' <=> Begun(e)
  BY <1>1, <1>3 DEF Begun
<1>7. \A e : Served(e)' = Served(e)
  BY <1>1 DEF Served
<1>8. ASSUME NEW e \in Engines PROVE InTurn(e)'
  <2>1. /\ (Begun(e)' <=> Begun(e)) /\ Left(e)' = Left(e)
        /\ Served(e)' = Served(e)
    BY <1>5, <1>6, <1>7
  <2>2. e \in failed' <=> e \in failed
    BY <1>1
  <2>3. Served(e) \ ToSet(mounts') = Served(e) \ ToSet(mounts)
    BY <1>1
  <2>4. QED
    BY <1>1, <1>4, <2>1, <2>2, <2>3, SameTurn
<1>9. EachServed'
  BY <1>1, <1>2 DEF EachServed
<1>10. QED
  BY <1>1, <1>8, <1>9 DEF LoopInv

\* Every turn has come when no explorer is left.
LEMMA AllServed ==
  ASSUME CtlInv, LoopInv, LoopsEnd
  PROVE  LoopInv'
<1>1. /\ pc = "next" /\ pc' = "end" /\ xplrs = <<>>
      /\ command.kind \in LoopKinds
      /\ UNCHANGED <<given, config, opened>>
      /\ UNCHANGED <<tried, failed, mounts>>
  BY DEF LoopsEnd
<1>2. \A e \in Engines : InTurn(e)
  BY <1>1 DEF LoopInv, Opening
<1>3. \A e : Left(e) = {} /\ (Begun(e) <=> Opened(e))
  <2>1. ToSet(xplrs) = {}
    BY <1>1, NothingIn
  <2>2. QED
    BY <1>1, <2>1 DEF Left, Begun, Asked, Opened
<1>4. \A e : Served(e)' = Served(e)
  BY <1>1 DEF Served
<1>5. ASSUME NEW e \in Engines
      PROVE  IF e \notin failed THEN Served(e) = Due(e)
             ELSE /\ Served(e) \subseteq Due(e)
                  /\ \/ e = "docker" /\ DockerDisk.configs = <<>>
                     \/ e = "containerd" /\ ~Intact(e)
                     \/ e = "containerd" /\ Served(e) \ ToSet(mounts) # {}
  <2>1. InTurn(e)
    BY <1>2
  <2>2. CASE Opened(e)
    <3>1. Begun(e) /\ Left(e) = {}
      BY <1>3, <2>2
    <3>2. QED
      BY <2>1, <3>1 DEF InTurn, Damaged
  <2>3. CASE ~Opened(e)
    <3>1. ~Begun(e) /\ Due(e) = {}
      BY <1>3, <2>3 DEF Due, Meant
    <3>2. QED
      BY <2>1, <3>1 DEF InTurn
  <2>4. QED
    BY <2>2, <2>3
<1>6. EachServed'
  <2> SUFFICES ASSUME NEW e \in Engines
               PROVE  (IF e \notin failed THEN Served(e) = Due(e)
                       ELSE /\ Served(e) \subseteq Due(e)
                            /\ \/ e = "docker" /\ DockerDisk.configs = <<>>
                               \/ e = "containerd" /\ ~Intact(e)
                               \/ e = "containerd"
                                    /\ Served(e) \ ToSet(mounts) # {})'
    BY DEF EachServed, Served
  <2>1. /\ Due(e)' = Due(e) /\ Served(e)' = Served(e)
           /\ DockerDisk' = DockerDisk
        /\ Intact(e)' = Intact(e)
    BY <1>1, <1>4, SameDue
  <2>2. QED
    BY <1>1, <1>5, <2>1
<1>7. QED
  BY <1>1, <1>6 DEF LoopInv, Opening

\* Stuttering changes no loop.
LEMMA SameLoop ==
  ASSUME LoopInv, UNCHANGED vars
  PROVE  LoopInv'
<1>1. /\ UNCHANGED <<given, config, pc, opened, xplrs, failed, rows, todo>>
      /\ UNCHANGED <<tried, mounts, shown, found, result>>
  BY DEF vars, given, config
<1>2. /\ \A e : Left(e)' = Left(e) /\ (Begun(e)' <=> Begun(e))
      /\ \A e : Served(e)' = Served(e)
  BY <1>1 DEF Left, Begun, Served, Asked
<1>3. ASSUME NEW e \in Engines, InTurn(e) PROVE InTurn(e)'
  <2>1. /\ (Begun(e)' <=> Begun(e)) /\ Left(e)' = Left(e)
        /\ Served(e)' = Served(e)
    BY <1>2
  <2>2. e \in failed' <=> e \in failed
    BY <1>1
  <2>3. Served(e) \ ToSet(mounts') = Served(e) \ ToSet(mounts)
    BY <1>1
  <2>4. QED
    BY <1>1, <1>3, <2>1, <2>2, <2>3, SameTurn
<1>4. EachServed'
  <2>1. /\ \A e : Due(e)' = Due(e)
        /\ \A e : Intact(e)' = Intact(e)
        /\ DockerDisk' = DockerDisk
    BY <1>1, SameDue
  <2>2. EachServed
    BY DEF LoopInv
  <2>3. QED
    BY <1>1, <2>1, <2>2 DEF EachServed, given
<1>5. (pc \notin Opening \cup {"end"} /\ command.kind \in LoopKinds =>
         \A e \in Engines : InTurn(e))'
  BY <1>1, <1>3 DEF LoopInv, given
<1>6. (pc = "loop" => todo \in Seq(Rows)
                      /\ \A i \in DOMAIN todo : todo[i].type = Head(xplrs))'
  BY <1>1 DEF LoopInv
<1>7. (pc = "loop" /\ Head(xplrs) = "containerd" =>
         PlacesApart(todo) /\ Placed(todo) \cap ToSet(tried) = {})'
  BY <1>1 DEF LoopInv, PlacesApart, Placed
<1>8. QED
  BY <1>4, <1>5, <1>6, <1>7 DEF LoopInv

\* Every step keeps the account of the loops.
LEMMA NextLoop == CtlInv /\ LoopInv /\ [Next]_vars => LoopInv'
<1> SUFFICES ASSUME CtlInv, LoopInv, [Next]_vars PROVE LoopInv'
  OBVIOUS
<1>1. CtlInv'
  BY NextCtl
<1>2. CASE InitializeRuntime
  BY <1>1, <1>2, NoLoop DEF InitializeRuntime, Opening
<1>3. CASE GetDocker \/ GetPodman
  BY <1>1, <1>3, NoLoop DEF GetDocker, GetPodman, GetExplorer, Opening
<1>4. CASE GetContainerd
  BY <1>4, LoopBegins
<1>5. CASE ListNext \/ Show
  <2>1. pc' # "loop" /\ command'.kind \notin LoopKinds
    BY <1>5 DEF ListNext, Show, Panic, given, ListKinds, LoopKinds
  <2>2. QED
    BY <1>1, <2>1, NoLoop
<1>6. CASE LoopNext
  <2>1. CASE UNCHANGED result
    BY <1>6, <2>1, TurnBegins
  <2>2. CASE ~UNCHANGED result
    <3>1. pc' = "end" /\ result' = "panic"
      BY <1>6, <2>2 DEF LoopNext, Panic
    <3>2. QED
      BY <1>1, <3>1, NoLoop
  <2>3. QED
    BY <2>1, <2>2
<1>7. CASE MountOne
  <2> DEFINE p == Place(Head(todo))
  <2>1. ToSet(Append(mounts, p)) = ToSet(mounts) \cup {p}
    BY Appended DEF CtlInv, NotesInv
  <2>2. /\ pc = "loop" /\ todo # <<>>
        /\ UNCHANGED <<given, config, opened>>
           /\ UNCHANGED <<pc, xplrs, result>>
        /\ tried' = Append(tried, p)
    BY <1>7 DEF MountOne
  <2>3. \/ /\ mounts' = Append(mounts, p) /\ todo' = Tail(todo)
           /\ failed' = failed
        \/ /\ Head(xplrs) = "containerd" /\ todo' = <<>>
           /\ failed' = failed \cup {"containerd"} /\ mounts' = mounts
        \/ todo' = Tail(todo) /\ mounts' = mounts /\ failed' = failed
    BY <1>7 DEF MountOne
  <2>4. \/ /\ todo' = Tail(todo) /\ failed' = failed
           /\ ToSet(mounts') \subseteq ToSet(mounts) \cup {p}
           /\ ToSet(mounts) \subseteq ToSet(mounts')
        \/ /\ Head(xplrs) = "containerd" /\ todo' = <<>>
           /\ failed' = failed \cup {"containerd"} /\ mounts' = mounts
    BY <2>1, <2>3
  <2>5. QED
    BY <2>2, <2>4, OneTried
<1>8. CASE ScanOne
  BY <1>8, OneTried DEF ScanOne
<1>9. CASE EndLoop
  BY <1>9, TurnEnds
<1>10. CASE LoopsEnd
  BY <1>10, AllServed
<1>11. CASE FindNext \/ UseFound \/ NotFound
  <2>1. command.kind \in FindKinds
    BY <1>11 DEF FindNext, UseFound, NotFound, CtlInv, PlaceInv
  <2>2. pc' # "loop" /\ command'.kind \notin LoopKinds
    BY <1>11, <2>1
       DEF FindNext, UseFound, NotFound, Panic, given, FindKinds, LoopKinds
  <2>3. QED
    BY <1>1, <2>2, NoLoop
<1>12. CASE UNCHANGED vars
  BY <1>12, SameLoop
<1>13. QED
  BY <1>2, <1>3, <1>4, <1>5, <1>6, <1>7, <1>8, <1>9, <1>10, <1>11, <1>12
     DEF Next, Step, Done

\* mount --all and drift reach every container of every engine that is meant
\* and no other, and an engine fails for the reasons of EachServed alone.
THEOREM EachEngineServed == Spec => []EachServed
<1>1. Init => CtlInv /\ LoopInv
  BY InitCtl, InitLoop
<1>2. CtlInv /\ LoopInv /\ [Next]_vars => (CtlInv /\ LoopInv)'
  BY NextCtl, NextLoop
<1>3. CtlInv /\ LoopInv => EachServed
  BY DEF LoopInv
<1>4. QED
  BY <1>1, <1>2, <1>3, PTL DEF Spec

\* Where nothing has been tried nothing is mounted at one place.
LEMMA NothingApart ==
  todo = <<>> /\ tried = <<>> /\ mounts = <<>> => ApartInv
<1> SUFFICES ASSUME todo = <<>>, tried = <<>>, mounts = <<>> PROVE ApartInv
  OBVIOUS
<1>1. ToSet(tried) = {}
  BY NothingIn
<1>2. IDsApart(todo) /\ DOMAIN todo = {} /\ DOMAIN mounts = {}
  BY DEF IDsApart
<1>3. QED
  BY <1>1, <1>2 DEF ApartInv

\* A step that tries nothing.
LEMMA SameApart ==
  ASSUME ApartInv, UNCHANGED <<given, config, opened>>,
         UNCHANGED <<todo, tried, mounts>>
  PROVE  ApartInv'
<1>1. UniqueIDs' = UniqueIDs /\ command' = command
  BY SameDue DEF given
<1>2. QED
  BY <1>1 DEF ApartInv, IDsApart

\* The IDs of another engine are others than those that were tried.
LEMMA ApartBegins ==
  ASSUME CtlInv, LoopInv, ApartInv, LoopNext
  PROVE  ApartInv'
<1>1. /\ pc = "next" /\ xplrs # <<>> /\ command.kind \in LoopKinds
      /\ UNCHANGED <<given, config, opened>> /\ UNCHANGED <<tried, mounts>>
  BY DEF LoopNext
<1>2. PICK d \in Engines : d = Head(xplrs) /\ Opened(d) /\ d \notin Asked
  BY <1>1, NextExplorer, ThenAsked DEF CtlInv, Opened
<1>3. CASE UNCHANGED todo
  BY <1>1, <1>3, SameApart
<1>4. CASE ~UNCHANGED todo
  <2> DEFINE L == Candidates(d)
             t == [i \in DOMAIN L.items |-> [L.items[i] EXCEPT !.type = d]]
  <2>1. todo' = t /\ Selected(d) /\ L.res = "ok"
    BY <1>2, <1>4 DEF LoopNext
  <2>2. GoesThrough(L, d)
    BY <1>1, <1>2, <2>1, CandidatesAre
  <2>3. t = t
    OBVIOUS
  <2> HIDE DEF L
  <2>4. Placed(t) = Due(d) /\ (UniqueIDs => IDsApart(t))
    BY <1>2, <2>1, <2>2, LoopStarts
  <2> HIDE DEF t
  <2> SUFFICES ASSUME (command.kind = "mount all" /\ UniqueIDs)'
               PROVE  /\ \A x \in ToSet(tried)' : x[1] \in Engines
                      /\ IDsApart(todo)'
                      /\ \A i \in DOMAIN todo' :
                           \A x \in ToSet(tried)' : x[3] # todo'[i].id
                      /\ \A i, j \in DOMAIN mounts' :
                           i # j => mounts'[i][3] # mounts'[j][3]
    BY DEF ApartInv
  <2>5. command.kind = "mount all" /\ UniqueIDs
    BY <1>1, SameDue DEF given
  <2>6. /\ \A x \in ToSet(tried) : x[1] \in Engines
        /\ \A i, j \in DOMAIN mounts : i # j => mounts[i][3] # mounts[j][3]
    BY <2>5 DEF ApartInv
  <2>7. \A e \in Engines : InTurn(e)
    BY <1>1 DEF LoopInv, Opening
  <2>8. Served(d) = {}
    BY <1>1, <1>2, <2>7 DEF InTurn, Begun
  <2>9. \A e \in Engines : Served(e) \subseteq Due(e)
    BY <2>7 DEF InTurn
  <2>10. ASSUME NEW i \in DOMAIN t, NEW x \in ToSet(tried), x[3] = t[i].id
         PROVE  FALSE
    <3>1. PICK e \in Engines : e = x[1] /\ x \in Served(e)
      BY <2>6 DEF Served
    <3>2. e # d
      BY <2>8, <3>1
    <3>3. PICK q \in Meant(e) :
            x = <<e, NamespaceAt(e, q), EvidenceAt(e, q).id>>
      BY <2>9, <3>1 DEF Due
    <3>4. Place(t[i]) \in Due(d)
      BY <2>4 DEF Placed
    <3>5. PICK p \in Meant(d) :
            Place(t[i]) = <<d, NamespaceAt(d, p), EvidenceAt(d, p).id>>
      BY <3>4 DEF Due
    <3>6. EvidenceAt(d, p).id = t[i].id
      BY <3>5 DEF Place
    <3>7. EvidenceAt(e, q).id = x[3]
      BY <3>3
    <3>8. EvidenceAt(d, p).id = EvidenceAt(e, q).id => d = e
      BY <2>5 DEF UniqueIDs
    <3>9. QED
      BY ONLY <2>10, <3>2, <3>6, <3>7, <3>8
  <2>11. ToSet(tried)' = ToSet(tried) /\ mounts' = mounts
    BY <1>1
  <2>12. IDsApart(todo)'
    BY <2>1, <2>4, <2>5 DEF IDsApart
  <2>13. QED
    BY <2>1, <2>6, <2>10, <2>11, <2>12
<1>5. QED
  BY <1>3, <1>4

\* What is tried has an ID of its own.
LEMMA ApartTried ==
  ASSUME CtlInv, LoopInv, ApartInv, pc = "loop", todo # <<>>,
         UNCHANGED <<given, config, opened>>,
         tried' = Append(tried, Place(Head(todo))),
         todo' = Tail(todo) \/ todo' = <<>>,
         mounts' = mounts \/ mounts' = Append(mounts, Place(Head(todo)))
  PROVE  ApartInv'
<1> SUFFICES ASSUME (command.kind = "mount all" /\ UniqueIDs)'
             PROVE  /\ \A x \in ToSet(tried)' : x[1] \in Engines
                    /\ IDsApart(todo)'
                    /\ \A i \in DOMAIN todo' :
                         \A x \in ToSet(tried)' : x[3] # todo'[i].id
                    /\ \A i, j \in DOMAIN mounts' :
                         i # j => mounts'[i][3] # mounts'[j][3]
  BY DEF ApartInv
<1>1. command.kind = "mount all" /\ UniqueIDs
  BY SameDue DEF given
<1>2. PICK d \in Engines : d = Head(xplrs)
  BY NextExplorer DEF CtlInv, PlaceInv
<1>3. PICK h : h = Head(todo)
  OBVIOUS
<1>4. PICK t : t = todo
  OBVIOUS
<1>5. PICK u : u = todo'
  OBVIOUS
<1>6. PICK p : p = Place(h)
  OBVIOUS
<1>7. PICK m : m = mounts
  OBVIOUS
<1>8. /\ t \in Seq(Rows) /\ t # <<>> /\ \A i \in DOMAIN t : t[i].type = d
  BY <1>2, <1>4 DEF LoopInv
<1>9. /\ \A x \in ToSet(tried) : x[1] \in Engines
      /\ IDsApart(t)
      /\ \A i \in DOMAIN t : \A x \in ToSet(tried) : x[3] # t[i].id
      /\ \A i, j \in DOMAIN m : i # j => m[i][3] # m[j][3]
  BY <1>1, <1>4, <1>7 DEF ApartInv
<1>10. ToSet(tried)' = ToSet(tried) \cup {p}
  BY <1>3, <1>6, Appended DEF CtlInv, NotesInv
<1>11. PICK j \in DOMAIN t : h = t[j]
  BY <1>3, <1>4, <1>8, OneLess
<1>12. p[1] = d /\ p[3] = h.id
  BY <1>6, <1>8, <1>11 DEF Place
<1>13. \A x \in ToSet(tried) : x[3] # p[3]
  BY <1>9, <1>11, <1>12
<1>14. /\ IDsApart(u)
       /\ \A i \in DOMAIN u : u[i].id # p[3] /\ \E k \in DOMAIN t : u[i] = t[k]
  <2>1. /\ IDsApart(Tail(t))
        /\ \A i \in DOMAIN Tail(t) : Tail(t)[i].id # Head(t).id
    BY ONLY <1>8, <1>9, OneLess
  <2>2. \A i \in DOMAIN Tail(t) : \E k \in DOMAIN t : Tail(t)[i] = t[k]
    BY ONLY <1>8, OneLess
  <2>3. u = Tail(t) \/ u = <<>>
    BY <1>4, <1>5
  <2>4. CASE u = Tail(t)
    <3>1. Head(t).id = p[3]
      BY <1>3, <1>4, <1>12
    <3>2. QED
      BY ONLY <2>1, <2>2, <2>4, <3>1
  <2>5. CASE u = <<>>
    <3>1. DOMAIN u = {}
      BY ONLY <2>5
    <3>2. QED
      BY ONLY <3>1 DEF IDsApart
  <2>6. QED
    BY <2>3, <2>4, <2>5
<1>15. \A i \in DOMAIN u : \A x \in ToSet(tried)' : x[3] # u[i].id
  BY <1>9, <1>10, <1>14, ZenonT(40)
<1>16. \A x \in ToSet(tried)' : x[1] \in Engines
  BY <1>9, <1>10, <1>12
<1>17. \A i, k \in DOMAIN mounts' : i # k => mounts'[i][3] # mounts'[k][3]
  <2>1. CASE mounts' = m
    BY <1>9, <2>1
  <2>2. CASE mounts' = Append(m, p)
    <3>1. m \in Seq(ToSet(m)) /\ ToSet(m) \subseteq ToSet(tried)
      BY <1>7 DEF CtlInv, NotesInv
    <3>2. PICK V : V = ToSet(m) \cup {p}
      OBVIOUS
    <3>3. m \in Seq(V) /\ p \in V
      BY <3>1, <3>2, SeqMonotonic
    <3>4. /\ Append(m, p) \in Seq(V) /\ Len(Append(m, p)) = Len(m) + 1
          /\ \A i \in 1..Len(m) : Append(m, p)[i] = m[i]
          /\ Append(m, p)[Len(m) + 1] = p
      BY ONLY <3>3, AppendProperties
    <3>5. PICK n \in Nat : n = Len(m)
      BY ONLY <3>3, LenProperties
    <3>6. DOMAIN m = 1..n /\ DOMAIN Append(m, p) = 1..(n + 1)
      BY ONLY <3>3, <3>4, <3>5, LenProperties
    <3>7. \A i \in 1..n : m[i][3] # p[3]
      BY <1>13, <3>1, <3>6 DEF ToSet
    <3>8. \A i \in 1..(n + 1) : i \in 1..n \/ i = n + 1
      BY ONLY n \in Nat
    <3>9. \A i, k \in 1..(n + 1) :
            i # k => Append(m, p)[i][3] # Append(m, p)[k][3]
      BY ONLY <1>9, <3>4, <3>5, <3>6, <3>7, <3>8
    <3>10. QED
      BY ONLY <2>2, <3>6, <3>9
  <2>3. QED
    BY <1>3, <1>6, <1>7, <2>1, <2>2
<1>18. IDsApart(todo)'
  BY <1>5, <1>14 DEF IDsApart
<1>19. QED
  BY <1>5, <1>15, <1>16, <1>17, <1>18

\* Every step keeps the mounts apart.
LEMMA NextApart == CtlInv /\ LoopInv /\ ApartInv /\ [Next]_vars => ApartInv'
<1> SUFFICES ASSUME CtlInv, LoopInv, ApartInv, [Next]_vars PROVE ApartInv'
  OBVIOUS
<1>1. CtlInv'
  BY NextCtl
<1>2. CASE pc' \in Opening \/ GetContainerd
  <2>1. tried' = <<>> /\ mounts' = <<>> /\ todo' = <<>>
    <3>1. CASE pc' \in Opening
      BY <1>1, <3>1 DEF CtlInv, PlaceInv, Opening
    <3>2. CASE GetContainerd
      BY <3>2 DEF GetContainerd, GetExplorer, CtlInv, PlaceInv, Opening
    <3>3. QED
      BY <1>2, <3>1, <3>2
  <2>2. (todo = <<>> /\ tried = <<>> /\ mounts = <<>> => ApartInv)'
    BY NothingApart, PTL
  <2>3. QED
    BY <2>1, <2>2
<1>3. CASE InitializeRuntime \/ GetDocker \/ GetPodman
  BY <1>2, <1>3
     DEF InitializeRuntime, GetDocker, GetPodman, GetExplorer, Opening
<1>4. CASE LoopNext
  BY <1>4, ApartBegins
<1>5. CASE MountOne
  BY <1>5, ApartTried DEF MountOne
<1>6. CASE ScanOne
  BY <1>6, ApartTried DEF ScanOne
<1>7. CASE \/ ListNext \/ Show \/ EndLoop \/ LoopsEnd \/ FindNext \/ UseFound
           \/ NotFound \/ UNCHANGED vars
  <2>1. /\ UNCHANGED <<given, config, opened>>
        /\ UNCHANGED <<todo, tried, mounts>>
    BY <1>7 DEF ListNext, Show, EndLoop, LoopsEnd, FindNext, UseFound,
                NotFound, vars, given, config
  <2>2. QED
    BY <2>1, SameApart
<1>8. QED
  BY <1>2, <1>3, <1>4, <1>5, <1>6, <1>7 DEF Next, Step, Done

\* mount --all mounts no two containers at one place and none twice, where no
\* two of the containers that are meant have one ID.
THEOREM MountsApart == Spec => []MountPointsApart
<1>1. Init => CtlInv /\ LoopInv /\ ApartInv
  BY InitCtl, InitLoop, NothingApart DEF Init
<1>2. CtlInv /\ LoopInv /\ ApartInv /\ [Next]_vars
        => (CtlInv /\ LoopInv /\ ApartInv)'
  BY NextCtl, NextLoop, NextApart
<1>3. ApartInv => MountPointsApart
  BY DEF ApartInv, MountPointsApart
<1>4. QED
  BY <1>1, <1>2, <1>3, PTL DEF Spec

-----------------------------------------------------------------------------
\* Rows that are merged

\* What a row may say of the container with its ID.
StatusFits(id, status) ==
  status \in Active =>
    \/ \E c \in Configs(id) : ConfigBacks(c, status)
    \/ Rooted /\ \E c \in Stores(id) : CgroupBacks(c.cgroup, status)
    \/ \E s \in States(id) : s.status = status
PidFits(id, pid) ==
  pid \notin {0, NoNumber} =>
    pid \in {c.pid : c \in Configs(id)}
             \cup {c.cgroup.procs : c \in Stores(id)}
             \cup {c.init : c \in {c \in Stores(id) :
                                    c.cgroup.procs = NoNumber}}
             \cup {s.pid : s \in States(id)}
LookFits(id, labels, support) ==
  command.kind = "containers" =>
    IF id \in IDsOf("docker") \cup IDsOf("podman")
    THEN labels = {} /\ support = FALSE
    ELSE LET c == Stored(ContainerdDisk, id)
         IN  labels = c.labels /\ support = IsSupportContainer(sc, c)
Fits(r) ==
  /\ StatusFits(r.id, r.status) /\ PidFits(r.id, r.pid)
  /\ LookFits(r.id, r.labels, r.support)

\* The rows of a list, one for each ID.
IDsIn(s) == {s[i].id : i \in DOMAIN s}
Sound(s) == s \in Seq(Rows) /\ IDsApart(s) /\ \A i \in DOMAIN s : Fits(s[i])

\* A row that does not fit comes after one of its ID, and where it is about
\* the PID, after one that has a PID.  ids has the IDs of the rows before.
Ordered(items, ids) ==
  /\ items \in Seq(Rows)
  /\ \A j \in DOMAIN items :
       /\ StatusFits(items[j].id, items[j].status)
       /\ \/ LookFits(items[j].id, items[j].labels, items[j].support)
          \/ items[j].id \in ids
          \/ \E i \in 1..(j - 1) : items[i].id = items[j].id
       /\ \/ PidFits(items[j].id, items[j].pid)
          \/ \E i \in 1..(j - 1) :
               items[i].id = items[j].id /\ items[i].pid # 0

\* acc is what the first k of the items have made of rows with the IDs ids.
Grown(acc, ids, items, k) ==
  /\ Sound(acc)
  /\ IDsIn(acc) = ids \cup {items[j].id : j \in 1..k}
  /\ \A i \in DOMAIN acc : acc[i].pid = 0 =>
       \A j \in 1..k : items[j].id = acc[i].id => items[j].pid = 0

\* What a row that is there takes from a new one.
LEMMA EnrichedIs ==
  ASSUME NEW old \in Rows, NEW new \in Rows, NEW e, e = Enriched(old, new)
  PROVE  /\ e \in Rows /\ e.id = old.id /\ e.labels = old.labels
         /\ e.support = old.support /\ e.status \in {old.status, new.status}
         /\ e.pid = IF old.pid = 0 THEN new.pid ELSE old.pid
<1>1. PICK name \in Texts, pid \in Int, status \in Texts :
        /\ e = [old EXCEPT !.name = name, !.pid = pid, !.status = status]
        /\ status \in {old.status, new.status}
        /\ pid = IF old.pid = 0 THEN new.pid ELSE old.pid
  <2>1. /\ old.name \in Texts /\ new.name \in Texts /\ old.status \in Texts
        /\ new.status \in Texts /\ old.pid \in Int /\ new.pid \in Int
    BY DEF Rows
  <2> DEFINE name == IF old.name = "" THEN new.name ELSE old.name
             pid == IF old.pid = 0 THEN new.pid ELSE old.pid
             status == IF old.status = "" THEN new.status ELSE old.status
  <2>2. e = [old EXCEPT !.name = name, !.pid = pid, !.status = status]
    BY DEF Enriched
  <2>3. name \in Texts /\ pid \in Int /\ status \in Texts
    BY <2>1
  <2>4. status \in {old.status, new.status}
    OBVIOUS
  <2> HIDE DEF name, status
  <2>5. QED
    BY <2>2, <2>3, <2>4
<1>2. /\ e \in Rows /\ e.id = old.id /\ e.labels = old.labels
      /\ e.support = old.support /\ e.status = status /\ e.pid = pid
  BY ONLY <1>1, old \in Rows DEF Rows
<1>3. QED
  BY <1>1, <1>2

\* A new row is put at the end or into the row of its ID.
LEMMA MergeIs ==
  ASSUME NEW acc \in Seq(Rows), NEW x \in Rows
  PROVE  \/ x.id \notin IDsIn(acc) /\ Merge(acc, x) = Append(acc, x)
         \/ \E i \in DOMAIN acc :
              /\ acc[i].id = x.id
              /\ Merge(acc, x) = [acc EXCEPT ![i] = Enriched(acc[i], x)]
<1> DEFINE S == {r \in ToSet(acc) : r.id = x.id}
           i == First(acc, S)
<1>1. Merge(acc, x) = IF i = 0 THEN Append(acc, x)
                      ELSE [acc EXCEPT ![i] = Enriched(acc[i], x)]
  BY DEF Merge
<1>2. \A k \in DOMAIN acc : acc[k] \in S <=> acc[k].id = x.id
  BY DEF ToSet
<1>3. DOMAIN acc = 1..Len(acc) /\ Len(acc) \in Nat
  BY LenProperties
<1> HIDE DEF S
<1>4. /\ i \in 0..Len(acc) /\ (i = 0 <=> ToSet(acc) \cap S = {})
      /\ i # 0 => acc[i] \in S
  BY FirstIs
<1> HIDE DEF i
<1>5. CASE i = 0
  <2>1. ASSUME NEW k \in DOMAIN acc, acc[k].id = x.id PROVE FALSE
    BY <1>2, <1>4, <1>5, <2>1 DEF ToSet
  <2>2. x.id \notin IDsIn(acc)
    BY <2>1 DEF IDsIn
  <2>3. QED
    BY <1>1, <1>5, <2>2
<1>6. CASE i # 0
  <2>1. i \in DOMAIN acc
    BY <1>3, <1>4, <1>6
  <2>2. QED
    BY <1>1, <1>2, <1>4, <1>6, <2>1
<1>7. QED
  BY <1>5, <1>6

\* One item is merged.
LEMMA MergeOne ==
  ASSUME NEW acc, NEW ids, NEW items, NEW k \in Nat, k + 1 \in DOMAIN items,
         Ordered(items, ids), Grown(acc, ids, items, k), NEW m,
         m = Merge(acc, items[k + 1])
  PROVE  Grown(m, ids, items, k + 1)
<1>1. PICK x : x = items[k + 1]
  OBVIOUS
<1>2. items \in Seq(Rows) /\ x \in Rows
  BY <1>1, ElementOfSeq, LenProperties DEF Ordered
<1>3. /\ acc \in Seq(Rows) /\ IDsApart(acc)
         /\ \A i \in DOMAIN acc : Fits(acc[i])
      /\ IDsIn(acc) = ids \cup {items[j].id : j \in 1..k}
      /\ \A i \in DOMAIN acc : acc[i].pid = 0 =>
           \A j \in 1..k : items[j].id = acc[i].id => items[j].pid = 0
  BY DEF Grown, Sound
<1>4. /\ StatusFits(x.id, x.status)
      /\ \/ LookFits(x.id, x.labels, x.support)
         \/ x.id \in ids
         \/ \E i \in 1..k : items[i].id = x.id
      /\ \/ PidFits(x.id, x.pid)
         \/ \E i \in 1..k : items[i].id = x.id /\ items[i].pid # 0
  <2>1. (k + 1) - 1 = k
    OBVIOUS
  <2>2. QED
    BY <1>1, <2>1 DEF Ordered
<1>5. \A j \in 1..(k + 1) : j \in 1..k \/ j = k + 1
  BY ONLY k \in Nat
<1>6. {items[j].id : j \in 1..(k + 1)} = {items[j].id : j \in 1..k} \cup {x.id}
  <2>1. \A j \in 1..k : j \in 1..(k + 1)
    BY ONLY k \in Nat
  <2>2. k + 1 \in 1..(k + 1)
    BY ONLY k \in Nat
  <2>3. QED
    BY ONLY <1>1, <1>5, <2>1, <2>2
<1>7. CASE x.id \notin IDsIn(acc) /\ m = Append(acc, x)
  <2>1. /\ x.id \notin ids /\ \A j \in 1..k : items[j].id # x.id
        /\ \A i \in DOMAIN acc : acc[i].id # x.id
    BY <1>3, <1>7 DEF IDsIn
  <2>2. Fits(x)
    BY <1>4, <2>1 DEF Fits
  <2>3. PICK n \in Nat : n = Len(acc) /\ DOMAIN acc = 1..n
    BY ONLY <1>3, LenProperties
  <2>4. /\ m \in Seq(Rows) /\ Len(m) = n + 1
        /\ \A i \in 1..n : m[i] = acc[i]
        /\ m[n + 1] = x
    BY ONLY <1>2, <1>3, <1>7, <2>3, AppendProperties
  <2>5. DOMAIN m = 1..(n + 1)
    BY ONLY <2>4, LenProperties
  <2>6. /\ \A i \in 1..(n + 1) : i \in 1..n \/ i = n + 1
        /\ \A i \in 1..n : i \in 1..(n + 1)
        /\ n + 1 \in 1..(n + 1)
    BY ONLY n \in Nat
  <2>7. IDsApart(m)
    <3>1. \A i, j \in 1..n : acc[i].id = acc[j].id => i = j
      BY <1>3, <2>3 DEF IDsApart
    <3>2. \A i \in 1..n : acc[i].id # x.id
      BY <2>1, <2>3
    <3>3. \A i, j \in 1..(n + 1) : m[i].id = m[j].id => i = j
      BY ONLY <2>4, <2>6, <3>1, <3>2
    <3>4. QED
      BY <2>5, <3>3 DEF IDsApart
  <2>8. \A i \in DOMAIN m : Fits(m[i])
    <3>1. \A i \in DOMAIN m : m[i] = x \/ \E j \in DOMAIN acc : m[i] = acc[j]
      BY ONLY <2>3, <2>4, <2>5, <2>6
    <3>2. QED
      BY ONLY <1>3, <2>2, <3>1
  <2>9. IDsIn(m) = IDsIn(acc) \cup {x.id}
    BY ONLY <2>3, <2>4, <2>5, <2>6 DEF IDsIn
  <2>10. ASSUME NEW i \in DOMAIN m, m[i].pid = 0, NEW j \in 1..(k + 1),
                items[j].id = m[i].id
         PROVE  items[j].pid = 0
    <3>1. CASE i \in 1..n
      <4>1. m[i] = acc[i] /\ i \in DOMAIN acc
        BY <2>3, <2>4, <3>1
      <4>2. j \in 1..k
        BY <1>1, <1>5, <2>1, <2>10, <4>1
      <4>3. QED
        BY <1>3, <2>10, <4>1, <4>2
    <3>2. CASE i = n + 1
      <4>1. j = k + 1
        BY <1>5, <2>1, <2>4, <2>10, <3>2
      <4>2. QED
        BY <1>1, <2>4, <2>10, <3>2, <4>1
    <3>3. QED
      BY <2>5, <2>6, <3>1, <3>2
  <2>11. IDsIn(m) = ids \cup {items[j].id : j \in 1..(k + 1)}
    BY ONLY <1>3, <1>6, <2>9
  <2>12. QED
    BY <2>4, <2>7, <2>8, <2>10, <2>11 DEF Grown, Sound
<1>8. ASSUME NEW a \in DOMAIN acc, acc[a].id = x.id,
             m = [acc EXCEPT ![a] = Enriched(acc[a], x)]
      PROVE  Grown(m, ids, items, k + 1)
  <2>1. acc[a] \in Rows
    BY <1>3, ElementOfSeq, LenProperties
  <2>2. PICK e : e = Enriched(acc[a], x)
    OBVIOUS
  <2>3. PICK old : old = acc[a]
    OBVIOUS
  <2>4. /\ e \in Rows /\ e.id = x.id /\ e.labels = old.labels
        /\ e.support = old.support /\ e.status \in {old.status, x.status}
        /\ e.pid = IF old.pid = 0 THEN x.pid ELSE old.pid
        /\ old.id = x.id /\ Fits(old)
    <3>1. /\ e \in Rows /\ e.id = old.id /\ e.labels = old.labels
          /\ e.support = old.support /\ e.status \in {old.status, x.status}
          /\ e.pid = IF old.pid = 0 THEN x.pid ELSE old.pid
      BY <1>2, <2>1, <2>2, <2>3, EnrichedIs
    <3>2. old.id = x.id /\ Fits(old)
      BY <1>3, <1>8, <2>3
    <3>3. QED
      BY ONLY <3>1, <3>2
  <2>5. old.pid = 0 => \A j \in 1..k : items[j].id = x.id => items[j].pid = 0
    BY <1>3, <2>3, <2>4
  <2>6. Fits(e)
    <3>1. StatusFits(e.id, e.status)
      BY <1>4, <2>4 DEF Fits
    <3>2. PidFits(e.id, e.pid)
      <4>1. CASE old.pid = 0
        BY <1>4, <2>4, <2>5, <4>1
      <4>2. CASE old.pid # 0
        BY <2>4, <4>2 DEF Fits
      <4>3. QED
        BY <4>1, <4>2
    <3>3. LookFits(e.id, e.labels, e.support)
      BY <2>4 DEF Fits
    <3>4. QED
      BY <3>1, <3>2, <3>3 DEF Fits
  <2>7. /\ DOMAIN m = DOMAIN acc /\ m[a] = e
        /\ \A i \in DOMAIN acc : i # a => m[i] = acc[i]
    BY <1>8, <2>2
  <2>8. m \in Seq(Rows)
    <3>1. m = [i \in DOMAIN acc |-> m[i]]
      BY <1>8
    <3>2. \A i \in DOMAIN acc : m[i] \in Rows
      BY <1>3, <2>4, <2>7, ElementOfSeq, LenProperties
    <3>3. QED
      BY ONLY <1>3, <3>1, <3>2, SequenceOf
  <2>9. \A i \in DOMAIN acc : m[i].id = acc[i].id
    BY <2>3, <2>4, <2>7
  <2>10. IDsApart(m) /\ IDsIn(m) = IDsIn(acc)
    BY <1>3, <2>7, <2>9 DEF IDsApart, IDsIn
  <2>11. x.id \in IDsIn(acc)
    BY <1>8 DEF IDsIn
  <2>12. \A i \in DOMAIN m : Fits(m[i])
    BY <1>3, <2>6, <2>7
  <2>13. ASSUME NEW i \in DOMAIN m, m[i].pid = 0, NEW j \in 1..(k + 1),
                items[j].id = m[i].id
         PROVE  items[j].pid = 0
    <3>1. CASE i = a
      <4>1. old.pid = 0 /\ x.pid = 0 /\ m[i].id = x.id
        BY <2>4, <2>7, <2>13, <3>1
      <4>2. QED
        BY <1>1, <1>5, <2>5, <2>13, <4>1
    <3>2. CASE i # a
      <4>1. m[i] = acc[i] /\ i \in DOMAIN acc /\ acc[i].id # x.id
        BY <1>3, <1>8, <2>7, <3>2 DEF IDsApart
      <4>2. j \in 1..k
        BY <1>1, <1>5, <2>13, <4>1
      <4>3. QED
        BY <1>3, <2>13, <4>1, <4>2
    <3>3. QED
      BY <3>1, <3>2
  <2>14. IDsIn(m) = ids \cup {items[j].id : j \in 1..(k + 1)}
    BY ONLY <1>3, <1>6, <2>10, <2>11
  <2>15. QED
    BY <2>8, <2>10, <2>12, <2>13, <2>14 DEF Grown, Sound
<1>9. QED
  <2>1. acc \in Seq(Rows) /\ x \in Rows /\ m = Merge(acc, x)
    BY <1>1, <1>2, <1>3
  <2>2. QED
    BY <1>7, <1>8, <2>1, MergeIs

\* Merging gives rows.
LEMMA MergeTyped ==
  ASSUME NEW acc \in Seq(Rows), NEW x \in Rows
  PROVE  Merge(acc, x) \in Seq(Rows)
<1>1. CASE Merge(acc, x) = Append(acc, x)
  BY <1>1, AppendProperties
<1>2. ASSUME NEW i \in DOMAIN acc,
             Merge(acc, x) = [acc EXCEPT ![i] = Enriched(acc[i], x)]
      PROVE  Merge(acc, x) \in Seq(Rows)
  <2>1. PICK m : m = Merge(acc, x)
    OBVIOUS
  <2>2. PICK e : e = Enriched(acc[i], x)
    OBVIOUS
  <2>3. \A j \in DOMAIN acc : acc[j] \in Rows
    BY ElementOfSeq, LenProperties
  <2>4. e \in Rows
    BY <1>2, <2>2, <2>3, EnrichedIs
  <2>5. m = [acc EXCEPT ![i] = e]
    BY <1>2, <2>1, <2>2
  <2>6. m = [j \in DOMAIN acc |-> m[j]]
    BY ONLY <2>5
  <2>7. \A j \in DOMAIN acc : m[j] \in Rows
    BY ONLY <2>3, <2>4, <2>5
  <2>8. m \in Seq(Rows)
    BY ONLY <2>6, <2>7, acc \in Seq(Rows), SequenceOf
  <2>9. QED
    BY <2>1, <2>8
<1>3. QED
  BY <1>1, <1>2, MergeIs

\* A list is merged into another one item after another.
LEMMA MergedSteps ==
  ASSUME NEW list \in Seq(Rows), NEW items \in Seq(Rows)
  PROVE  \E f : /\ f[0] = list
                /\ \A k \in Nat : k + 1 \in 1..Len(items) =>
                     f[k + 1] = Merge(f[k], items[k + 1])
                /\ Merged(list, items) = f[Len(items)]
<1> DEFINE N == Len(items)
           V == Seq(Rows)
           Is(f) == f = [k \in 0..N |-> IF k = 0 THEN list
                                        ELSE Merge(f[k - 1], items[k])]
           merged == CHOOSE f : Is(f)
<1>1. N \in Nat /\ DOMAIN items = 1..N /\ \A k \in 1..N : items[k] \in Rows
  BY LenProperties, ElementOfSeq
<1>2. Merged(list, items) = merged[N]
  BY DEF Merged
<1>3. Is(merged)
  <2> DEFINE step == [p \in Nat \X V |->
                       IF p[1] + 1 \in 1..N THEN Merge(p[2], items[p[1] + 1])
                       ELSE p[2]]
  <2>1. \A n \in Nat, v \in V :
          step[<<n, v>>] = IF n + 1 \in 1..N THEN Merge(v, items[n + 1]) ELSE v
    OBVIOUS
  <2>2. step \in Steps(V)
    BY <1>1, MergeTyped DEF Steps
  <2> HIDE DEF step
  <2>3. list \in V
    OBVIOUS
  <2> HIDE DEF V
  <2>4. PICK f \in [Nat -> V] :
          f[0] = list /\ \A n \in Nat : f[n + 1] = step[<<n, f[n]>>]
    <3>1. \E f \in [Nat -> V] : Iterates(f, list, step)
      BY ONLY <2>2, <2>3, Recursion
    <3>2. QED
      BY ONLY <3>1 DEF Iterates
  <2> DEFINE g == [k \in 0..N |-> f[k]]
  <2>5. ASSUME NEW k \in 0..N
        PROVE  g[k] = IF k = 0 THEN list ELSE Merge(g[k - 1], items[k])
    <3>1. CASE k = 0
      BY <2>4, <3>1
    <3>2. CASE k # 0
      <4>1. /\ k - 1 \in Nat /\ (k - 1) + 1 = k /\ k \in 1..N
            /\ k - 1 \in 0..N
        BY <3>2, <1>1
      <4>2. f[k - 1] \in V /\ f[k] = step[<<k - 1, f[k - 1]>>]
        BY <2>4, <4>1
      <4>3. f[k] = Merge(f[k - 1], items[k])
        BY <2>1, <4>1, <4>2
      <4>4. g[k] = f[k] /\ g[k - 1] = f[k - 1]
        BY <4>1
      <4>5. QED
        BY <3>2, <4>3, <4>4
    <3>3. QED
      BY <3>1, <3>2
  <2>6. Is(g)
    <3>1. g = [k \in 0..N |-> g[k]]
      OBVIOUS
    <3> HIDE DEF g
    <3>2. QED
      BY <2>5, <3>1
  <2> HIDE DEF Is, g
  <2>7. QED
    BY <2>6
<1> HIDE DEF merged
<1>4. merged[0] = list
  BY <1>1, <1>3
<1>5. ASSUME NEW k \in Nat, k + 1 \in 1..N
      PROVE  merged[k + 1] = Merge(merged[k], items[k + 1])
  <2>1. k + 1 # 0 /\ (k + 1) - 1 = k /\ k + 1 \in 0..N
    BY <1>1, <1>5
  <2>2. QED
    BY <1>3, <2>1
<1>6. QED
  BY <1>2, <1>4, <1>5

\* The rows of the merged list fit, and it has the IDs of both.
LEMMA MergedIs ==
  ASSUME NEW list, Sound(list), NEW items, Ordered(items, IDsIn(list)), NEW m,
         m = Merged(list, items)
  PROVE  Sound(m) /\ IDsIn(m) = IDsIn(list) \cup IDsIn(items)
<1> DEFINE ids == IDsIn(list)
           N == Len(items)
<1>1. list \in Seq(Rows) /\ items \in Seq(Rows)
  BY DEF Sound, Ordered
<1>2. N \in Nat /\ DOMAIN items = 1..N
  BY <1>1, LenProperties
<1>3. PICK f : /\ f[0] = list
               /\ \A k \in Nat : k + 1 \in 1..N =>
                    f[k + 1] = Merge(f[k], items[k + 1])
               /\ m = f[N]
  BY <1>1, MergedSteps
<1> HIDE DEF ids, N
<1> DEFINE P == {k \in Nat : k <= N => Grown(f[k], ids, items, k)}
<1>4. 0 \in P
  <2>1. \A j \in 1..0 : FALSE
    OBVIOUS
  <2>2. {items[j].id : j \in 1..0} = {}
    BY <2>1
  <2>3. Grown(list, ids, items, 0)
    BY <2>1, <2>2 DEF Grown, ids
  <2>4. QED
    BY <1>3, <2>3
<1>5. ASSUME NEW k \in Nat, k \in P PROVE k + 1 \in P
  <2> SUFFICES ASSUME k + 1 <= N PROVE Grown(f[k + 1], ids, items, k + 1)
    OBVIOUS
  <2>1. k <= N /\ k + 1 \in DOMAIN items /\ k + 1 \in 1..N
    BY <1>2
  <2>2. Grown(f[k], ids, items, k)
    BY <1>5, <2>1
  <2>3. f[k + 1] = Merge(f[k], items[k + 1])
    BY <1>3, <2>1
  <2>4. Ordered(items, ids)
    BY DEF ids
  <2>5. QED
    BY ONLY <2>1, <2>2, <2>3, <2>4, k \in Nat, MergeOne
<1>6. Nat \subseteq P
  <2> HIDE DEF P
  <2>1. QED
    BY <1>4, <1>5, Induction
<1>7. N <= N
  BY <1>2
<1>8. Grown(m, ids, items, N)
  BY <1>2, <1>3, <1>6, <1>7
<1>9. IDsIn(items) = {items[j].id : j \in 1..N}
  BY <1>2 DEF IDsIn
<1>10. QED
  BY <1>8, <1>9 DEF Grown, ids

\* Items that all fit are in order.
LEMMA FitInOrder ==
  ASSUME NEW items \in Seq(Rows), \A x \in ToSet(items) : Fits(x), NEW ids
  PROVE  Ordered(items, ids)
<1>1. \A j \in DOMAIN items : Fits(items[j])
  BY DEF ToSet
<1>2. QED
  BY <1>1 DEF Ordered, Fits

\* items has the rows of the places.
HasRows(items, row, places) ==
  /\ items \in Seq(Rows)
  /\ \A x : x \in ToSet(items) <=> \E p \in places : x = row[p]
  /\ \A id : id \in IDsIn(items) <=> \E p \in places : id = row[p].id

\* A listing of each place once has their rows and their IDs.
LEMMA ListedIDs ==
  ASSUME NEW L, NEW row, NEW places, HasOnce(L, row, places, Rows),
         L.res = "ok"
  PROVE  HasRows(L.items, row, places)
<1>1. L.items \in Seq(Rows) /\ ToSet(L.items) = Values(row, places)
  BY DEF HasOnce, Results
<1>2. \A x : x \in ToSet(L.items) <=> \E p \in places : x = row[p]
  BY <1>1, ValuesAre
<1>3. \A id : id \in IDsIn(L.items) <=> \E x \in ToSet(L.items) : id = x.id
  BY DEF IDsIn, ToSet
<1>4. \A id : id \in IDsIn(L.items) <=> \E p \in places : id = row[p].id
  <2>1. ASSUME NEW id \in IDsIn(L.items) PROVE \E p \in places : id = row[p].id
    BY <1>2, <1>3
  <2>2. ASSUME NEW p \in places PROVE row[p].id \in IDsIn(L.items)
    BY <1>2, <1>3
  <2>3. QED
    BY <2>1, <2>2
<1>5. QED
  BY <1>1, <1>2, <1>4 DEF HasRows

\* The IDs for which an engine lists rows.
ListedBy(e) == IF command.kind = "containers" THEN IDsOf(e) ELSE TasksOf(e)

\* What the listing of an engine adds to rows with the IDs ids.
Lists(L, e, ids) ==
  /\ L \in Results(Rows)
  /\ L.res = "ok" => Ordered(L.items, ids) /\ IDsIn(L.items) = ListedBy(e)
  /\ L.res = "error" => ListedBy(e) = {}

\* The rows of docker fit.
LEMMA DockerLists ==
  ASSUME CtlInv, Opened("docker"), command.kind \in {"containers", "tasks"},
         NEW ids, NEW L, L = Listed("docker")
  PROVE  Lists(L, "docker", ids)
<1> DEFINE root == DockerDisk
           row == IF command.kind = "containers"
                  THEN [i \in DOMAIN root.configs
                    |-> DockerRow(root.configs[i])]
                  ELSE [i \in DOMAIN root.configs
                    |-> DockerTask(root.configs[i])]
           places == DOMAIN root.configs
<1>1. root \in DockerEvidence
  BY DiskTyped
<1>2. \/ /\ L = DockerContainers(root)
         /\ row = [i \in DOMAIN root.configs |-> DockerRow(root.configs[i])]
      \/ /\ L = DockerTasks(root)
         /\ row = [i \in DOMAIN root.configs |-> DockerTask(root.configs[i])]
  BY DEF Listed, Containers, Tasks
<1> HIDE DEF root, row
<1>3. /\ HasOnce(L, row, places, Rows) /\ DockerRows(root, row)
      /\ L.res \in {"ok", "error"}
      /\ L.res = "ok" <=> \A i \in places : root.configs[i].ok
  BY ONLY <1>1, <1>2, DockerListed
<1>4. L \in Results(Rows)
  BY <1>3 DEF HasOnce
<1>5. Intact("docker") <=> \A i \in places : root.configs[i].ok
  BY DEF Intact, ToSet, root
<1>6. Intact("docker") =>
        IDsOf("docker") = {root.configs[i].id : i \in places}
  <2> SUFFICES ASSUME Intact("docker")
               PROVE  IDsOf("docker") = {root.configs[i].id : i \in places}
    OBVIOUS
  <2>1. IDsOf("docker") = {c.id : c \in ToSet(root.configs)}
    BY DEF IDsOf, root
  <2>2. QED
    BY <2>1 DEF ToSet
<1>7. ListedBy("docker") = IDsOf("docker")
  BY DEF ListedBy, TasksOf
<1>8. L.res = "error" => ListedBy("docker") = {}
  BY <1>3, <1>5, <1>7 DEF IDsOf
<1>9. ASSUME L.res = "ok"
      PROVE  Ordered(L.items, ids) /\ IDsIn(L.items) = ListedBy("docker")
  <2>1. ASSUME NEW i \in places
        PROVE  Fits(row[i]) /\ row[i].id = root.configs[i].id
    <3> DEFINE c == root.configs[i]
               r == row[i]
    <3>1. /\ r.id = c.id /\ r.pid = c.pid /\ r.labels = {} /\ r.support = FALSE
          /\ ConfigBacks(c, r.status)
      <4>1. DockerRows(root, row) /\ i \in DOMAIN root.configs
        BY <1>3, <2>1
      <4>2. /\ row[i].id = root.configs[i].id
            /\ row[i].pid = root.configs[i].pid
            /\ row[i].labels = {} /\ row[i].support = FALSE
        <5>1. /\ row[i].id = root.configs[i].id
              /\ row[i].pid = root.configs[i].pid
          BY ONLY <1>1, <4>1, DockerRowTells
        <5>2. row[i].labels = {}
          BY ONLY <1>1, <4>1, DockerRowIs
        <5>3. row[i].support = FALSE
          BY ONLY <1>1, <4>1, DockerRowIs, ZenonT(40)
        <5>4. QED
          BY ONLY <5>1, <5>2, <5>3
      <4>3. ConfigBacks(root.configs[i], row[i].status)
        BY ONLY <1>1, <4>1, DockerRowIs
      <4>4. QED
        BY ONLY <4>2, <4>3
    <3>2. c.ok /\ c \in ToSet(root.configs)
      BY <1>3, <1>9 DEF ToSet
    <3> HIDE DEF c, r
    <3>3. c \in Configs(c.id)
      BY <3>2 DEF Configs, root
    <3>4. c.id \in IDsOf("docker")
      BY <1>3, <1>5, <1>6, <1>9 DEF c
    <3>5. StatusFits(r.id, r.status)
      BY <3>1, <3>3 DEF StatusFits
    <3>6. PidFits(r.id, r.pid)
      BY <3>1, <3>3 DEF PidFits
    <3>7. LookFits(r.id, r.labels, r.support)
      BY <3>1, <3>4 DEF LookFits
    <3>8. QED
      BY <3>1, <3>5, <3>6, <3>7 DEF Fits, c, r
  <2>2. HasRows(L.items, row, places)
    BY ONLY <1>3, <1>9, ListedIDs
  <2>3. \A x \in ToSet(L.items) : Fits(x)
    BY <2>1, <2>2 DEF HasRows
  <2>4. Ordered(L.items, ids)
    BY ONLY <2>2, <2>3, FitInOrder DEF HasRows
  <2>5. IDsIn(L.items) = {root.configs[i].id : i \in places}
    <3>1. ASSUME NEW id \in IDsIn(L.items)
          PROVE  id \in {root.configs[i].id : i \in places}
      BY <2>1, <2>2 DEF HasRows
    <3>2. ASSUME NEW p \in places PROVE root.configs[p].id \in IDsIn(L.items)
      BY <2>1, <2>2 DEF HasRows
    <3>3. QED
      BY <3>1, <3>2
  <2>6. QED
    BY <1>3, <1>5, <1>6, <1>7, <1>9, <2>4, <2>5
<1>10. QED
  BY <1>4, <1>8, <1>9 DEF Lists

\* What podman can list has places.
LEMMA PodmanIDs ==
  ASSUME Opened("podman"), NEW roots, roots = disk.podman
  PROVE  \A id : id \in IDsOf("podman") <=>
           \E p \in PodmanPlaces(roots) : id = roots[p[1]].entries[p[2]].id
<1>1. \A id : id \in IDsOf("podman") <=>
        \E r \in DOMAIN roots : \E k \in DOMAIN roots[r].entries :
          /\ roots[r].ok /\ roots[r].entries[k].metadata
          /\ id = roots[r].entries[k].id
  <2>1. IDsOf("podman") =
          UNION {{e.id : e \in {e \in Entries(r) : e.metadata}} :
                                   r \in PodmanRoots}
    BY DEF IDsOf, Intact
  <2>2. ASSUME NEW id \in IDsOf("podman")
        PROVE  \E r \in DOMAIN roots : \E k \in DOMAIN roots[r].entries :
                 /\ roots[r].ok /\ roots[r].entries[k].metadata
                 /\ id = roots[r].entries[k].id
    BY <2>1 DEF PodmanRoots, Entries, ToSet
  <2>3. ASSUME NEW r \in DOMAIN roots, NEW k \in DOMAIN roots[r].entries,
               roots[r].ok, roots[r].entries[k].metadata
        PROVE  roots[r].entries[k].id \in IDsOf("podman")
    <3>1. roots[r] \in PodmanRoots
      BY <2>3 DEF PodmanRoots, ToSet
    <3>2. roots[r].entries[k] \in {e \in Entries(roots[r]) : e.metadata}
      BY <2>3 DEF Entries, ToSet
    <3>3. QED
      BY <2>1, <3>1, <3>2
  <2>4. QED
    BY <2>2, <2>3
<1>2. \A p \in PodmanPlaces(roots) :
        /\ p[1] \in DOMAIN roots /\ p[2] \in DOMAIN roots[p[1]].entries
        /\ roots[p[1]].ok /\ roots[p[1]].entries[p[2]].metadata
  BY PodmanPlacesAre
<1>3. ASSUME NEW r \in DOMAIN roots, NEW k \in DOMAIN roots[r].entries,
             roots[r].ok, roots[r].entries[k].metadata
      PROVE  \E p \in PodmanPlaces(roots) : p[1] = r /\ p[2] = k
  <2>1. /\ <<r, k>> \in PodmanPlaces(roots)
        /\ <<r, k>>[1] = r /\ <<r, k>>[2] = k
    BY ONLY <1>3, PodmanPlacesAre
  <2>2. QED
    BY <2>1
<1>4. QED
  BY <1>1, <1>2, <1>3

\* The containers of podman fit.
LEMMA PodmanListsContainers ==
  ASSUME CtlInv, Opened("podman"), command.kind = "containers",
         NEW ids, NEW L, L = Listed("podman")
  PROVE  Lists(L, "podman", ids)
<1> DEFINE roots == disk.podman
           row == PodmanRows(roots)
           places == PodmanPlaces(roots)
           ID(p) == roots[p[1]].entries[p[2]].id
<1>1. roots \in Seq(PodmanEvidence)
  BY DiskTyped
<1>2. L = PodmanContainers(roots)
  BY DEF Listed, Containers
<1>3. \A id : id \in IDsOf("podman") <=> \E p \in places : id = ID(p)
  BY PodmanIDs
<1>4. ListedBy("podman") = IDsOf("podman")
  BY DEF ListedBy
<1> HIDE DEF roots
<1>5. /\ HasOnce(L, row, places, Rows) /\ L.res = "ok"
      /\ \A p \in places : PlainRow(row[p], ID(p))
  BY ONLY <1>1, <1>2, PodmanListed
<1> HIDE DEF row, places, ID
<1>6. HasRows(L.items, row, places)
  BY ONLY <1>5, ListedIDs
<1>7. ASSUME NEW p \in places PROVE Fits(row[p]) /\ row[p].id = ID(p)
  <2>1. PlainRow(row[p], ID(p)) /\ ID(p) \in IDsOf("podman")
    BY <1>3, <1>5
  <2>2. /\ row[p].id = ID(p) /\ row[p].pid = 0 /\ row[p].status = ""
        /\ row[p].labels = {} /\ row[p].support = FALSE
    BY <2>1 DEF PlainRow
  <2>3. StatusFits(row[p].id, row[p].status)
    BY <2>2 DEF StatusFits, Active, Runs, Pauses
  <2>4. PidFits(row[p].id, row[p].pid)
    BY <2>2 DEF PidFits
  <2>5. LookFits(row[p].id, row[p].labels, row[p].support)
    BY <2>1, <2>2 DEF LookFits
  <2>6. QED
    BY <2>2, <2>3, <2>4, <2>5 DEF Fits
<1>8. \A x \in ToSet(L.items) : Fits(x)
  BY <1>6, <1>7 DEF HasRows
<1>9. Ordered(L.items, ids)
  BY ONLY <1>6, <1>8, FitInOrder DEF HasRows
<1>10. IDsIn(L.items) = IDsOf("podman")
  <2>1. \A p \in places : row[p].id = ID(p)
    BY <1>7
  <2>2. \A id : id \in IDsIn(L.items) <=> id \in IDsOf("podman")
    BY ONLY <1>3, <1>6, <2>1 DEF HasRows
  <2>3. QED
    BY ONLY <2>2
<1>11. L \in Results(Rows) /\ L.res # "error"
  BY <1>5 DEF HasOnce
<1>12. QED
  BY <1>4, <1>9, <1>10, <1>11 DEF Lists

\* The row of a task of podman tells its state.
TaskRow(s) == Row("podman", "", s.id, "", s.pid, s.status)
StateRow(r, s) ==
  /\ r \in Rows /\ r.id = s.id /\ r.pid = s.pid
  /\ r.status = s.status

\* What is in the row of a task of podman.
LEMMA TaskRowIs ==
  ASSUME NEW s \in ContainerState
  PROVE  StateRow(TaskRow(s), s)
<1>1. s.id \in STRING /\ s.pid \in Int /\ s.status \in STRING
  BY DEF ContainerState
<1>2. s.id \in Texts /\ s.pid \in Int /\ s.status \in Texts
  BY <1>1 DEF Texts
<1>3. PICK type \in Texts, empty \in Texts :
        TaskRow(s) = Row(type, empty, s.id, empty, s.pid, s.status)
  <2>1. "" \in Texts /\ "podman" \in Texts
    BY DEF Texts
  <2>2. QED
    BY ONLY <2>1 DEF TaskRow
<1>4. /\ TaskRow(s) \in Rows /\ TaskRow(s).id = s.id /\ TaskRow(s).pid = s.pid
      /\ TaskRow(s).status = s.status
  BY ONLY <1>2, <1>3 DEF Row, Rows, Labels
<1>5. QED
  BY ONLY <1>4 DEF StateRow

HasTasks(items, roots) ==
  \A x : x \in ToSet(items) <=>
    \E r \in DOMAIN roots : \E i \in DOMAIN roots[r].states :
      roots[r].db = "ok" /\ x = TaskRow(roots[r].states[i])

\* The tasks of podman are those of its databases, unless one is damaged.
LEMMA PodmanTasksAre ==
  ASSUME NEW roots \in Seq(PodmanEvidence), NEW L, L = PodmanTasks(roots)
  PROVE  /\ L \in Results(Rows) /\ L.res \in {"ok", "error"}
         /\ L.res = "ok" <=> \A r \in DOMAIN roots : roots[r].db # "bad"
         /\ L.res = "ok" => HasTasks(L.items, roots)
<1> DEFINE made(r) == [i \in DOMAIN roots[r].states |->
                        TaskRow(roots[r].states[i])]
           parts == [r \in DOMAIN roots |->
                      CASE roots[r].db = "absent" -> Ok(<<>>)
                        [] roots[r].db = "bad" -> Failed
                        [] OTHER -> Ok(made(r))]
           T == Results(Rows)
<1>1. L = Collect(parts)
  BY DEF PodmanTasks, TaskRow
<1>2. \A r \in DOMAIN roots :
        /\ roots[r].db \in {"absent", "bad", "ok"}
        /\ roots[r].states \in Seq(ContainerState)
  <2>1. \A r \in DOMAIN roots : roots[r] \in PodmanEvidence
    BY PodmanTyped
  <2>2. QED
    BY <2>1 DEF PodmanEvidence
<1>3. \A r \in DOMAIN roots :
        made(r) \in Seq(Rows) /\ DOMAIN made(r) = DOMAIN roots[r].states
  <2> SUFFICES ASSUME NEW r \in DOMAIN roots
               PROVE  /\ made(r) \in Seq(Rows)
                      /\ DOMAIN made(r) = DOMAIN roots[r].states
    OBVIOUS
  <2> DEFINE s == roots[r].states
  <2>1. s \in Seq(ContainerState)
    BY <1>2
  <2> HIDE DEF s
  <2> DEFINE m == [i \in DOMAIN s |-> TaskRow(s[i])]
  <2>2. \A i \in DOMAIN s : m[i] \in Rows
    <3>1. \A i \in DOMAIN s : s[i] \in ContainerState
      BY <2>1, LenProperties, ElementOfSeq
    <3>2. QED
      BY <3>1, TaskRowIs DEF StateRow
  <2>3. m = [i \in DOMAIN s |-> m[i]]
    OBVIOUS
  <2> HIDE DEF m
  <2>4. m \in Seq(Rows) /\ DOMAIN m = DOMAIN s
    BY ONLY <2>1, <2>2, <2>3, SequenceOf
  <2>5. QED
    BY <2>4 DEF m, s
<1>4. \A r \in DOMAIN roots :
        /\ roots[r].db = "absent" => parts[r] = Ok(<<>>)
        /\ roots[r].db = "bad" => parts[r] = Failed
        /\ roots[r].db = "ok" => parts[r] = Ok(made(r))
  OBVIOUS
<1>5. parts = [r \in DOMAIN roots |-> parts[r]] /\ DOMAIN parts = DOMAIN roots
  OBVIOUS
<1> HIDE DEF parts, made
<1>6. \A r \in DOMAIN roots :
        /\ parts[r] \in T /\ parts[r].res \in {"ok", "error"}
        /\ parts[r].res = "ok" <=> roots[r].db # "bad"
        /\ roots[r].db = "absent" => ToSet(parts[r].items) = {}
        /\ roots[r].db = "ok" => parts[r].items = made(r)
  <2> SUFFICES ASSUME NEW r \in DOMAIN roots
               PROVE  /\ parts[r] \in T /\ parts[r].res \in {"ok", "error"}
                      /\ parts[r].res = "ok" <=> roots[r].db # "bad"
                      /\ roots[r].db = "absent" => ToSet(parts[r].items) = {}
                      /\ roots[r].db = "ok" => parts[r].items = made(r)
    OBVIOUS
  <2>1. /\ Ok(<<>>) \in T /\ Ok(<<>>).res = "ok" /\ ToSet(Ok(<<>>).items) = {}
        /\ Ok(made(r)) \in T /\ Ok(made(r)).res = "ok"
        /\ Ok(made(r)).items = made(r)
        /\ Failed \in T /\ Failed.res = "error"
    BY ONLY <1>3, OutcomesAre
  <2> HIDE DEF T
  <2>2. QED
    BY <1>2, <1>4, <2>1
<1>7. parts \in Seq(T)
  <2> HIDE DEF T
  <2>1. QED
    BY ONLY <1>5, <1>6, SequenceOf, roots \in Seq(PodmanEvidence)
<1>8. /\ L \in T
      /\ L.res = "ok" <=> \A i \in DOMAIN roots : parts[i].res = "ok"
      /\ L.res # "ok" => \E i \in DOMAIN roots : parts[i].res = L.res
      /\ L.res = "ok" =>
           ToSet(L.items) = UNION {ToSet(parts[i].items) : i \in DOMAIN roots}
  BY ONLY <1>1, <1>5, <1>7, CollectIs
<1>9. L.res \in {"ok", "error"}
  BY <1>6, <1>8
<1>10. L.res = "ok" <=> \A r \in DOMAIN roots : roots[r].db # "bad"
  BY <1>6, <1>8
<1>11. ASSUME L.res = "ok", NEW x
       PROVE  x \in ToSet(L.items) <=>
                \E r \in DOMAIN roots : \E i \in DOMAIN roots[r].states :
                  roots[r].db = "ok" /\ x = TaskRow(roots[r].states[i])
  <2>1. x \in ToSet(L.items) <=>
          \E r \in DOMAIN roots : x \in ToSet(parts[r].items)
    BY <1>8, <1>11
  <2>2. ASSUME NEW r \in DOMAIN roots
        PROVE  x \in ToSet(parts[r].items) <=>
                 \E i \in DOMAIN roots[r].states :
                   roots[r].db = "ok" /\ x = TaskRow(roots[r].states[i])
    <3>1. CASE roots[r].db = "absent"
      BY <1>6, <3>1
    <3>2. CASE roots[r].db = "ok"
      <4>1. parts[r].items = made(r)
        BY <1>6, <3>2
      <4>2. x \in ToSet(made(r)) <=>
              \E i \in DOMAIN roots[r].states : x = TaskRow(roots[r].states[i])
        BY DEF made, ToSet
      <4>3. QED
        BY <3>2, <4>1, <4>2
    <3>3. roots[r].db # "bad"
      BY <1>10, <1>11
    <3>4. QED
      BY <1>2, <3>1, <3>2, <3>3
  <2>3. QED
    BY <2>1, <2>2
<1>12. QED
  BY <1>8, <1>9, <1>10, <1>11 DEF HasTasks

\* The tasks of podman fit.
LEMMA PodmanListsTasks ==
  ASSUME CtlInv, Opened("podman"), command.kind = "tasks",
         NEW ids, NEW L, L = Listed("podman")
  PROVE  Lists(L, "podman", ids)
<1> DEFINE roots == disk.podman
           State(x) == \E r \in DOMAIN roots :
             \E i \in DOMAIN roots[r].states :
                         roots[r].db = "ok" /\ x = roots[r].states[i]
<1>1. roots \in Seq(PodmanEvidence)
  BY DiskTyped
<1>2. L = PodmanTasks(roots)
  BY DEF Listed, Tasks
<1>3. ListedBy("podman") = TasksOf("podman")
  BY DEF ListedBy
<1>4. /\ L \in Results(Rows) /\ L.res \in {"ok", "error"}
      /\ L.res = "ok" <=> \A r \in DOMAIN roots : roots[r].db # "bad"
      /\ L.res = "ok" =>
           \A x : x \in ToSet(L.items) <=> \E s : State(s) /\ x = TaskRow(s)
  <2> HIDE DEF roots
  <2>1. /\ L \in Results(Rows) /\ L.res \in {"ok", "error"}
        /\ L.res = "ok" <=> \A r \in DOMAIN roots : roots[r].db # "bad"
    BY ONLY <1>1, <1>2, PodmanTasksAre
  <2>2. L.res = "ok" => HasTasks(L.items, roots)
    BY ONLY <1>1, <1>2, PodmanTasksAre
  <2>3. HasTasks(L.items, roots) =>
          \A x : x \in ToSet(L.items) <=> \E s : State(s) /\ x = TaskRow(s)
    BY DEF HasTasks
  <2>4. QED
    BY <2>1, <2>2, <2>3
<1>5. \A id : id \in TasksOf("podman") <=>
        (\A r \in DOMAIN roots : roots[r].db # "bad") /\ \E s : State(s)
        /\ id = s.id
  BY DEF TasksOf, ToSet
<1>6. \A s : State(s) => s \in ContainerState /\ s \in States(s.id)
  <2> SUFFICES ASSUME NEW s, State(s)
               PROVE  s \in ContainerState /\ s \in States(s.id)
    OBVIOUS
  <2>1. PICK r \in DOMAIN roots : \E i \in DOMAIN roots[r].states :
          s = roots[r].states[i]
    OBVIOUS
  <2>2. roots[r].states \in Seq(ContainerState)
    BY <1>1, PodmanTyped
  <2>3. s \in ContainerState
    BY <2>1, <2>2, LenProperties, ElementOfSeq
  <2>4. s \in States(s.id)
    BY <2>1 DEF States, ToSet
  <2>5. QED
    BY <2>3, <2>4
<1> HIDE DEF State
<1>7. ASSUME NEW s, State(s)
      PROVE  Fits(TaskRow(s)) /\ TaskRow(s).id = s.id
  <2>1. StateRow(TaskRow(s), s) /\ s \in States(s.id)
    BY <1>6, <1>7, TaskRowIs
  <2>2. /\ TaskRow(s).id = s.id /\ TaskRow(s).pid = s.pid
        /\ TaskRow(s).status = s.status
    BY <2>1 DEF StateRow
  <2>3. StatusFits(TaskRow(s).id, TaskRow(s).status)
    BY <2>1, <2>2 DEF StatusFits
  <2>4. PidFits(TaskRow(s).id, TaskRow(s).pid)
    BY <2>1, <2>2 DEF PidFits
  <2>5. LookFits(TaskRow(s).id, TaskRow(s).labels, TaskRow(s).support)
    BY DEF LookFits
  <2>6. QED
    BY <2>2, <2>3, <2>4, <2>5 DEF Fits
<1>8. ASSUME L.res = "ok"
      PROVE  Ordered(L.items, ids) /\ IDsIn(L.items) = TasksOf("podman")
  <2>1. L.items \in Seq(Rows)
    BY <1>4 DEF Results
  <2>2. \A x \in ToSet(L.items) : Fits(x)
    BY <1>4, <1>7, <1>8
  <2>3. Ordered(L.items, ids)
    BY ONLY <2>1, <2>2, FitInOrder
  <2>4. \A id : id \in IDsIn(L.items) <=> \E x \in ToSet(L.items) : id = x.id
    BY DEF IDsIn, ToSet
  <2>5. \A id : id \in IDsIn(L.items) <=> \E s : State(s) /\ id = TaskRow(s).id
    BY <1>4, <1>8, <2>4
  <2>6. \A id : id \in IDsIn(L.items) <=> \E s : State(s) /\ id = s.id
    BY ONLY <1>7, <2>5
  <2>7. \A id : id \in IDsIn(L.items) <=> id \in TasksOf("podman")
    BY <1>4, <1>5, <1>8, <2>6
  <2>8. QED
    BY ONLY <2>3, <2>7
<1>9. L.res = "error" => TasksOf("podman") = {}
  BY <1>4, <1>5
<1>10. QED
  BY <1>3, <1>4, <1>8, <1>9 DEF Lists

\* Whether a container of containerd is known there to docker or podman too.
Elsewhere(id) == id \in IDsOf("docker") \cup IDsOf("podman")

\* The state in the row of a record is that of the first record of the ID.
LEMMA RecordFits ==
  ASSUME CtlInv, Opened("containerd"), NEW root, root = ContainerdDisk,
         NEW k, NEW i, NEW id, RecordAt(root, id, k, i), NEW x,
         x = RowAt(root, sc, Rooted, k, i)
  PROVE  /\ x \in Rows /\ x.id = id /\ StatusFits(id, x.status)
         /\ FirstNs(root, id) # 0 /\ Stored(root, id) \in Stores(id)
<1> DEFINE first == Stored(root, id)
           c == root.nss[k].ctrs[i]
<1>1. root \in ContainerdEvidence /\ Rooted \in BOOLEAN
  BY DiskTyped
<1>2. k \in DOMAIN root.nss /\ i \in DOMAIN root.nss[k].ctrs /\ c.ok
      /\ c.id = id
  BY DEF RecordAt
<1>3. FirstNs(root, id) # 0
  BY ONLY <1>1, StoredIs, RecordAt(root, id, k, i)
<1>4. first \in Stores(id)
  BY <1>3 DEF Stores
<1>5. RowTold(x, root, sc, Rooted, k, i)
  BY ONLY <1>1, <1>2, RowAtIs, x = RowAt(root, sc, Rooted, k, i)
<1>6. /\ x \in Rows /\ x.id = c.id
      /\ x.status \in Active => Rooted /\ CgroupBacks(first.cgroup, x.status)
  BY ONLY <1>2, <1>5 DEF RowTold
<1>7. StatusFits(id, x.status)
  BY <1>4, <1>6 DEF StatusFits
<1>8. QED
  BY <1>2, <1>3, <1>4, <1>6, <1>7

\* The row of the first record of an ID has its PID, its labels and whether
\* it is a support container.
LEMMA FirstFits ==
  ASSUME CtlInv, Opened("containerd"), NEW root, root = ContainerdDisk,
         NEW k, NEW i, NEW id, RecordAt(root, id, k, i), NEW x,
         x = RowAt(root, sc, Rooted, k, i),
         Stored(root, id) = root.nss[k].ctrs[i]
  PROVE  /\ PidFits(id, x.pid)
         /\ \/ LookFits(id, x.labels, x.support)
            \/ command.kind = "containers" /\ Elsewhere(id)
<1> DEFINE first == Stored(root, id)
           c == root.nss[k].ctrs[i]
<1>1. root \in ContainerdEvidence /\ Rooted \in BOOLEAN
  BY DiskTyped
<1>2. k \in DOMAIN root.nss /\ i \in DOMAIN root.nss[k].ctrs /\ c.ok
      /\ c.id = id
  BY DEF RecordAt
<1>3. first \in Stores(id)
  BY RecordFits
<1>4. RowTold(x, root, sc, Rooted, k, i)
  BY ONLY <1>1, <1>2, RowAtIs, x = RowAt(root, sc, Rooted, k, i)
<1>5. /\ PidBacks(x.pid, first.cgroup, c.init)
      /\ x.labels = c.labels /\ x.support = IsSupportContainer(sc, c)
  BY ONLY <1>2, <1>4 DEF RowTold
<1>6. PidFits(id, x.pid)
  BY <1>3, <1>5 DEF PidFits, PidBacks
<1>7. \/ LookFits(id, x.labels, x.support)
      \/ command.kind = "containers" /\ Elsewhere(id)
  BY <1>5 DEF LookFits, Elsewhere
<1>8. QED
  BY <1>6, <1>7

\* What the first row of an ID has no PID for, no other has.
LEMMA NoLaterPid ==
  ASSUME CtlInv, Opened("containerd"), NEW root, root = ContainerdDisk,
         NEW k, NEW i, NEW l, NEW j, NEW id,
         RecordAt(root, id, k, i), RecordAt(root, id, l, j), NEW x, NEW y,
         x = RowAt(root, sc, Rooted, k, i), y = RowAt(root, sc, Rooted, l, j),
         x.pid = 0
  PROVE  y.pid = 0
<1> DEFINE first == Stored(root, id)
           Pid(m, n) ==
             GetContainerTask(first.specs, CgroupOf(first, Rooted),
                              InitOf(root.nss[m].ctrs[n], Rooted)).task.pid
<1>1. root \in ContainerdEvidence /\ Rooted \in BOOLEAN
  BY DiskTyped
<1>2. ASSUME NEW m, NEW n, RecordAt(root, id, m, n)
      PROVE  /\ RowAt(root, sc, Rooted, m, n).pid = Pid(m, n)
             /\ first \in ContainerRecord
                /\ CgroupOf(first, Rooted) \in CgroupFiles
             /\ InitOf(root.nss[m].ctrs[n], Rooted) \in Int
  <2>1. /\ m \in DOMAIN root.nss /\ n \in DOMAIN root.nss[m].ctrs
        /\ root.nss[m].ctrs[n].ok /\ root.nss[m].ctrs[n].id = id
    BY <1>2 DEF RecordAt
  <2>2. RowTold(RowAt(root, sc, Rooted, m, n), root, sc, Rooted, m, n)
    BY ONLY <1>1, <2>1, RowAtIs
  <2>3. QED
    BY ONLY <2>1, <2>2 DEF RowTold
<1>3. first.specs \in SUBSET Specification
  BY <1>2 DEF ContainerRecord
<1>4. /\ Pid(k, i) = 0 /\ y.pid = Pid(l, j)
      /\ CgroupOf(first, Rooted) \in CgroupFiles
      /\ InitOf(root.nss[k].ctrs[i], Rooted) \in Int
      /\ InitOf(root.nss[l].ctrs[j], Rooted) \in Int
  BY <1>2
<1>5. Pid(l, j) = 0
  BY ONLY <1>3, <1>4, NoPid
<1>6. QED
  BY <1>4, <1>5

\* The records of containerd fit, where what is known elsewhere has rows.
LEMMA RecordsList ==
  ASSUME CtlInv, Opened("containerd"), NEW root, root = ContainerdDisk,
         NEW ids,
         command.kind = "containers" => \A id : Elsewhere(id) => id \in ids,
         NEW L, L = ContainerdContainers(root, sc, Rooted)
  PROVE  /\ L \in Results(Rows)
         /\ L.res = "ok" =>
              /\ Intact("containerd") /\ Ordered(L.items, ids)
              /\ IDsIn(L.items) = IDsOf("containerd")
         /\ L.res = "error" => ~Intact("containerd")
<1> DEFINE row == PlacedRows(root, sc, Rooted)
           places == Places(root)
           Ctr(p) == root.nss[p[1]].ctrs[p[2]]
<1>1. root \in ContainerdEvidence /\ Rooted \in BOOLEAN
  BY DiskTyped
<1>2. HasOnce(L, row, places, Rows)
  BY ONLY <1>1, ContainerdListed, L = ContainerdContainers(root, sc, Rooted)
<1>3. L.res = "error" => \E p \in places : ~Ctr(p).ok
  BY ONLY <1>1, ContainerdListed, L = ContainerdContainers(root, sc, Rooted)
<1>4. L.res = "ok" => \A p \in places : Ctr(p).ok
  BY ONLY <1>1, ContainerdListed, L = ContainerdContainers(root, sc, Rooted)
<1>5. \A p \in places : /\ p = <<p[1], p[2]>> /\ p[1] \in DOMAIN root.nss
                        /\ p[2] \in DOMAIN root.nss[p[1]].ctrs
                        /\ row[p] = RowAt(root, sc, Rooted, p[1], p[2])
  BY PlacesAre DEF PlacedRows
<1>6. /\ \A r \in Records : \E p \in places : r[2] = Ctr(p)
      /\ \A p \in places : \E r \in Records : r[2] = Ctr(p)
  <2>1. \A k \in DOMAIN root.nss : \A i \in DOMAIN root.nss[k].ctrs :
          <<k, i>> \in places /\ <<k, i>>[1] = k /\ <<k, i>>[2] = i
    BY PlacesAre
  <2>2. ASSUME NEW r \in Records PROVE \E p \in places : r[2] = Ctr(p)
    <3>1. PICK k \in DOMAIN root.nss : \E i \in DOMAIN root.nss[k].ctrs :
            r[2] = root.nss[k].ctrs[i]
      BY RecordsAre
    <3>2. PICK i \in DOMAIN root.nss[k].ctrs : r[2] = root.nss[k].ctrs[i]
      BY <3>1
    <3>3. /\ <<k, i>> \in places
          /\ r[2] = root.nss[<<k, i>>[1]].ctrs[<<k, i>>[2]]
      BY <2>1, <3>2
    <3> HIDE DEF places
    <3>4. QED
      BY ONLY <3>3
  <2>3. ASSUME NEW p \in places PROVE \E r \in Records : r[2] = Ctr(p)
    BY <1>5, RecordsAre
  <2>4. QED
    BY <2>2, <2>3
<1>7. Intact("containerd") <=> \A p \in places : Ctr(p).ok
  BY <1>6 DEF Intact
<1>8. ASSUME L.res = "ok"
      PROVE  Ordered(L.items, ids) /\ IDsIn(L.items) = IDsOf("containerd")
  <2> DEFINE items == L.items
  <2>1. HasRows(items, row, places)
    BY ONLY <1>2, <1>8, ListedIDs
  <2>2. ASSUME NEW p \in places
        PROVE  RecordAt(root, Ctr(p).id, p[1], p[2])
    BY <1>4, <1>5, <1>8 DEF RecordAt
  <2>3. ASSUME NEW p \in places
        PROVE  /\ row[p] \in Rows /\ row[p].id = Ctr(p).id
               /\ StatusFits(Ctr(p).id, row[p].status)
    BY <1>5, <2>2, RecordFits
  <2>4. IDsIn(items) = IDsOf("containerd")
    <3>1. IDsOf("containerd") = {r[2].id : r \in Records}
      BY <1>4, <1>7, <1>8 DEF IDsOf
    <3>2. \A id : id \in IDsIn(items) <=> \E p \in places : id = Ctr(p).id
      BY <2>1, <2>3, SMTT(30) DEF HasRows
    <3>3. \A id : id \in IDsOf("containerd")
          <=> \E p \in places : id = Ctr(p).id
      BY <1>6, <3>1, SMTT(30)
    <3>4. QED
      BY ONLY <3>2, <3>3
  <2>5. items \in Seq(Rows) /\ Len(items) \in Nat
        /\ DOMAIN items = 1..Len(items)
    BY <2>1, LenProperties DEF HasRows
  <2>6. ASSUME NEW j \in DOMAIN items, NEW p \in places, items[j] = row[p],
               NEW id, id = Ctr(p).id
        PROVE  \E m \in places : \E i \in DOMAIN items :
                 /\ items[i] = row[m] /\ (i = j \/ i \in 1..(j - 1))
                 /\ Ctr(m) = Stored(root, id) /\ Ctr(m).id = id
    <3>1. RecordAt(root, id, p[1], p[2])
      BY <2>2, <2>6
    <3>2. PICK k : k = FirstNs(root, id)
      OBVIOUS
    <3>3. k # 0
      BY <3>1, <3>2, RecordFits
    <3>4. PICK n : /\ RecordAt(root, id, k, n)
                   /\ Stored(root, id) = root.nss[k].ctrs[n]
                   /\ \A l, o : RecordAt(root, id, l, o) =>
                        k <= l /\ (k = l => n <= o)
      BY ONLY <1>1, <3>2, <3>3, StoredIs
    <3>5. PICK m : m = <<k, n>>
      OBVIOUS
    <3>6. m \in places /\ m[1] = k /\ m[2] = n
      BY <3>4, <3>5, PlacesAre DEF RecordAt
    <3>7. Ctr(m) = Stored(root, id) /\ Ctr(m).id = id
      BY <3>4, <3>6 DEF RecordAt
    <3> HIDE DEF row, places, Ctr
    <3>8. IsFirst(items, OfID(id), row[m])
      <4>1. L.res = "ok" =>
              \A h, l, o : RecordAt(root, h, l, o)
                /\ (\A q, r : RecordAt(root, h, q, r) =>
                                l <= q /\ (l = q => o <= r))
                => IsFirst(L.items, OfID(h), row[<<l, o>>])
        BY ONLY <1>1, ContainerdListed,
                L = ContainerdContainers(root, sc, Rooted)
           DEF row
      <4>2. QED
        BY ONLY <1>8, <3>4, <3>5, <4>1
    <3>9. PICK i \in DOMAIN items :
            items[i] = row[m] /\ \A o \in 1..(i - 1) : items[o] \notin OfID(id)
      BY <3>8 DEF IsFirst
    <3>10. items[j] \in OfID(id)
      BY <2>3, <2>6 DEF OfID
    <3>11. i \in 1..Len(items) /\ j \in 1..Len(items) /\ ~(j \in 1..(i - 1))
      BY <2>5, <3>9, <3>10
    <3>12. i = j \/ i \in 1..(j - 1)
      BY ONLY <2>5, <3>11
    <3>13. QED
      BY <3>6, <3>7, <3>9, <3>12
  <2>7. ASSUME NEW j \in DOMAIN items
        PROVE  LET x == items[j]
               IN  /\ StatusFits(x.id, x.status)
                   /\ \/ LookFits(x.id, x.labels, x.support)
                      \/ x.id \in ids
                      \/ \E i \in 1..(j - 1) : items[i].id = x.id
                   /\ \/ PidFits(x.id, x.pid)
                      \/ \E i \in 1..(j - 1) :
                           items[i].id = x.id /\ items[i].pid # 0
    <3>1. PICK p \in places : items[j] = row[p]
      BY <2>1 DEF HasRows, ToSet
    <3>2. PICK id : id = Ctr(p).id
      OBVIOUS
    <3>3. PICK m \in places : \E i \in DOMAIN items :
                 /\ items[i] = row[m] /\ (i = j \/ i \in 1..(j - 1))
                 /\ Ctr(m) = Stored(root, id) /\ Ctr(m).id = id
      BY <2>6, <3>1, <3>2, SMTT(30)
    <3>4. PICK i \in DOMAIN items :
                 /\ items[i] = row[m] /\ (i = j \/ i \in 1..(j - 1))
                 /\ Ctr(m) = Stored(root, id) /\ Ctr(m).id = id
      BY <3>3, SMTT(30)
    <3>5. RecordAt(root, id, p[1], p[2]) /\ RecordAt(root, id, m[1], m[2])
      BY <2>2, <3>2, <3>4
    <3>6. /\ row[p] = RowAt(root, sc, Rooted, p[1], p[2])
          /\ row[m] = RowAt(root, sc, Rooted, m[1], m[2])
      BY <1>5, SMTT(30)
    <3>7. /\ row[p].id = id /\ row[m].id = id
          /\ StatusFits(id, row[p].status)
      BY <2>3, <3>2, <3>4
    <3>8. PidFits(id, row[m].pid)
      BY <3>4, <3>5, <3>6, FirstFits
    <3>9. LookFits(id, row[m].labels, row[m].support) \/ id \in ids
      BY <3>4, <3>5, <3>6, FirstFits
    <3>10. row[m].pid = 0 => row[p].pid = 0
      BY <3>5, <3>6, NoLaterPid
    <3>11. PidFits(id, 0)
      BY DEF PidFits
    <3> HIDE DEF row, places, Ctr, items
    <3>12. CASE i = j
      BY ONLY <3>1, <3>4, <3>7, <3>8, <3>9, <3>12
    <3>13. CASE i \in 1..(j - 1)
      BY ONLY <3>1, <3>4, <3>7, <3>10, <3>11, <3>13
    <3>14. QED
      BY <3>4, <3>12, <3>13
  <2>8. Ordered(items, ids)
    BY ONLY <2>5, <2>7 DEF Ordered
  <2>9. QED
    BY <2>4, <2>8
<1>9. QED
  BY <1>2, <1>3, <1>4, <1>7, <1>8 DEF HasOnce

\* A collection succeeds only if all its parts do.
LEMMA CollectOk ==
  ASSUME NEW parts, DOMAIN parts \subseteq Nat, Collect(parts).res = "ok"
  PROVE  \A i \in DOMAIN parts : parts[i].res = "ok"
<1> DEFINE stops == {i \in DOMAIN parts : parts[i].res # "ok"}
<1>1. stops # {} => Min(stops) \in stops
  BY MinIsLeast
<1>2. stops # {} => Collect(parts).res = parts[Min(stops)].res
  BY DEF Collect
<1>3. QED
  BY <1>1, <1>2

\* No task of a containerd that is listed ends the process.
LEMMA NoPanic ==
  ASSUME NEW root \in ContainerdEvidence, NEW criteria, NEW rooted,
         ContainerdContainers(root, criteria, rooted).res = "ok",
         NEW k \in DOMAIN root.nss, NEW i \in DOMAIN root.nss[k].ctrs
  PROVE  TaskOf(root, rooted, root.nss[k].ctrs[i]).res # "panic"
<1> DEFINE n == root.nss[k]
           Part(l) == ContainerdNamespace(root, criteria, rooted, root.nss[l])
           Rec(j) == ContainerdRecord(root, criteria, rooted, n.name,
                                       n.ctrs[j])
           parts == [l \in DOMAIN root.nss |-> Part(l)]
           recs == [j \in DOMAIN n.ctrs |-> Rec(j)]
<1>1. DOMAIN parts \subseteq Nat /\ DOMAIN recs \subseteq Nat
  BY ContainerdTyped
<1>2. Collect(parts).res = "ok"
  BY DEF ContainerdContainers
<1>3. parts[k] = Part(k) /\ k \in DOMAIN parts
  OBVIOUS
<1>4. recs[i] = Rec(i) /\ i \in DOMAIN recs
  OBVIOUS
<1>5. Failed.res # "ok" /\ Panics.res # "ok"
  BY DEF Failed, Panics
<1>6. Part(k).res = "ok" => Collect(recs).res = "ok"
  BY <1>5 DEF ContainerdNamespace
<1> HIDE DEF parts, recs
<1>7. Part(k).res = "ok"
  BY ONLY <1>1, <1>2, <1>3, CollectOk
<1>8. Rec(i).res = "ok"
  BY ONLY <1>1, <1>4, <1>6, <1>7, CollectOk
<1>9. ASSUME TaskOf(root, rooted, n.ctrs[i]).res = "panic"
      PROVE  Rec(i) \in {Failed, Panics}
  BY <1>9 DEF ContainerdRecord
<1>10. QED
  BY <1>5, <1>8, <1>9

\* A task cannot be told where the specification has a path of cgroupfs.
LEMMA Untold ==
  ASSUME NEW specs, \A s, t \in specs : s = t, NEW cg, NEW init, NEW t,
         t = GetContainerTask(specs, cg, init)
  PROVE  /\ t.res = "error" => \E s \in specs : s.cgroupsPath = "dockerfs"
         /\ t.res = "ok" => ~\E s \in specs : s.cgroupsPath = "dockerfs"
<1>1. CASE specs = {} \/ \E s \in specs : ~s.linux
  BY <1>1 DEF GetContainerTask
<1>2. CASE ~(specs = {} \/ \E s \in specs : ~s.linux)
  <2>1. PICK spec \in specs : spec = CHOOSE s \in specs : TRUE
    BY <1>2
  <2>2. \A s \in specs : s = spec
    BY <2>1
  <2>3. /\ spec.cgroupsPath = "dockerfs" => t.res = "error"
        /\ spec.cgroupsPath # "dockerfs" => t.res = "ok"
    BY <1>2, <2>1 DEF GetContainerTask
  <2>4. QED
    BY <2>2, <2>3
<1>3. QED
  BY <1>1, <1>2

\* Which tasks cannot be told: none, or those of an ID that has such a path.
LEMMA UntoldIs ==
  ASSUME NEW root \in ContainerdEvidence, WellFormed(root),
         NEW criteria, NEW rooted \in BOOLEAN,
         ContainerdContainers(root, criteria, rooted).res = "ok",
         NEW k, NEW i, NEW id, RecordAt(root, id, k, i), NEW t,
         t = TaskOf(root, rooted, root.nss[k].ctrs[i])
  PROVE  t.res = "error" <=>
           \E s \in Stored(root, id).specs : s.cgroupsPath = "dockerfs"
<1> DEFINE first == Stored(root, id)
           c == root.nss[k].ctrs[i]
<1>1. k \in DOMAIN root.nss /\ i \in DOMAIN root.nss[k].ctrs /\ c.ok
      /\ c.id = id
  BY DEF RecordAt
<1>2. t.res # "panic"
  BY ONLY <1>1, NoPanic, root \in ContainerdEvidence,
          ContainerdContainers(root, criteria, rooted).res = "ok",
          t = TaskOf(root, rooted, root.nss[k].ctrs[i])
<1>3. RowTold(RowAt(root, criteria, rooted, k, i), root, criteria, rooted,
              k, i)
  BY ONLY <1>1, RowAtIs, root \in ContainerdEvidence, rooted \in BOOLEAN
<1>4. /\ first \in ContainerRecord /\ CgroupOf(first, rooted) \in CgroupFiles
      /\ InitOf(c, rooted) \in Int
  BY ONLY <1>1, <1>3 DEF RowTold
<1>5. t = GetContainerTask(first.specs, CgroupOf(first, rooted),
                           InitOf(c, rooted))
  BY <1>1 DEF TaskOf, CgroupOf, InitOf
<1>6. first.specs \in SUBSET Specification
  BY <1>4 DEF ContainerRecord
<1>7. \A s, u \in first.specs : s = u
  <2>1. FirstNs(root, id) # 0
    BY ONLY StoredIs, root \in ContainerdEvidence, RecordAt(root, id, k, i)
  <2>2. PICK j : /\ RecordAt(root, id, FirstNs(root, id), j)
                 /\ first = root.nss[FirstNs(root, id)].ctrs[j]
    BY ONLY <2>1, StoredIs, root \in ContainerdEvidence
  <2>3. PICK n \in ToSet(root.nss) : first \in ToSet(n.ctrs)
    BY <2>2 DEF RecordAt, ToSet
  <2>4. QED
    BY <2>3 DEF WellFormed
<1>8. t.res \in {"ok", "error", "panic"}
  <2>1. TaskFits(t, CgroupOf(first, rooted), InitOf(c, rooted))
    BY ONLY <1>4, <1>5, <1>6, TaskIs
  <2>2. QED
    BY <2>1 DEF TaskFits
<1>9. /\ t.res = "error" => \E s \in first.specs : s.cgroupsPath = "dockerfs"
      /\ t.res = "ok" => ~\E s \in first.specs : s.cgroupsPath = "dockerfs"
  BY ONLY <1>5, <1>7, Untold
<1>10. QED
  BY ONLY <1>2, <1>8, <1>9

\* Containers and tasks of containerd fit.
LEMMA ContainerdLists ==
  ASSUME CtlInv, Opened("containerd"),
         command.kind \in {"containers", "tasks"},
         NEW ids,
         command.kind = "containers" => \A id : Elsewhere(id) => id \in ids,
         NEW L, L = Listed("containerd")
  PROVE  Lists(L, "containerd", ids)
<1> DEFINE root == ContainerdDisk
           listed == ContainerdContainers(root, sc, Rooted)
<1>1. /\ listed \in Results(Rows)
      /\ listed.res = "ok" =>
           /\ Intact("containerd") /\ Ordered(listed.items, ids)
           /\ IDsIn(listed.items) = IDsOf("containerd")
      /\ listed.res = "error" => ~Intact("containerd")
  BY RecordsList
<1>2. ~Intact("containerd") => IDsOf("containerd") = {}
  BY DEF IDsOf
<1>3. CASE command.kind = "containers"
  <2>1. L = listed
    BY <1>3 DEF Listed, Containers
  <2>2. ListedBy("containerd") = IDsOf("containerd")
    BY <1>3 DEF ListedBy
  <2>3. QED
    BY <1>1, <1>2, <2>1, <2>2 DEF Lists
<1>4. CASE command.kind = "tasks"
  <2> DEFINE Untellables == \E id \in IDsOf("containerd") : Untellable(id)
             Untolds == \E k \in DOMAIN root.nss :
               \E i \in DOMAIN root.nss[k].ctrs :
                TaskOf(root, Rooted, root.nss[k].ctrs[i]).res = "error"
  <2>1. L = ContainerdTasks(root, sc, Rooted)
    BY <1>4 DEF Listed, Tasks
  <2>2. ListedBy("containerd") =
          IF ~Rooted \/ Untellables THEN {} ELSE IDsOf("containerd")
    BY <1>4 DEF ListedBy, TasksOf
  <2>3. Rooted \in BOOLEAN /\ root \in ContainerdEvidence /\ WellFormed(root)
    BY DiskTyped
  <2>4. ASSUME listed.res = "ok" PROVE Untolds <=> Untellables
    <3>1. ASSUME NEW k \in DOMAIN root.nss, NEW i \in DOMAIN root.nss[k].ctrs
          PROVE  LET c == root.nss[k].ctrs[i]
                 IN  /\ c.id \in IDsOf("containerd")
                     /\ TaskOf(root, Rooted, c).res = "error"
                        <=> Untellable(c.id)
      <4> DEFINE c == root.nss[k].ctrs[i]
      <4>1. PICK r \in Records : r[2] = c
        BY RecordsAre
      <4>2. Intact("containerd")
        BY <1>1, <2>4
      <4>3. c.ok /\ c.id \in IDsOf("containerd")
        BY <4>1, <4>2 DEF IDsOf, Intact
      <4>4. RecordAt(root, c.id, k, i)
        BY <4>3 DEF RecordAt
      <4>5. TaskOf(root, Rooted, c).res = "error" <=>
              \E s \in Stored(root, c.id).specs : s.cgroupsPath = "dockerfs"
        BY <2>3, <2>4, <4>4, UntoldIs
      <4>6. QED
        BY <4>3, <4>5 DEF Untellable
    <3>2. ASSUME NEW id \in IDsOf("containerd")
          PROVE  \E k \in DOMAIN root.nss : \E i \in DOMAIN root.nss[k].ctrs :
                   root.nss[k].ctrs[i].id = id
      <4>1. PICK r \in Records : id = r[2].id
        BY <3>2 DEF IDsOf
      <4>2. PICK k \in DOMAIN root.nss : \E i \in DOMAIN root.nss[k].ctrs :
              r[2] = root.nss[k].ctrs[i]
        BY RecordsAre
      <4>3. QED
        BY <4>1, <4>2
    <3> HIDE DEF root
    <3>3. QED
      BY <3>1, <3>2
  <2>5. CASE ~Rooted
    <3>1. L = Ok(<<>>)
      BY <2>1, <2>5 DEF ContainerdTasks
    <3>2. L \in Results(Rows) /\ L.res = "ok" /\ L.items = <<>>
      BY ONLY <3>1, OutcomesAre
    <3>3. <<>> \in Seq(Rows) /\ \A x \in ToSet(<<>>) : Fits(x)
      BY NothingIn, EmptySeq
    <3>4. Ordered(<<>>, ids)
      BY ONLY <3>3, FitInOrder
    <3>5. IDsIn(<<>>) = {}
      BY DEF IDsIn
    <3>6. QED
      BY <2>2, <2>5, <3>2, <3>4, <3>5 DEF Lists
  <2>6. CASE Rooted /\ listed.res = "ok" /\ Untolds
    <3>1. L = Failed
      BY <2>1, <2>6 DEF ContainerdTasks
    <3>2. L \in Results(Rows) /\ L.res = "error"
      BY ONLY <3>1, OutcomesAre
    <3>3. QED
      BY <2>2, <2>4, <2>6, <3>2 DEF Lists
  <2>7. CASE Rooted /\ ~(listed.res = "ok" /\ Untolds)
    <3>1. L = listed
      BY <2>1, <2>3, <2>7 DEF ContainerdTasks
    <3>2. QED
      BY <1>1, <1>2, <2>2, <2>4, <2>7, <3>1 DEF Lists
  <2>8. QED
    BY <2>3, <2>5, <2>6, <2>7
<1>5. QED
  BY <1>3, <1>4

-----------------------------------------------------------------------------
\* Images, contents, snapshots and namespaces

\* The rows of these that are not left out, as pairs of namespace and name.
LeftOut(support) ==
  /\ command.kind \in {"containers", "images"}
  /\ support /\ ~command.all /\ ~command.json
PairsIn(s) == {<<r.ns, r.id>> : r \in {r \in ToSet(s) : ~LeftOut(r.support)}}

\* Those that an engine can list.
PairsBy(e) ==
  IF command.kind = "images" THEN ImagesOf(e)
  ELSE IF e = "containerd" THEN Items ELSE {}

\* What the listing of an engine adds to these.
ListsPairs(L, e) ==
  /\ L \in Results(Pics)
  /\ L.res = "ok" => \A p : p \in PairsIn(L.items) <=> p \in PairsBy(e)
  /\ L.res = "error" => PairsBy(e) = {}

\* The rows of a sequence of names and of what goes with them.
Pictured(items, D, ns, id, support) ==
  /\ \A i \in D : /\ ns[i] \in Texts /\ id[i] \in Texts
                  /\ support[i] \in BOOLEAN
  /\ \A i \in D : \E type \in Texts :
                    items[i] = Image(type, ns[i], id[i], support[i])

HasPairs(items, D, ns, id, support) ==
  /\ items \in Seq(Pics)
  /\ \A p : p \in PairsIn(items) <=>
       \E i \in D : p = <<ns[i], id[i]>> /\ ~LeftOut(support[i])

\* What is in the row of an image.
LEMMA ImageIs ==
  ASSUME NEW type \in Texts, NEW ns \in Texts, NEW id \in Texts,
         NEW support \in BOOLEAN, NEW r, r = Image(type, ns, id, support)
  PROVE  r \in Pics /\ r.ns = ns /\ r.id = id /\ r.support = support
  BY DEF Image, Pics

\* The pairs of such rows.
LEMMA PairsAre ==
  ASSUME NEW S, NEW s \in Seq(S), NEW items, NEW ns, NEW id, NEW support,
         items = [i \in DOMAIN s |-> items[i]],
         Pictured(items, DOMAIN s, ns, id, support)
  PROVE  HasPairs(items, DOMAIN s, ns, id, support)
<1>1. \A i \in DOMAIN s : /\ items[i] \in Pics /\ items[i].ns = ns[i]
                          /\ items[i].id = id[i]
                             /\ items[i].support = support[i]
  <2> SUFFICES ASSUME NEW i \in DOMAIN s
               PROVE  /\ items[i] \in Pics /\ items[i].ns = ns[i]
                      /\ items[i].id = id[i] /\ items[i].support = support[i]
    OBVIOUS
  <2>1. /\ ns[i] \in Texts /\ id[i] \in Texts /\ support[i] \in BOOLEAN
        /\ \E type \in Texts : items[i] = Image(type, ns[i], id[i], support[i])
    BY DEF Pictured
  <2>2. QED
    BY ONLY <2>1, ImageIs
<1>2. items \in Seq(Pics) /\ DOMAIN items = DOMAIN s
  BY ONLY <1>1, SequenceOf, s \in Seq(S), items = [i \in DOMAIN s |-> items[i]]
<1>3. \A p : p \in PairsIn(items) <=>
        \E i \in DOMAIN s : p = <<items[i].ns, items[i].id>>
                              /\ ~LeftOut(items[i].support)
  BY <1>2 DEF PairsIn, ToSet
<1>4. QED
  BY <1>1, <1>2, <1>3 DEF HasPairs

\* The pairs of a collection are those of its parts.
LEMMA PairsCollected ==
  ASSUME NEW parts \in Seq(Results(Pics)), NEW L, L = Collect(parts)
  PROVE  /\ L \in Results(Pics)
         /\ L.res = "ok" <=> \A k \in DOMAIN parts : parts[k].res = "ok"
         /\ L.res = "error" => \E k \in DOMAIN parts : parts[k].res = "error"
         /\ L.res = "ok" =>
              \A p : p \in PairsIn(L.items) <=>
                       \E k \in DOMAIN parts : p \in PairsIn(parts[k].items)
<1>1. /\ L \in Results(Pics)
      /\ L.res = "ok" <=> \A k \in DOMAIN parts : parts[k].res = "ok"
      /\ L.res # "ok" => \E k \in DOMAIN parts : parts[k].res = L.res
      /\ L.res = "ok" =>
           ToSet(L.items) = UNION {ToSet(parts[k].items) : k \in DOMAIN parts}
  BY ONLY CollectIs, parts \in Seq(Results(Pics)), L = Collect(parts)
<1>2. ASSUME L.res = "ok", NEW p
      PROVE  p \in PairsIn(L.items) <=>
               \E k \in DOMAIN parts : p \in PairsIn(parts[k].items)
  <2>1. \A r : r \in ToSet(L.items) <=>
          \E k \in DOMAIN parts : r \in ToSet(parts[k].items)
    BY <1>1, <1>2
  <2>2. \A s : p \in PairsIn(s) <=>
          \E r \in ToSet(s) : p = <<r.ns, r.id>> /\ ~LeftOut(r.support)
    BY DEF PairsIn
  <2>3. QED
    BY ONLY <2>1, <2>2
<1>3. QED
  BY <1>1, <1>2

\* Names without a namespace.
HasNames(items, names) ==
  /\ items \in Seq(Pics)
  /\ \A p : p \in PairsIn(items) <=> \E n \in ToSet(names) : p = <<"", n>>

\* The rows of names have the pairs of these names.
LEMMA NamesPictured ==
  ASSUME NEW names \in Seq(STRING), NEW type \in {"docker", "podman"},
         NEW items,
         items = [i \in DOMAIN names |-> Image(type, "", names[i], FALSE)]
  PROVE  HasNames(items, names)
<1>1. \A i \in DOMAIN names : names[i] \in STRING
  BY LenProperties, ElementOfSeq
<1>2. PICK ns : ns = [i \in DOMAIN names |-> ""]
  OBVIOUS
<1>3. PICK support : support = [i \in DOMAIN names |-> FALSE]
  OBVIOUS
<1>4. type \in Texts
  BY DEF Texts
<1>5. \A i \in DOMAIN names : /\ ns[i] \in Texts /\ names[i] \in Texts
                              /\ ns[i] = "" /\ support[i] = FALSE
  BY <1>1, <1>2, <1>3 DEF Texts
<1>6. \A i \in DOMAIN names :
        items[i] = Image(type, ns[i], names[i], support[i])
  BY <1>5
<1>7. items = [i \in DOMAIN names |-> items[i]]
  OBVIOUS
<1>8. Pictured(items, DOMAIN names, ns, names, support)
  BY ONLY <1>4, <1>5, <1>6 DEF Pictured
<1>9. /\ items \in Seq(Pics)
      /\ \A p : p \in PairsIn(items) <=>
           \E i \in DOMAIN names : p = <<ns[i], names[i]>>
           /\ ~LeftOut(support[i])
  <2>1. HasPairs(items, DOMAIN names, ns, names, support)
    BY ONLY <1>7, <1>8, PairsAre, names \in Seq(STRING)
  <2>2. QED
    BY ONLY <2>1 DEF HasPairs
<1>10. ~LeftOut(FALSE)
  BY DEF LeftOut
<1>11. QED
  BY <1>5, <1>9, <1>10 DEF HasNames, ToSet

\* The names in a sequence of collections, of which some cannot be read.
LEMMA NamesFlattened ==
  ASSUME NEW S, NEW s \in Seq(S), NEW seqs,
         seqs = [i \in DOMAIN s |-> seqs[i]],
         \A i \in DOMAIN s : seqs[i] \in Seq(STRING)
  PROVE  /\ FlattenSeq(seqs) \in Seq(STRING)
         /\ \A n : n \in ToSet(FlattenSeq(seqs)) <=>
              \E i \in DOMAIN s : n \in ToSet(seqs[i])
<1>1. seqs \in Seq(Seq(STRING)) /\ DOMAIN seqs = DOMAIN s
  BY ONLY SequenceOf, s \in Seq(S), seqs = [i \in DOMAIN s |-> seqs[i]],
          \A i \in DOMAIN s : seqs[i] \in Seq(STRING)
<1>2. /\ FlattenSeq(seqs) \in Seq(STRING)
      /\ ToSet(FlattenSeq(seqs)) = UNION {ToSet(seqs[i]) : i \in DOMAIN seqs}
  BY ONLY <1>1, Flattened
<1>3. \A n : n \in UNION {ToSet(seqs[i]) : i \in DOMAIN seqs} <=>
        \E i \in DOMAIN s : n \in ToSet(seqs[i])
  BY <1>1
<1>4. QED
  BY <1>2, <1>3

\* The images of docker are those of its repositories.
LEMMA DockerPairs ==
  ASSUME CtlInv, Opened("docker"), command.kind = "images",
         NEW L, L = Listed("docker")
  PROVE  ListsPairs(L, "docker")
<1> DEFINE root == DockerDisk
           s == root.repositories
           seqs == [i \in DOMAIN s |-> IF s[i].ok THEN s[i].images ELSE <<>>]
           names == FlattenSeq(seqs)
           items == [i \in DOMAIN names |->
                     Image("docker", "", names[i], FALSE)]
<1>1. s \in Seq(ImageRepository) /\ root.imageDir \in BOOLEAN
  BY DiskTyped DEF DockerEvidence
<1>2. L = IF root.imageDir THEN Ok(items) ELSE Failed
  BY DEF Listed, Images, DockerImages
<1>3. PairsBy("docker") = ImagesOf("docker")
  BY DEF PairsBy
<1>4. \A p : p \in ImagesOf("docker") <=>
        root.imageDir /\ \E i \in DOMAIN s : s[i].ok
                            /\ \E n \in ToSet(s[i].images) : p = <<"", n>>
  <2>1. ImagesOf("docker") =
          IF ~root.imageDir THEN {}
          ELSE UNION {{<<"", n>> : n \in ToSet(r.images)} :
                        r \in {r \in ToSet(s) : r.ok}}
    BY DEF ImagesOf
  <2>2. \A x : (\E r \in ToSet(s) : r.ok
        /\ \E n \in ToSet(r.images) : x = <<"", n>>)
          <=> \E i \in DOMAIN s : s[i].ok
                /\ \E n \in ToSet(s[i].images) : x = <<"", n>>
    BY DEF ToSet
  <2> HIDE DEF root, s
  <2> DEFINE All == UNION {{<<"", n>> : n \in ToSet(r.images)} :
                             r \in {r \in ToSet(s) : r.ok}}
  <2>3. \A p : p \in All <=>
          \E r \in ToSet(s) : r.ok /\ \E n \in ToSet(r.images) : p = <<"", n>>
    <3>1. ASSUME NEW p \in All
          PROVE  \E r \in ToSet(s) :
                   r.ok /\ \E n \in ToSet(r.images) : p = <<"", n>>
      <4>1. PICK r \in {r \in ToSet(s) : r.ok} :
              p \in {<<"", n>> : n \in ToSet(r.images)}
        BY ONLY <3>1
      <4>2. QED
        BY ONLY <4>1
    <3>2. ASSUME NEW r \in ToSet(s), r.ok, NEW n \in ToSet(r.images)
          PROVE  <<"", n>> \in All
      <4>1. <<"", n>> \in {<<"", m>> : m \in ToSet(r.images)}
        BY ONLY <3>2
      <4>2. QED
        BY ONLY <3>2, <4>1
    <3>3. QED
      BY ONLY <3>1, <3>2
  <2> HIDE DEF All
  <2>4. ImagesOf("docker") = IF ~root.imageDir THEN {} ELSE All
    BY <2>1 DEF All
  <2>5. QED
    BY ONLY <2>2, <2>3, <2>4
<1> HIDE DEF root, s
<1>5. \A i \in DOMAIN s : s[i].images \in Seq(STRING) /\ s[i].ok \in BOOLEAN
  <2>1. \A i \in DOMAIN s : s[i] \in ImageRepository
    BY <1>1, LenProperties, ElementOfSeq
  <2>2. QED
    BY <2>1 DEF ImageRepository
<1>6. \A i \in DOMAIN s :
        /\ seqs[i] \in Seq(STRING)
        /\ \A n : n \in ToSet(seqs[i]) <=> s[i].ok /\ n \in ToSet(s[i].images)
  <2>1. <<>> \in Seq(STRING) /\ ToSet(<<>>) = {}
    BY NothingIn, EmptySeq
  <2>2. \A i \in DOMAIN s : seqs[i] = IF s[i].ok THEN s[i].images ELSE <<>>
    OBVIOUS
  <2> HIDE DEF seqs
  <2>3. QED
    BY ONLY <1>5, <2>1, <2>2
<1>7. seqs = [i \in DOMAIN s |-> seqs[i]]
  OBVIOUS
<1> HIDE DEF seqs
<1>8. /\ names \in Seq(STRING)
      /\ \A n : n \in ToSet(names) <=> \E i \in DOMAIN s : n \in ToSet(seqs[i])
  BY ONLY <1>1, <1>6, <1>7, NamesFlattened
<1>9. items = [i \in DOMAIN names |-> Image("docker", "", names[i], FALSE)]
  OBVIOUS
<1> HIDE DEF names, items
<1>10. /\ items \in Seq(Pics)
       /\ \A p : p \in PairsIn(items) <=> \E n \in ToSet(names) : p = <<"", n>>
  <2>1. HasNames(items, names)
    BY ONLY <1>8, <1>9, NamesPictured
  <2>2. QED
    BY ONLY <2>1 DEF HasNames
<1>11. CASE root.imageDir
  <2>1. L \in Results(Pics) /\ L.res = "ok" /\ L.items = items
    BY ONLY <1>2, <1>10, <1>11, OutcomesAre
  <2>2. \A p : p \in PairsIn(items) <=> p \in ImagesOf("docker")
    BY ONLY <1>4, <1>6, <1>8, <1>10, <1>11
  <2>3. QED
    BY <1>3, <2>1, <2>2 DEF ListsPairs
<1>12. CASE ~root.imageDir
  <2>1. L \in Results(Pics) /\ L.res = "error"
    BY ONLY <1>2, <1>12, OutcomesAre
  <2>2. ImagesOf("docker") = {}
    BY ONLY <1>4, <1>12
  <2>3. QED
    BY <1>3, <2>1, <2>2 DEF ListsPairs
<1>13. QED
  BY <1>1, <1>11, <1>12

\* The images of podman are those of its roots.
LEMMA PodmanPairs ==
  ASSUME CtlInv, Opened("podman"), command.kind = "images",
         NEW L, L = Listed("podman")
  PROVE  ListsPairs(L, "podman")
<1> DEFINE roots == disk.podman
           seqs == [r \in DOMAIN roots |->
                     IF roots[r].images.ok THEN roots[r].images.names
                     ELSE <<>>]
           names == FlattenSeq(seqs)
           items == [i \in DOMAIN names |->
                     Image("podman", "", names[i], FALSE)]
<1>1. roots \in Seq(PodmanEvidence)
  BY DiskTyped
<1>2. L = Ok(items)
  BY DEF Listed, Images, PodmanImages
<1>3. PairsBy("podman") = ImagesOf("podman")
  BY DEF PairsBy
<1>4. \A p : p \in ImagesOf("podman") <=>
        \E r \in DOMAIN roots : roots[r].images.ok
          /\ \E n \in ToSet(roots[r].images.names) : p = <<"", n>>
  <2>1. ImagesOf("podman") =
          UNION {{<<"", n>> : n \in ToSet(r.images.names)} :
                   r \in {r \in ToSet(roots) : r.images.ok}}
    BY DEF ImagesOf
  <2>2. \A x : (\E r \in ToSet(roots) : r.images.ok
                   /\ \E n \in ToSet(r.images.names) : x = <<"", n>>)
          <=> \E r \in DOMAIN roots : roots[r].images.ok
                /\ \E n \in ToSet(roots[r].images.names) : x = <<"", n>>
    BY ZenonT(40) DEF ToSet
  <2> HIDE DEF roots
  <2> DEFINE All == UNION {{<<"", n>> : n \in ToSet(r.images.names)} :
                             r \in {r \in ToSet(roots) : r.images.ok}}
  <2>3. \A p : p \in All <=>
          \E r \in ToSet(roots) : r.images.ok
                /\ \E n \in ToSet(r.images.names) : p = <<"", n>>
    <3>1. ASSUME NEW p \in All
          PROVE  \E r \in ToSet(roots) :
                   r.images.ok
                   /\ \E n \in ToSet(r.images.names) : p = <<"", n>>
      <4>1. PICK r \in {r \in ToSet(roots) : r.images.ok} :
              p \in {<<"", n>> : n \in ToSet(r.images.names)}
        BY ONLY <3>1
      <4>2. QED
        BY ONLY <4>1
    <3>2. ASSUME NEW r \in ToSet(roots), r.images.ok,
                 NEW n \in ToSet(r.images.names)
          PROVE  <<"", n>> \in All
      <4>1. <<"", n>> \in {<<"", m>> : m \in ToSet(r.images.names)}
        BY ONLY <3>2
      <4>2. QED
        BY ONLY <3>2, <4>1
    <3>3. QED
      BY ONLY <3>1, <3>2
  <2> HIDE DEF All
  <2>4. ImagesOf("podman") = All
    BY <2>1 DEF All
  <2>5. QED
    BY ONLY <2>2, <2>3, <2>4
<1> HIDE DEF roots
<1>5. \A r \in DOMAIN roots :
        roots[r].images.names \in Seq(STRING) /\ roots[r].images.ok \in BOOLEAN
  <2>1. \A r \in DOMAIN roots : roots[r].images \in ImageNames
    BY <1>1, PodmanTyped
  <2>2. QED
    BY <2>1 DEF ImageNames
<1>6. \A r \in DOMAIN roots :
        /\ seqs[r] \in Seq(STRING)
        /\ \A n : n \in ToSet(seqs[r]) <=>
                    roots[r].images.ok /\ n \in ToSet(roots[r].images.names)
  <2>1. <<>> \in Seq(STRING) /\ ToSet(<<>>) = {}
    BY NothingIn, EmptySeq
  <2>2. \A r \in DOMAIN roots :
          seqs[r] = IF roots[r].images.ok THEN roots[r].images.names ELSE <<>>
    OBVIOUS
  <2> HIDE DEF seqs
  <2>3. QED
    BY ONLY <1>5, <2>1, <2>2
<1>7. seqs = [r \in DOMAIN roots |-> seqs[r]]
  OBVIOUS
<1> HIDE DEF seqs
<1>8. /\ names \in Seq(STRING)
      /\ \A n : n \in ToSet(names)
         <=> \E r \in DOMAIN roots : n \in ToSet(seqs[r])
  BY ONLY <1>1, <1>6, <1>7, NamesFlattened
<1>9. items = [i \in DOMAIN names |-> Image("podman", "", names[i], FALSE)]
  OBVIOUS
<1> HIDE DEF names, items
<1>10. /\ items \in Seq(Pics)
       /\ \A p : p \in PairsIn(items) <=> \E n \in ToSet(names) : p = <<"", n>>
  <2>1. HasNames(items, names)
    BY ONLY <1>8, <1>9, NamesPictured
  <2>2. QED
    BY ONLY <2>1 DEF HasNames
<1>11. L \in Results(Pics) /\ L.res = "ok" /\ L.items = items
  BY ONLY <1>2, <1>10, OutcomesAre
<1>12. \A p : p \in PairsIn(items) <=> p \in ImagesOf("podman")
  BY ONLY <1>4, <1>6, <1>8, <1>10
<1>13. QED
  BY <1>3, <1>11, <1>12 DEF ListsPairs

\* A listing gives the pairs of a set, and fails only if it is damaged.
Gives(part, set, damaged) ==
  /\ part \in Results(Pics)
  /\ part.res = "ok" =>
       ~damaged /\ \A p : p \in PairsIn(part.items) <=> p \in set
  /\ part.res = "error" => damaged

\* The sets of all parts, and whether one is damaged.
Together(sets, D) == UNION {sets[k] : k \in D}
AnyOf(damaged, D) == \E k \in D : damaged[k]
PartsGive(parts, sets, damaged, D) ==
  /\ parts = [k \in D |-> parts[k]]
  /\ \A k \in D : Gives(parts[k], sets[k], damaged[k])

\* A collection of such listings gives what they give together.
LEMMA CollectedGives ==
  ASSUME NEW S, NEW s \in Seq(S), NEW parts, NEW sets, NEW damaged, NEW L,
         PartsGive(parts, sets, damaged, DOMAIN s), L = Collect(parts)
  PROVE  Gives(L, Together(sets, DOMAIN s), AnyOf(damaged, DOMAIN s))
<1> USE DEF PartsGive, Together, AnyOf
<1> DEFINE T == Results(Pics)
<1>1. \A k \in DOMAIN s : parts[k] \in T
  BY DEF Gives
<1>2. parts \in Seq(T) /\ DOMAIN parts = DOMAIN s
  <2> HIDE DEF T
  <2>1. QED
    BY ONLY <1>1, SequenceOf, s \in Seq(S),
            PartsGive(parts, sets, damaged, DOMAIN s)
<1>3. /\ L \in T
      /\ L.res = "ok" <=> \A k \in DOMAIN s : parts[k].res = "ok"
      /\ L.res = "error" => \E k \in DOMAIN s : parts[k].res = "error"
      /\ L.res = "ok" =>
           \A p : p \in PairsIn(L.items) <=>
                    \E k \in DOMAIN s : p \in PairsIn(parts[k].items)
  BY ONLY <1>2, PairsCollected, L = Collect(parts)
<1>4. ASSUME L.res = "ok"
      PROVE  /\ ~\E k \in DOMAIN s : damaged[k]
             /\ \A p : p \in PairsIn(L.items) <=>
                         p \in UNION {sets[k] : k \in DOMAIN s}
  <2>1. \A k \in DOMAIN s :
          ~damaged[k] /\ \A p : p \in PairsIn(parts[k].items) <=> p \in sets[k]
    BY <1>3, <1>4 DEF Gives
  <2>2. \A p : p \in PairsIn(L.items) <=> \E k \in DOMAIN s : p \in sets[k]
    BY ONLY <1>3, <1>4, <2>1
  <2>3. QED
    BY ONLY <2>1, <2>2
<1>5. L.res = "error" => \E k \in DOMAIN s : damaged[k]
  BY <1>3 DEF Gives
<1>6. QED
  BY ONLY <1>3, <1>4, <1>5 DEF Gives

\* What is in a namespace is typed.
LEMMA InNamespace ==
  ASSUME NEW root \in ContainerdEvidence, NEW k \in DOMAIN root.nss
  PROVE  LET n == root.nss[k]
         IN  /\ n.name \in Texts /\ n.readable \in BOOLEAN
             /\ n.images \in Seq(ImageName)
             /\ \A i \in DOMAIN n.images : n.images[i].repo \in Texts
             /\ n.blobs \in Seq(BlobRecord)
             /\ \A i \in DOMAIN n.blobs : n.blobs[i].digest \in Texts
             /\ n.snapshots \in Seq(SnapshotRecord)
             /\ \A i \in DOMAIN n.snapshots : n.snapshots[i].key \in Texts
<1> DEFINE n == root.nss[k]
<1>1. n \in NamespaceRecord
  BY ContainerdTyped
<1> HIDE DEF n
<1>2. /\ n.name \in STRING /\ n.readable \in BOOLEAN
      /\ n.images \in Seq(ImageName) /\ n.blobs \in Seq(BlobRecord)
      /\ n.snapshots \in Seq(SnapshotRecord)
  BY <1>1 DEF NamespaceRecord
<1>3. \A i \in DOMAIN n.images : n.images[i] \in ImageName
  BY <1>2, LenProperties, ElementOfSeq
<1>4. \A i \in DOMAIN n.blobs : n.blobs[i] \in BlobRecord
  BY <1>2, LenProperties, ElementOfSeq
<1>5. \A i \in DOMAIN n.snapshots : n.snapshots[i] \in SnapshotRecord
  BY <1>2, LenProperties, ElementOfSeq
<1>6. \A i \in DOMAIN n.images : n.images[i].repo \in STRING
  BY <1>3 DEF ImageName
<1>7. \A i \in DOMAIN n.blobs : n.blobs[i].digest \in STRING
  BY <1>4 DEF BlobRecord
<1>8. \A i \in DOMAIN n.snapshots : n.snapshots[i].key \in STRING
  BY <1>5 DEF SnapshotRecord
<1>9. \A x \in STRING : x \in Texts
  BY DEF Texts
<1>10. QED
  BY <1>2, <1>6, <1>7, <1>8, <1>9 DEF n

\* The rows of one namespace.
Named(name, id, support, D) ==
  {<<name, id[i]>> : i \in {i \in D : ~LeftOut(support[i])}}
ImagesIn(items, type, name, id, support, D) ==
  /\ \A i \in D : id[i] \in Texts /\ support[i] \in BOOLEAN
  /\ items = [i \in D |-> Image(type, name, id[i], support[i])]

\* The listing of one namespace gives its pairs.
LEMMA OneNamespace ==
  ASSUME NEW S, NEW s \in Seq(S), NEW type \in {"", "containerd"},
         NEW name \in Texts, NEW id, NEW support, NEW items,
         ImagesIn(items, type, name, id, support, DOMAIN s)
  PROVE  Gives(Ok(items), Named(name, id, support, DOMAIN s), FALSE)
<1> USE DEF ImagesIn
<1>1. PICK ns : ns = [i \in DOMAIN s |-> name]
  OBVIOUS
<1>2. type \in Texts
  BY DEF Texts
<1>3. \A i \in DOMAIN s : ns[i] = name
  BY <1>1
<1>4. \A i \in DOMAIN s : items[i] = Image(type, ns[i], id[i], support[i])
  BY <1>3
<1>5. Pictured(items, DOMAIN s, ns, id, support)
  BY <1>2, <1>3, <1>4 DEF Pictured
<1>6. items = [i \in DOMAIN s |-> items[i]]
  OBVIOUS
<1>7. /\ items \in Seq(Pics)
      /\ \A p : p \in PairsIn(items) <=>
           \E i \in DOMAIN s : p = <<ns[i], id[i]>> /\ ~LeftOut(support[i])
  <2>1. HasPairs(items, DOMAIN s, ns, id, support)
    BY ONLY <1>5, <1>6, PairsAre, s \in Seq(S)
  <2>2. QED
    BY ONLY <2>1 DEF HasPairs
<1>8. /\ Ok(items) \in Results(Pics) /\ Ok(items).res = "ok"
      /\ Ok(items).items = items
  BY ONLY <1>7, OutcomesAre
<1>9. \A p : p \in PairsIn(items) <=> p \in Named(name, id, support, DOMAIN s)
  BY ONLY <1>3, <1>7 DEF Named
<1>10. QED
  BY ONLY <1>8, <1>9 DEF Gives

\* What a listing gives is what it adds.
LEMMA GivesPairs ==
  ASSUME NEW L, NEW set, NEW damaged \in BOOLEAN,
         NEW e, Gives(L, set, damaged),
         PairsBy(e) = IF damaged THEN {} ELSE set
  PROVE  ListsPairs(L, e)
  BY DEF Gives, ListsPairs

\* A listing that goes through the namespaces of containerd.
LEMMA EachNamespace ==
  ASSUME CtlInv, Opened("containerd"), NEW parts, NEW sets, NEW damaged,
         NEW L, L = Collect(parts),
         PartsGive(parts, sets, damaged, DOMAIN ContainerdDisk.nss),
         PairsBy("containerd") =
           IF AnyOf(damaged, DOMAIN ContainerdDisk.nss) THEN {}
           ELSE Together(sets, DOMAIN ContainerdDisk.nss)
  PROVE  ListsPairs(L, "containerd")
<1>1. ContainerdDisk.nss \in Seq(NamespaceRecord)
  BY DiskTyped, ContainerdTyped
<1>2. PICK t \in Seq(NamespaceRecord) : t = ContainerdDisk.nss
  BY <1>1
<1>3. PartsGive(parts, sets, damaged, DOMAIN t)
  BY <1>2
<1>4. Gives(L, Together(sets, DOMAIN t), AnyOf(damaged, DOMAIN t))
  BY ONLY <1>3, CollectedGives, L = Collect(parts)
<1>5. AnyOf(damaged, DOMAIN t) \in BOOLEAN
  BY DEF AnyOf
<1>6. PairsBy("containerd") =
        IF AnyOf(damaged, DOMAIN t) THEN {} ELSE Together(sets, DOMAIN t)
  BY <1>2
<1>7. QED
  BY ONLY <1>4, <1>5, <1>6, GivesPairs

\* The images of containerd, where none is damaged.
LEMMA ContainerdImagesAre ==
  ASSUME CtlInv, Opened("containerd"), command.kind = "images",
         NEW L, L = Listed("containerd")
  PROVE  ListsPairs(L, "containerd")
<1> DEFINE root == ContainerdDisk
           s == root.nss
           D == DOMAIN s
           Support(n) == [i \in DOMAIN n.images |->
                           SupportContainerImage(sc, n.images[i])]
           IDs(n) == [i \in DOMAIN n.images |-> n.images[i].repo]
           Pic(n) == [i \in DOMAIN n.images |->
                       Image("containerd", n.name, n.images[i].repo,
                             SupportContainerImage(sc, n.images[i]))]
           Set(n) == Named(n.name, IDs(n), Support(n), DOMAIN n.images)
           Of(n) == {<<n.name, i.repo>> :
                       i \in {i \in ToSet(n.images) :
                         SupportContainerImage(sc, i)
                           => command.all \/ command.json}}
           parts == [k \in D |-> IF ~s[k].readable THEN Failed
                              ELSE Ok(Pic(s[k]))]
           sets == [k \in D |-> Set(s[k])]
           damaged == [k \in D |-> ~s[k].readable]
<1>1. root \in ContainerdEvidence
  BY DiskTyped
<1>2. s \in Seq(NamespaceRecord)
  BY <1>1, ContainerdTyped
<1>3. L = Collect(parts)
  BY DEF Listed, Images, ContainerdImages
<1>4. \A k \in D :
        /\ parts[k] = (IF ~s[k].readable THEN Failed ELSE Ok(Pic(s[k])))
        /\ sets[k] = Set(s[k]) /\ (damaged[k] <=> ~s[k].readable)
  OBVIOUS
<1>5. parts = [k \in D |-> parts[k]]
  OBVIOUS
<1>6. PairsBy("containerd") =
        IF \E n \in ToSet(s) : ~n.readable THEN {}
        ELSE UNION {Of(n) : n \in ToSet(s)}
  BY DEF PairsBy, ImagesOf
<1> HIDE DEF parts, sets, damaged
<1>7. ASSUME NEW k \in D
      PROVE  Gives(parts[k], sets[k], damaged[k]) /\ sets[k] = Of(s[k])
  <2>1. PICK n : n = s[k]
    OBVIOUS
  <2>2. /\ n.name \in Texts /\ n.readable \in BOOLEAN
        /\ n.images \in Seq(ImageName)
        /\ \A i \in DOMAIN n.images : n.images[i].repo \in Texts
    BY <1>1, <2>1, InNamespace
  <2>3. \A i \in DOMAIN n.images : Support(n)[i] \in BOOLEAN
    BY DEF SupportContainerImage
  <2>4. \A i \in DOMAIN n.images : IDs(n)[i] \in Texts
    BY <2>2
  <2>5. Pic(n) = [i \in DOMAIN n.images |->
                   Image("containerd", n.name, IDs(n)[i], Support(n)[i])]
    OBVIOUS
  <2>6. Set(n) = Of(n)
    BY DEF Named, LeftOut, ToSet
  <2>7. PICK type \in {"", "containerd"} : type = "containerd"
    OBVIOUS
  <2> HIDE DEF s, D, Support, IDs, Pic, Of
  <2>8. ImagesIn(Pic(n), type, n.name, IDs(n), Support(n), DOMAIN n.images)
    BY ONLY <2>3, <2>4, <2>5, <2>7 DEF ImagesIn
  <2>9. Gives(Ok(Pic(n)), Set(n), FALSE)
    BY ONLY <2>2, <2>8, OneNamespace
  <2>10. Failed \in Results(Pics) /\ Failed.res = "error"
    BY OutcomesAre
  <2>11. Gives(parts[k], sets[k], damaged[k])
    BY ONLY <1>4, <1>7, <2>1, <2>2, <2>9, <2>10 DEF Gives
  <2>12. QED
    BY <1>4, <1>7, <2>1, <2>6, <2>11
<1> HIDE DEF Set, Of
<1>8. PartsGive(parts, sets, damaged, D)
  BY ONLY <1>5, <1>7 DEF PartsGive
<1>9. \A k \in D : sets[k] = Of(s[k]) /\ (damaged[k] <=> ~s[k].readable)
  BY <1>4, <1>7
<1>10. PairsBy("containerd") =
         IF AnyOf(damaged, D) THEN {} ELSE Together(sets, D)
  <2>1. AnyOf(damaged, D) <=> \E n \in ToSet(s) : ~n.readable
    BY <1>9 DEF AnyOf, ToSet
  <2>2. Together(sets, D) = UNION {Of(n) : n \in ToSet(s)}
    BY <1>9 DEF Together, ToSet
  <2>3. QED
    BY ONLY <1>6, <2>1, <2>2
<1>11. QED
  BY ONLY <1>3, <1>8, <1>10, EachNamespace, CtlInv, Opened("containerd")

\* The contents of containerd, where none is damaged.
LEMMA ContainerdContentsAre ==
  ASSUME CtlInv, Opened("containerd"), command.kind = "contents",
         NEW L, L = Listed("containerd")
  PROVE  ListsPairs(L, "containerd")
<1> DEFINE root == ContainerdDisk
           s == root.nss
           D == DOMAIN s
           Bad(n) == \E i \in DOMAIN n.blobs : ~n.blobs[i].ok
           IDs(n) == [i \in DOMAIN n.blobs |-> n.blobs[i].digest]
           Pic(n) == [i \in DOMAIN n.blobs |->
                       Image("", n.name, n.blobs[i].digest, FALSE)]
           Support(n) == [i \in DOMAIN n.blobs |-> FALSE]
           Set(n) == Named(n.name, IDs(n), Support(n), DOMAIN n.blobs)
           Of(n) == {<<n.name, i>> : i \in {b.digest : b \in ToSet(n.blobs)}}
           parts == [k \in D |-> IF Bad(s[k]) THEN Failed ELSE Ok(Pic(s[k]))]
           sets == [k \in D |-> Set(s[k])]
           damaged == [k \in D |-> Bad(s[k])]
<1>1. root \in ContainerdEvidence
  BY DiskTyped
<1>2. s \in Seq(NamespaceRecord)
  BY <1>1, ContainerdTyped
<1>3. L = Collect(parts)
  BY DEF Listed, ContainerdContents, ListKinds
<1>4. \A k \in D :
        /\ parts[k] = (IF Bad(s[k]) THEN Failed ELSE Ok(Pic(s[k])))
        /\ sets[k] = Set(s[k]) /\ (damaged[k] <=> Bad(s[k]))
  OBVIOUS
<1>5. parts = [k \in D |-> parts[k]]
  OBVIOUS
<1>6. PairsBy("containerd") =
        IF \E n \in ToSet(s) : Bad(n) THEN {}
        ELSE UNION {Of(n) : n \in ToSet(s)}
  <2>1. \A n : (\E b \in ToSet(n.blobs) : ~b.ok) <=> Bad(n)
    BY DEF ToSet
  <2>2. \A n : {<<n.name, i>> : i \in ItemsOf(n)} = Of(n)
    BY DEF ItemsOf
  <2>3. PairsBy("containerd") =
          IF \E n \in ToSet(s) : \E b \in ToSet(n.blobs) : ~b.ok THEN {}
          ELSE UNION {{<<n.name, i>> : i \in ItemsOf(n)} : n \in ToSet(s)}
    BY DEF PairsBy, Items
  <2> HIDE DEF s, Bad, Of
  <2>4. UNION {{<<n.name, i>> : i \in ItemsOf(n)} : n \in ToSet(s)} =
          UNION {Of(n) : n \in ToSet(s)}
    BY ONLY <2>2
  <2>5. QED
    BY ONLY <2>1, <2>3, <2>4
<1> HIDE DEF parts, sets, damaged
<1>7. ASSUME NEW k \in D
      PROVE  Gives(parts[k], sets[k], damaged[k]) /\ sets[k] = Of(s[k])
  <2>1. PICK n : n = s[k]
    OBVIOUS
  <2>2. /\ n.name \in Texts /\ n.blobs \in Seq(BlobRecord)
        /\ \A i \in DOMAIN n.blobs : n.blobs[i].digest \in Texts
    BY <1>1, <2>1, InNamespace
  <2>3. \A i \in DOMAIN n.blobs : Support(n)[i] \in BOOLEAN
    OBVIOUS
  <2>4. \A i \in DOMAIN n.blobs : IDs(n)[i] \in Texts
    BY <2>2
  <2>5. Pic(n) = [i \in DOMAIN n.blobs |->
                   Image("", n.name, IDs(n)[i], Support(n)[i])]
    OBVIOUS
  <2>6. Set(n) = Of(n)
    BY DEF Named, LeftOut, ToSet
  <2>7. PICK type \in {"", "containerd"} : type = ""
    OBVIOUS
  <2>8. Bad(n) \in BOOLEAN
    OBVIOUS
  <2> HIDE DEF s, D, Bad, Support, IDs, Pic, Of
  <2>9. ImagesIn(Pic(n), type, n.name, IDs(n), Support(n), DOMAIN n.blobs)
    BY ONLY <2>3, <2>4, <2>5, <2>7 DEF ImagesIn
  <2>10. Gives(Ok(Pic(n)), Set(n), FALSE)
    BY ONLY <2>2, <2>9, OneNamespace
  <2>11. Failed \in Results(Pics) /\ Failed.res = "error"
    BY OutcomesAre
  <2>12. Gives(parts[k], sets[k], damaged[k])
    BY ONLY <1>4, <1>7, <2>1, <2>8, <2>10, <2>11 DEF Gives
  <2>13. QED
    BY <1>4, <1>7, <2>1, <2>6, <2>12
<1> HIDE DEF Set, Of, Bad
<1>8. PartsGive(parts, sets, damaged, D)
  BY ONLY <1>5, <1>7 DEF PartsGive
<1>9. \A k \in D : sets[k] = Of(s[k]) /\ (damaged[k] <=> Bad(s[k]))
  BY <1>4, <1>7
<1>10. PairsBy("containerd") =
         IF AnyOf(damaged, D) THEN {} ELSE Together(sets, D)
  BY <1>6, <1>9 DEF AnyOf, Together, ToSet
<1>11. QED
  BY ONLY <1>3, <1>8, <1>10, EachNamespace, CtlInv, Opened("containerd")

\* The row of one name.
LEMMA OneImage ==
  ASSUME NEW type \in {"", "containerd"}, NEW name \in Texts, NEW id \in Texts
  PROVE  Gives(Ok(<<Image(type, name, id, FALSE)>>), {<<name, id>>}, FALSE)
<1>1. type \in Texts
  BY DEF Texts
<1>2. PICK r : r = Image(type, name, id, FALSE)
  OBVIOUS
<1>3. r \in Pics /\ r.ns = name /\ r.id = id /\ r.support = FALSE
  <2>1. PICK support \in BOOLEAN : support = FALSE
    OBVIOUS
  <2>2. r = Image(type, name, id, support)
    BY ONLY <1>2, <2>1
  <2>3. /\ r \in Pics /\ r.ns = name /\ r.id = id /\ r.support = support
    BY ONLY <1>1, <2>2, name \in Texts, id \in Texts,
            support \in BOOLEAN DEF Image, Pics
  <2>4. QED
    BY <2>1, <2>3
<1>4. <<r>> \in Seq(Pics) /\ ToSet(<<r>>) = {r}
  BY ONLY <1>3, OutcomesAre
<1>5. /\ Ok(<<r>>) \in Results(Pics) /\ Ok(<<r>>).res = "ok"
      /\ Ok(<<r>>).items = <<r>>
  BY ONLY <1>4, OutcomesAre
<1>6. \A p : p \in PairsIn(<<r>>) <=> p \in {<<name, id>>}
  <2>1. ~LeftOut(FALSE)
    BY DEF LeftOut
  <2>2. QED
    BY ONLY <1>3, <1>4, <2>1 DEF PairsIn
<1>7. QED
  BY ONLY <1>2, <1>5, <1>6 DEF Gives

\* The snapshots of containerd, where none is damaged.
LEMMA ContainerdSnapshotsAre ==
  ASSUME CtlInv, Opened("containerd"), command.kind = "snapshots",
         NEW L, L = Listed("containerd")
  PROVE  ListsPairs(L, "containerd")
<1> DEFINE root == ContainerdDisk
           s == root.nss
           D == DOMAIN s
           Odd(x) == root.ssdb = "ok" /\ x.overlay = "odd"
           Bad(n) == \E i \in DOMAIN n.snapshots : Odd(n.snapshots[i])
           Part(n) == [i \in DOMAIN n.snapshots |->
                        ContainerdSnapshot(root, n.name, n.snapshots[i])]
           Set(n) == [i \in DOMAIN n.snapshots |->
                      {<<n.name, n.snapshots[i].key>>}]
           Worn(n) == [i \in DOMAIN n.snapshots |-> Odd(n.snapshots[i])]
           Of(n) == {<<n.name, i>> : i \in {x.key : x \in ToSet(n.snapshots)}}
           parts == [k \in D |-> Collect(Part(s[k]))]
           sets == [k \in D |-> Together(Set(s[k]), DOMAIN s[k].snapshots)]
           damaged == [k \in D |-> AnyOf(Worn(s[k]), DOMAIN s[k].snapshots)]
<1>1. root \in ContainerdEvidence
  BY DiskTyped
<1>2. s \in Seq(NamespaceRecord)
  BY <1>1, ContainerdTyped
<1>3. L = Collect(parts)
  BY DEF Listed, ContainerdSnapshots, ListKinds
<1>4. \A k \in D :
        /\ parts[k] = Collect(Part(s[k]))
        /\ sets[k] = Together(Set(s[k]), DOMAIN s[k].snapshots)
        /\ damaged[k] = AnyOf(Worn(s[k]), DOMAIN s[k].snapshots)
  OBVIOUS
<1>5. parts = [k \in D |-> parts[k]]
  OBVIOUS
<1>6. PairsBy("containerd") =
        IF \E n \in ToSet(s) : Bad(n) THEN {}
        ELSE UNION {Of(n) : n \in ToSet(s)}
  <2>1. \A n : Bad(n) <=> root.ssdb = "ok" /\ \E x \in ToSet(n.snapshots) :
                                                x.overlay = "odd"
    BY DEF ToSet
  <2>2. \A n : {<<n.name, i>> : i \in ItemsOf(n)} = Of(n)
    BY DEF ItemsOf
  <2>3. PairsBy("containerd") =
          IF \E n \in ToSet(s) : /\ root.ssdb = "ok"
                                 /\ \E x \in ToSet(n.snapshots) :
                                      x.overlay = "odd"
          THEN {}
          ELSE UNION {{<<n.name, i>> : i \in ItemsOf(n)} : n \in ToSet(s)}
    BY DEF PairsBy, Items
  <2> HIDE DEF s, Bad, Of
  <2>4. UNION {{<<n.name, i>> : i \in ItemsOf(n)} : n \in ToSet(s)} =
          UNION {Of(n) : n \in ToSet(s)}
    BY ONLY <2>2
  <2>5. QED
    BY ONLY <2>1, <2>3, <2>4
<1> HIDE DEF parts, sets, damaged
<1>7. ASSUME NEW k \in D
      PROVE  /\ Gives(parts[k], sets[k], damaged[k])
             /\ sets[k] = Of(s[k]) /\ (damaged[k] <=> Bad(s[k]))
  <2>1. PICK n : n = s[k]
    OBVIOUS
  <2>2. /\ n.name \in Texts /\ n.snapshots \in Seq(SnapshotRecord)
        /\ \A i \in DOMAIN n.snapshots : n.snapshots[i].key \in Texts
    BY <1>1, <2>1, InNamespace
  <2>3. Together(Set(n), DOMAIN n.snapshots) = Of(n)
    BY DEF Together, ToSet
  <2>4. AnyOf(Worn(n), DOMAIN n.snapshots) <=> Bad(n)
    BY DEF AnyOf
  <2>5. PICK type \in {"", "containerd"} : type = "containerd"
    OBVIOUS
  <2>6. ASSUME NEW i \in DOMAIN n.snapshots
        PROVE  Gives(Part(n)[i], Set(n)[i], Worn(n)[i])
    <3> DEFINE x == n.snapshots[i]
               part == Part(n)[i]
    <3>1. /\ Set(n)[i] = {<<n.name, x.key>>}
          /\ Worn(n)[i] <=> Odd(x)
          /\ part = ContainerdSnapshot(root, n.name, x)
      OBVIOUS
    <3>2. \/ Odd(x) /\ part = Failed
          \/ part = Panics
          \/ ~Odd(x) /\ part = Ok(<<Image(type, n.name, x.key, FALSE)>>)
      BY <2>5 DEF ContainerdSnapshot
    <3>3. Gives(Ok(<<Image(type, n.name, x.key, FALSE)>>), {<<n.name, x.key>>},
                FALSE)
      BY <2>2, OneImage
    <3>4. /\ Failed \in Results(Pics) /\ Failed.res = "error"
          /\ Panics \in Results(Pics) /\ Panics.res = "panic"
      BY OutcomesAre
    <3> HIDE DEF Odd, x, part, Part, Set, Worn
    <3>5. Gives(part, Set(n)[i], Worn(n)[i])
      BY ONLY <3>1, <3>2, <3>3, <3>4 DEF Gives
    <3>6. QED
      BY <3>5 DEF part
  <2>7. Part(n) = [i \in DOMAIN n.snapshots |-> Part(n)[i]]
    OBVIOUS
  <2> HIDE DEF s, D, Odd, Bad, Part, Set, Worn, Of
  <2>8. PartsGive(Part(n), Set(n), Worn(n), DOMAIN n.snapshots)
    BY ONLY <2>6, <2>7 DEF PartsGive
  <2>9. PICK c : c = Collect(Part(n))
    OBVIOUS
  <2>10. Gives(c, Together(Set(n), DOMAIN n.snapshots),
               AnyOf(Worn(n), DOMAIN n.snapshots))
    BY ONLY <2>2, <2>8, <2>9, CollectedGives
  <2>11. Gives(parts[k], sets[k], damaged[k])
    BY <1>4, <1>7, <2>1, <2>9, <2>10
  <2>12. QED
    BY <1>4, <1>7, <2>1, <2>3, <2>4, <2>11
<1> HIDE DEF Set, Of, Bad
<1>8. PartsGive(parts, sets, damaged, D)
  BY ONLY <1>5, <1>7 DEF PartsGive
<1>9. \A k \in D : sets[k] = Of(s[k]) /\ (damaged[k] <=> Bad(s[k]))
  BY <1>7
<1>10. PairsBy("containerd") =
         IF AnyOf(damaged, D) THEN {} ELSE Together(sets, D)
  BY <1>6, <1>9 DEF AnyOf, Together, ToSet
<1>11. QED
  BY ONLY <1>3, <1>8, <1>10, EachNamespace, CtlInv, Opened("containerd")

\* The namespaces of containerd.
LEMMA ContainerdNamespacesAre ==
  ASSUME CtlInv, Opened("containerd"), command.kind = "namespaces",
         NEW L, L = Listed("containerd")
  PROVE  ListsPairs(L, "containerd")
<1> DEFINE root == ContainerdDisk
           s == root.nss
           ns == [k \in DOMAIN s |-> s[k].name]
           support == [k \in DOMAIN s |-> FALSE]
           items == [k \in DOMAIN s |->
                      Image("containerd", s[k].name, s[k].name, FALSE)]
<1>1. root \in ContainerdEvidence
  BY DiskTyped
<1>2. s \in Seq(NamespaceRecord)
  BY <1>1, ContainerdTyped
<1>3. L = Ok(items)
  BY DEF Listed, ListKinds
<1>4. \A k \in DOMAIN s : ns[k] \in Texts /\ support[k] = FALSE
  BY <1>1, InNamespace
<1>5. "containerd" \in Texts
  BY DEF Texts
<1>6. \A k \in DOMAIN s :
        items[k] = Image("containerd", ns[k], ns[k], support[k])
  OBVIOUS
<1>7. items = [k \in DOMAIN s |-> items[k]]
  OBVIOUS
<1>8. \A p : p \in PairsBy("containerd")
      <=> \E k \in DOMAIN s : p = <<ns[k], ns[k]>>
  <2>1. \A n : {<<n.name, i>> : i \in ItemsOf(n)} = {<<n.name, n.name>>}
    BY DEF ItemsOf
  <2>2. PairsBy("containerd") =
          UNION {{<<n.name, i>> : i \in ItemsOf(n)} : n \in ToSet(s)}
    BY DEF PairsBy, Items
  <2>3. PairsBy("containerd") = {<<n.name, n.name>> : n \in ToSet(s)}
    BY ONLY <2>1, <2>2
  <2>4. QED
    BY ONLY <2>3 DEF ToSet
<1> HIDE DEF ns, support, items
<1>9. Pictured(items, DOMAIN s, ns, ns, support)
  BY ONLY <1>4, <1>5, <1>6 DEF Pictured
<1>10. HasPairs(items, DOMAIN s, ns, ns, support)
  <2> HIDE DEF s
  <2>1. QED
    BY ONLY <1>2, <1>7, <1>9, PairsAre
<1>11. ~LeftOut(FALSE)
  BY DEF LeftOut
<1>12. /\ items \in Seq(Pics)
       /\ \A p : p \in PairsIn(items) <=> p \in PairsBy("containerd")
  BY ONLY <1>4, <1>8, <1>10, <1>11 DEF HasPairs
<1>13. L \in Results(Pics) /\ L.res = "ok" /\ L.items = items
  BY ONLY <1>3, <1>12, OutcomesAre
<1>14. QED
  BY ONLY <1>12, <1>13 DEF ListsPairs

\* What docker and podman do not have is listed as nothing.
LEMMA NothingListed ==
  ASSUME NEW e \in {"docker", "podman"},
         command.kind \in {"contents", "snapshots", "namespaces"},
         NEW L, L = Listed(e)
  PROVE  ListsPairs(L, e)
<1>1. L = Ok(<<>>) /\ PairsBy(e) = {}
  BY DEF Listed, PairsBy, ListKinds
<1>2. /\ <<>> \in Seq(Pics) /\ ToSet(<<>>) = {}
      /\ L \in Results(Pics) /\ L.res = "ok" /\ L.items = <<>>
  <2>1. <<>> \in Seq(Pics) /\ ToSet(<<>>) = {}
    BY OutcomesAre
  <2>2. QED
    BY ONLY <1>1, <2>1, OutcomesAre
<1>3. \A p : p \notin PairsIn(<<>>)
  BY ONLY <1>2 DEF PairsIn
<1>4. QED
  BY ONLY <1>1, <1>2, <1>3 DEF ListsPairs

\* Containers and tasks, whatever the engine.
LEMMA RowsListed ==
  ASSUME CtlInv, NEW e \in Engines, Opened(e),
         command.kind \in {"containers", "tasks"}, NEW ids,
         e = "containerd" /\ command.kind = "containers" =>
           \A id : Elsewhere(id) => id \in ids,
         NEW L, L = Listed(e)
  PROVE  Lists(L, e, ids)
<1>1. CASE e = "docker"
  BY <1>1, DockerLists
<1>2. CASE e = "podman" /\ command.kind = "containers"
  BY <1>2, PodmanListsContainers
<1>3. CASE e = "podman" /\ command.kind = "tasks"
  BY <1>3, PodmanListsTasks
<1>4. CASE e = "containerd"
  BY <1>4, ContainerdLists
<1>5. QED
  BY <1>1, <1>2, <1>3, <1>4 DEF Engines

\* The other kinds, whatever the engine.
PairKinds == {"images", "contents", "snapshots", "namespaces"}

\* Images, contents, snapshots and namespaces are listed with their pairs.
LEMMA PairsListed ==
  ASSUME CtlInv, NEW e \in Engines, Opened(e), command.kind \in PairKinds,
         NEW L, L = Listed(e)
  PROVE  ListsPairs(L, e)
<1>1. CASE command.kind = "images"
  BY <1>1, DockerPairs, PodmanPairs, ContainerdImagesAre DEF Engines
<1>2. CASE command.kind # "images" /\ e \in {"docker", "podman"}
  BY <1>2, NothingListed DEF PairKinds
<1>3. CASE command.kind # "images" /\ e = "containerd"
  BY <1>3, ContainerdContentsAre, ContainerdSnapshotsAre,
     ContainerdNamespacesAre DEF PairKinds
<1>4. QED
  BY <1>1, <1>2, <1>3 DEF Engines

-----------------------------------------------------------------------------
\* The rows of the explorers that have been asked

RowKinds == {"containers", "tasks"}

\* s has the IDs, or the pairs, of the engines es.
AllIDs(s, es) == \A id : id \in IDsIn(s) <=> \E e \in es : id \in ListedBy(e)
AllPairs(s, es) == \A p : p \in PairsIn(s) <=> \E e \in es : p \in PairsBy(e)

RowsInv ==
  /\ pc \notin Opening /\ command.kind \in RowKinds =>
       Sound(rows) /\ (result # "panic" => AllIDs(rows, Asked))
  /\ pc \notin Opening /\ command.kind \in PairKinds =>
       rows \in Seq(Pics) /\ (result # "panic" => AllPairs(rows, Asked))
  /\ ListsExactly

\* The images of containerd are those of its namespaces.
ImagesAt(n) ==
  {<<n.name, i.repo>> :
     i \in {i \in ToSet(n.images) :
       SupportContainerImage(sc, i) => command.all \/ command.json}}
ImagesHere(e) ==
  CASE ~Opened(e) -> {}
    [] Opened(e) /\ e = "docker" ->
         IF ~DockerDisk.imageDir THEN {}
         ELSE UNION {{<<"", i>> : i \in ToSet(r.images)} :
                r \in {r \in ToSet(DockerDisk.repositories) : r.ok}}
    [] Opened(e) /\ e = "podman" ->
         UNION {{<<"", i>> : i \in ToSet(r.images.names)} :
                  r \in {r \in ToSet(disk.podman) : r.images.ok}}
    [] OTHER ->
         IF \E n \in ToSet(ContainerdDisk.nss) : ~n.readable THEN {}
         ELSE UNION {ImagesAt(n) : n \in ToSet(ContainerdDisk.nss)}

\* The images of an engine, with those of a namespace by name.
LEMMA ImagesAre == \A e : ImagesOf(e) = ImagesHere(e)
BY DEF ImagesOf, ImagesHere, ImagesAt

\* What a list that is printed has, whichever rows these are.
Listing(V) ==
  LET ids == {r.id : r \in V}
      pairs == {<<r.ns, r.id>> : r \in V}
  IN  CASE command.kind = "containers" ->
             /\ ids = {id \in AllOf(IDsOf) : Wanted(id)}
             /\ \A r, s \in V : r.id = s.id => r = s
        [] command.kind = "tasks" ->
             /\ ids = AllOf(TasksOf)
             /\ \A r, s \in V : r.id = s.id => r = s
        [] command.kind = "images" -> pairs = AllOf(ImagesOf)
        [] OTHER -> pairs = Items

\* What ListsExactly says is about the rows that are shown.
LEMMA ExactlyIs ==
  ListsExactly <=>
    (result = "ok" /\ command.kind \in ListKinds => Listing(shown))
BY DEF ListsExactly, Listing

\* What a row may say is said by what stays.
LEMMA SameFits ==
  ASSUME UNCHANGED <<given, config, opened>>
  PROVE  /\ \A s : Sound(s)' <=> Sound(s)
         /\ \A s, es : AllIDs(s, es)' <=> AllIDs(s, es)
         /\ \A s, es : AllPairs(s, es)' <=> AllPairs(s, es)
         /\ \A V : Listing(V)' <=> Listing(V)
         /\ UNCHANGED <<shown, result>> => (ListsExactly' <=> ListsExactly)
<1>1. /\ UNCHANGED <<flags, disk, command, opened>>
      /\ UNCHANGED <<dockerRoot, containerdRoot, sc>>
  BY DEF given, config
<1>2. \A e : Opened(e)' = Opened(e)
  BY <1>1 DEF Opened
<1>3. DockerDisk' = DockerDisk /\ ContainerdDisk' = ContainerdDisk
  BY <1>1 DEF DockerDisk, ContainerdDisk
<1>4. Records' = Records /\ Rooted' = Rooted
  BY <1>1, <1>3 DEF Records, Rooted
<1>5. \A e : IDsOf(e)' = IDsOf(e)
  BY <1>1, <1>2, <1>3, <1>4 DEF IDsOf, Intact, PodmanRoots, Entries
<1>6. \A e : TasksOf(e)' = TasksOf(e)
  BY <1>1, <1>2, <1>3, <1>4, <1>5 DEF TasksOf, Untellable
<1>7. \A e : ImagesOf(e)' = ImagesOf(e)
  <2>1. \A n : ImagesAt(n)' = ImagesAt(n)
    BY <1>1 DEF ImagesAt
  <2>2. (\A e : ImagesOf(e) = ImagesHere(e))'
    BY ImagesAre, PTL
  <2>3. \A e : ImagesHere(e)' = ImagesHere(e)
    BY <1>1, <1>2, <1>3, <2>1 DEF ImagesHere
  <2>4. QED
    BY <2>2, <2>3, ImagesAre
<1>8. Items' = Items
  <2>1. \A n : ItemsOf(n)' = ItemsOf(n)
    BY <1>1 DEF ItemsOf
  <2>2. QED
    BY <1>1, <1>2, <1>3, <2>1 DEF Items
<1>9. \A id : Wanted(id)' = Wanted(id)
  BY <1>1, <1>3, <1>5 DEF Wanted
<1>10. \A e : ListedBy(e)' = ListedBy(e) /\ PairsBy(e)' = PairsBy(e)
  BY <1>1, <1>5, <1>6, <1>7, <1>8 DEF ListedBy, PairsBy
<1>11. \A s : PairsIn(s)' = PairsIn(s)
  BY <1>1 DEF PairsIn, LeftOut
<1>12. \A id : /\ Configs(id)' = Configs(id) /\ Stores(id)' = Stores(id)
               /\ States(id)' = States(id)
  BY <1>1, <1>2, <1>3 DEF Configs, Stores, States
<1>13. \A r : Fits(r)' <=> Fits(r)
  <2>1. \A id, status : StatusFits(id, status)' <=> StatusFits(id, status)
    BY <1>4, <1>12 DEF StatusFits
  <2>2. \A id, pid : PidFits(id, pid)' <=> PidFits(id, pid)
    BY <1>12 DEF PidFits
  <2>3. \A id, labels, support :
          LookFits(id, labels, support)' <=> LookFits(id, labels, support)
    BY <1>1, <1>3, <1>5 DEF LookFits
  <2>4. QED
    BY <2>1, <2>2, <2>3 DEF Fits
<1>14. \A s : Sound(s)' <=> Sound(s)
  BY <1>13 DEF Sound, IDsApart
<1>15. \A s, es : AllIDs(s, es)' <=> AllIDs(s, es)
  BY <1>10 DEF AllIDs
<1>16. \A s, es : AllPairs(s, es)' <=> AllPairs(s, es)
  BY <1>10, <1>11 DEF AllPairs
<1>17. ASSUME UNCHANGED <<shown, result>> PROVE ListsExactly' <=> ListsExactly
  BY <1>1, <1>5, <1>6, <1>7, <1>8, <1>9, <1>17 DEF ListsExactly, AllOf
<1>18. \A V : Listing(V)' <=> Listing(V)
  BY <1>1, <1>5, <1>6, <1>7, <1>8, <1>9 DEF Listing, AllOf
<1>19. QED
  BY <1>14, <1>15, <1>16, <1>17, <1>18

\* What the next explorer lists is added.
LEMMA RowsAdded ==
  ASSUME CtlInv, RowsInv, ListNext
  PROVE  RowsInv'
<1>1. /\ pc = "next" /\ xplrs # <<>> /\ command.kind \in ListKinds
      /\ UNCHANGED <<given, config, opened>> /\ xplrs' = Tail(xplrs)
      /\ command' = command /\ result = "running"
  BY DEF ListNext, given, CtlInv, PlaceInv
<1>2. PICK e \in Engines : /\ e = Head(xplrs) /\ Opened(e) /\ e \notin Asked
                           /\ \A d \in Asked : Earlier(d, e)
                           /\ \A d \in ToSet(Tail(xplrs)) : Earlier(e, d)
  BY <1>1, NextExplorer, ThenAsked DEF CtlInv, Opened
<1>3. PICK es : es = Asked
  OBVIOUS
<1>4. Asked' = es \cup {e}
  BY <1>1, <1>2, <1>3, ThenAsked DEF CtlInv, Asked
<1>5. PICK L : L = Listed(e)
  OBVIOUS
<1>6. PICK old : old = rows
  OBVIOUS
<1>7. PICK m : m = rows'
  OBVIOUS
<1>8. /\ L.res = "ok" =>
           /\ command.kind \in RowKinds => m = Merged(old, L.items)
           /\ command.kind \notin RowKinds => m = old \o L.items
           /\ result' = "running" /\ pc' = "next"
      /\ L.res = "error" => m = old /\ result' = "running" /\ pc' = "next"
      /\ L.res \notin {"ok", "error"} =>
           m = old /\ result' = "panic" /\ pc' = "end"
  BY <1>1, <1>2, <1>5, <1>6, <1>7 DEF ListNext, Panic, RowKinds
<1>9. ListsExactly' /\ pc' \notin Opening
  BY <1>8 DEF ListsExactly, Opening
<1>10. ASSUME command.kind \in RowKinds
       PROVE  Sound(m) /\ (result' # "panic" => AllIDs(m, es \cup {e}))
  <2>1. Sound(old) /\ AllIDs(old, es)
    BY <1>1, <1>3, <1>6, <1>10 DEF RowsInv, Opening
  <2>2. ASSUME e = "containerd", command.kind = "containers",
               NEW id, Elsewhere(id)
        PROVE  id \in IDsIn(old)
    <3>1. PICK d \in {"docker", "podman"} : id \in IDsOf(d)
      BY <2>2 DEF Elsewhere
    <3>2. Opened(d)
      BY <3>1 DEF IDsOf
    <3>3. d \in Asked
      BY <1>1, <1>2, <2>2, <3>1, <3>2, NextExplorer
         DEF CtlInv, Opened, Asked, Earlier
    <3>4. QED
      BY <1>3, <2>1, <2>2, <3>1, <3>3 DEF AllIDs, ListedBy
  <2>3. Lists(L, e, IDsIn(old))
    <3>1. command.kind \in {"containers", "tasks"}
      BY <1>10 DEF RowKinds
    <3>2. QED
      BY <1>2, <1>5, <2>2, <3>1, RowsListed
  <2>4. CASE L.res = "ok"
    <3>1. Ordered(L.items, IDsIn(old)) /\ IDsIn(L.items) = ListedBy(e)
      BY <2>3, <2>4 DEF Lists
    <3>2. Sound(m) /\ IDsIn(m) = IDsIn(old) \cup IDsIn(L.items)
      BY <1>8, <1>10, <2>1, <2>4, <3>1, MergedIs
    <3>3. AllIDs(m, es \cup {e})
      BY ONLY <2>1, <3>1, <3>2 DEF AllIDs
    <3>4. QED
      BY <3>2, <3>3
  <2>5. CASE L.res = "error"
    <3>1. ListedBy(e) = {} /\ m = old
      BY <1>8, <2>3, <2>5 DEF Lists
    <3>2. AllIDs(m, es \cup {e})
      BY ONLY <2>1, <3>1 DEF AllIDs
    <3>3. QED
      BY <2>1, <3>1, <3>2
  <2>6. CASE L.res \notin {"ok", "error"}
    BY <1>8, <2>1, <2>6
  <2>7. QED
    BY <2>4, <2>5, <2>6
<1>11. ASSUME command.kind \in PairKinds
       PROVE  m \in Seq(Pics)
              /\ (result' # "panic" => AllPairs(m, es \cup {e}))
  <2>1. old \in Seq(Pics) /\ AllPairs(old, es)
    BY <1>1, <1>3, <1>6, <1>11 DEF RowsInv, Opening
  <2>2. ListsPairs(L, e)
    BY <1>2, <1>5, <1>11, PairsListed
  <2>3. CASE L.res = "ok"
    <3>1. L.items \in Seq(Pics)
      BY <2>2 DEF ListsPairs, Results
    <3>2. \A p : p \in PairsIn(L.items) <=> p \in PairsBy(e)
      BY <2>2, <2>3 DEF ListsPairs
    <3>3. m = old \o L.items
      BY <1>8, <1>11, <2>3 DEF RowKinds, PairKinds
    <3>4. m \in Seq(Pics) /\ ToSet(m) = ToSet(old) \cup ToSet(L.items)
      BY ONLY <2>1, <3>1, <3>3, ConcatAdds
    <3>5. PairsIn(m) = PairsIn(old) \cup PairsIn(L.items)
      BY ONLY <3>4 DEF PairsIn
    <3>6. AllPairs(m, es \cup {e})
      BY ONLY <2>1, <3>2, <3>5 DEF AllPairs
    <3>7. QED
      BY <3>4, <3>6
  <2>4. CASE L.res = "error"
    <3>1. PairsBy(e) = {} /\ m = old
      BY <1>8, <2>2, <2>4 DEF ListsPairs
    <3>2. AllPairs(m, es \cup {e})
      BY ONLY <2>1, <3>1 DEF AllPairs
    <3>3. QED
      BY <2>1, <3>1, <3>2
  <2>5. CASE L.res \notin {"ok", "error"}
    BY <1>8, <2>1, <2>5
  <2>6. QED
    BY <2>3, <2>4, <2>5
<1>12. /\ \A s : Sound(s)' <=> Sound(s)
       /\ \A s, t : AllIDs(s, t)' <=> AllIDs(s, t)
       /\ \A s, t : AllPairs(s, t)' <=> AllPairs(s, t)
  BY <1>1, SameFits
<1>13. /\ Sound(rows)' <=> Sound(m)
       /\ AllIDs(rows, Asked)' <=> AllIDs(m, es \cup {e})
       /\ AllPairs(rows, Asked)' <=> AllPairs(m, es \cup {e})
  <2>1. PICK s : s = rows'
    OBVIOUS
  <2>2. PICK t : t = Asked'
    OBVIOUS
  <2>3. /\ Sound(rows)' <=> Sound(s)'
        /\ AllIDs(rows, Asked)' <=> AllIDs(s, t)'
        /\ AllPairs(rows, Asked)' <=> AllPairs(s, t)'
    BY <2>1, <2>2
  <2>4. s = m /\ t = es \cup {e}
    BY <1>4, <1>7, <2>1, <2>2
  <2>5. QED
    BY <1>12, <2>3, <2>4
<1>14. QED
  BY <1>1, <1>7, <1>9, <1>10, <1>11, <1>13 DEF RowsInv

\* The rows that Show prints.
Visible(s) ==
  {r \in ToSet(s) :
     /\ command.kind = "containers" => Matches(command.filter, r.labels)
     /\ ~Hidden(r)}

\* Containers and tasks that are printed have the IDs of all engines.
LEMMA RowsShown ==
  ASSUME command.kind \in RowKinds, NEW s, Sound(s), AllIDs(s, ToSet(opened)),
         ToSet(opened) \subseteq Engines, NEW V, V = Visible(s)
  PROVE  /\ command.kind = "containers" =>
              {r.id : r \in V} = {id \in AllOf(IDsOf) : Wanted(id)}
         /\ command.kind = "tasks" => {r.id : r \in V} = AllOf(TasksOf)
         /\ \A r, t \in V : r.id = t.id => r = t
<1>1. \A id : id \in IDsIn(s) <=> \E e \in Engines : id \in ListedBy(e)
  <2>1. \A e \in Engines : e \notin ToSet(opened) => ListedBy(e) = {}
    BY DEF ListedBy, IDsOf, TasksOf, Opened
  <2>2. QED
    BY <2>1 DEF AllIDs
<1>2. \A id : id \in IDsIn(s) <=> \E r \in ToSet(s) : id = r.id
  BY DEF IDsIn, ToSet
<1>3. \A r \in ToSet(s) : Fits(r)
  BY DEF Sound, ToSet
<1>4. \A r : r \in V <=>
        /\ r \in ToSet(s)
        /\ command.kind = "containers" => Matches(command.filter, r.labels)
        /\ ~Hidden(r)
  BY DEF Visible
<1>5. ASSUME command.kind = "containers"
      PROVE  {r.id : r \in V} = {id \in AllOf(IDsOf) : Wanted(id)}
  <2>1. \A id : id \in AllOf(IDsOf) <=> \E e \in Engines : id \in IDsOf(e)
    BY DEF AllOf
  <2>2. ASSUME NEW r \in ToSet(s)
        PROVE  Wanted(r.id) <=> Matches(command.filter, r.labels) /\ ~Hidden(r)
    <3>1. LookFits(r.id, r.labels, r.support)
      BY <1>3, <2>2 DEF Fits
    <3>2. CASE r.id \in IDsOf("docker") \cup IDsOf("podman")
      BY <1>5, <3>1, <3>2 DEF LookFits, Wanted, Hidden
    <3>3. CASE r.id \notin IDsOf("docker") \cup IDsOf("podman")
      BY <1>5, <3>1, <3>3 DEF LookFits, Wanted, Hidden
    <3>4. QED
      BY <3>2, <3>3
  <2>3. \A id : id \in AllOf(IDsOf) <=> \E r \in ToSet(s) : id = r.id
    BY <1>1, <1>2, <1>5, <2>1 DEF ListedBy
  <2>4. \A r : r \in V <=> r \in ToSet(s) /\ Wanted(r.id)
    BY <1>4, <1>5, <2>2
  <2>5. QED
    BY ONLY <2>3, <2>4
<1>6. ASSUME command.kind = "tasks"
      PROVE  {r.id : r \in V} = AllOf(TasksOf)
  <2>1. \A id : id \in AllOf(TasksOf) <=> \E e \in Engines : id \in TasksOf(e)
    BY DEF AllOf
  <2>2. \A r : r \in V <=> r \in ToSet(s)
    BY <1>4, <1>6 DEF Hidden
  <2>3. \A id : id \in AllOf(TasksOf) <=> \E r \in ToSet(s) : id = r.id
    BY <1>1, <1>2, <1>6, <2>1 DEF ListedBy
  <2>4. QED
    BY ONLY <2>2, <2>3
<1>7. \A r, t \in ToSet(s) : r.id = t.id => r = t
  BY DEF Sound, IDsApart, ToSet
<1>8. QED
  BY <1>4, <1>5, <1>6, <1>7

\* What else is printed is what all engines have.
LEMMA PairsShown ==
  ASSUME command.kind \in PairKinds, NEW s, AllPairs(s, ToSet(opened)),
         ToSet(opened) \subseteq Engines, NEW V, V = Visible(s)
  PROVE  {<<r.ns, r.id>> : r \in V} =
           IF command.kind = "images" THEN AllOf(ImagesOf) ELSE Items
<1>1. \A p : p \in PairsIn(s) <=> \E e \in Engines : p \in PairsBy(e)
  <2>1. \A e \in Engines : e \notin ToSet(opened) => PairsBy(e) = {}
    BY DEF PairsBy, ImagesOf, Items, Opened
  <2>2. QED
    BY <2>1 DEF AllPairs
<1>2. \A r : r \in V <=> r \in ToSet(s) /\ ~LeftOut(r.support)
  BY DEF Visible, Hidden, LeftOut, PairKinds
<1>3. {<<r.ns, r.id>> : r \in V} = PairsIn(s)
  BY <1>2 DEF PairsIn
<1>4. CASE command.kind = "images"
  <2>1. \A p : p \in AllOf(ImagesOf) <=> \E e \in Engines : p \in ImagesOf(e)
    BY DEF AllOf
  <2>2. \A p : p \in PairsIn(s) <=> p \in AllOf(ImagesOf)
    BY <1>1, <1>4, <2>1 DEF PairsBy
  <2>3. QED
    BY <1>3, <1>4, <2>2
<1>5. CASE command.kind # "images"
  <2>1. \A p : p \in PairsIn(s) <=> p \in Items
    BY <1>1, <1>5 DEF PairsBy, Engines
  <2>2. QED
    BY <1>3, <1>5, <2>1
<1>6. QED
  BY <1>4, <1>5

\* Without rows, and where none has been asked.
NoRows(s, es) == s = <<>> /\ es = {}

\* Without rows there is nothing to say.
LEMMA NothingYet ==
  NoRows(rows, Asked) => /\ Sound(rows) /\ AllIDs(rows, Asked)
                         /\ rows \in Seq(Pics) /\ AllPairs(rows, Asked)
<1> SUFFICES ASSUME rows = <<>>, Asked = {}
             PROVE  /\ Sound(rows) /\ AllIDs(rows, Asked)
                    /\ rows \in Seq(Pics) /\ AllPairs(rows, Asked)
  BY DEF NoRows
<1>1. DOMAIN rows = {} /\ ToSet(rows) = {}
  BY NothingIn
<1>2. Sound(rows)
  BY <1>1 DEF Sound, IDsApart
<1>3. IDsIn(rows) = {} /\ PairsIn(rows) = {}
  BY <1>1 DEF IDsIn, PairsIn
<1>4. QED
  BY <1>2, <1>3 DEF AllIDs, AllPairs

\* What is printed is what all that are open have.
LEMMA ShownExactly ==
  ASSUME CtlInv, RowsInv, Show
  PROVE  RowsInv'
<1>1. /\ pc = "next" /\ xplrs = <<>> /\ command.kind \in ListKinds
      /\ pc' = "end" /\ result = "running" /\ result' = "ok"
      /\ UNCHANGED <<given, config, opened>> /\ UNCHANGED <<rows, xplrs>>
      /\ command' = command
  BY DEF Show, given, CtlInv, PlaceInv
<1>2. PICK s : s = rows
  OBVIOUS
<1>3. PICK V : V = Visible(s)
  OBVIOUS
<1>4. shown' = V
  BY <1>2, <1>3 DEF Show, Visible
<1>5. Asked = ToSet(opened) /\ ToSet(opened) \subseteq Engines
  <2>1. ToSet(xplrs) = {}
    BY <1>1, NothingIn
  <2>2. opened \in Seq(Engines)
    BY InOrder DEF CtlInv, OpenedInv
  <2>3. ToSet(opened) \subseteq Engines
    BY ONLY <2>2, ElementsOf
  <2>4. QED
    BY <2>1, <2>3 DEF Asked
<1>6. command.kind \in RowKinds => Sound(s) /\ AllIDs(s, ToSet(opened))
  BY <1>1, <1>2, <1>5 DEF RowsInv, Opening
<1>7. command.kind \in PairKinds =>
        s \in Seq(Pics) /\ AllPairs(s, ToSet(opened))
  BY <1>1, <1>2, <1>5 DEF RowsInv, Opening
<1>8. command.kind \in RowKinds \cup PairKinds
  BY <1>1 DEF ListKinds, RowKinds, PairKinds
<1>9. command.kind \in RowKinds =>
        /\ command.kind = "containers" =>
             {r.id : r \in V} = {id \in AllOf(IDsOf) : Wanted(id)}
        /\ command.kind = "tasks" => {r.id : r \in V} = AllOf(TasksOf)
        /\ \A r, t \in V : r.id = t.id => r = t
  BY <1>3, <1>5, <1>6, RowsShown
<1>10. command.kind \in PairKinds =>
         {<<r.ns, r.id>> : r \in V} =
           IF command.kind = "images" THEN AllOf(ImagesOf) ELSE Items
  BY <1>3, <1>5, <1>7, PairsShown
<1>11. Listing(V)
  BY <1>8, <1>9, <1>10 DEF Listing, RowKinds, PairKinds
<1>12. ListsExactly'
  <2>1. Listing(V)'
    BY <1>1, <1>11, SameFits
  <2>2. (ListsExactly <=> (result = "ok" /\ command.kind \in ListKinds
                             => Listing(shown)))'
    BY ExactlyIs, PTL
  <2>3. Listing(shown)' <=> Listing(V)'
    BY <1>4
  <2>4. QED
    BY <2>1, <2>2, <2>3
<1>13. /\ \A t : Sound(t)' <=> Sound(t)
       /\ \A t, es : AllIDs(t, es)' <=> AllIDs(t, es)
       /\ \A t, es : AllPairs(t, es)' <=> AllPairs(t, es)
  BY <1>1, SameFits
<1>14. PICK es : es = ToSet(opened)
  OBVIOUS
<1>15. rows' = s /\ Asked' = es
  BY <1>1, <1>2, <1>5, <1>14 DEF Asked
<1>16. /\ Sound(rows)' <=> Sound(s)
       /\ AllIDs(rows, Asked)' <=> AllIDs(s, es)
       /\ AllPairs(rows, Asked)' <=> AllPairs(s, es)
  BY <1>13, <1>15
<1>17. QED
  BY <1>1, <1>6, <1>7, <1>12, <1>14, <1>15, <1>16 DEF RowsInv

\* Steps of other commands and of the beginning have no rows.
LEMMA NextRows == CtlInv /\ RowsInv /\ [Next]_vars => RowsInv'
<1> SUFFICES ASSUME CtlInv, RowsInv, [Next]_vars PROVE RowsInv'
  OBVIOUS
<1>1. CtlInv'
  BY NextCtl
<1>2. CASE pc' \in Opening
  BY <1>1, <1>2 DEF CtlInv, PlaceInv, RowsInv, ListsExactly, Opening
<1>3. CASE GetContainerd
  <2>1. /\ result' = "running" /\ rows' = <<>> /\ pc' = "next"
        /\ xplrs' = opened'
    <3>1. /\ pc = "containerd" /\ pc' = "next" /\ rows' = rows
          /\ result' = result /\ xplrs = opened
      BY <1>3 DEF GetContainerd, GetExplorer, CtlInv, OpenedInv, Opening
    <3>2. rows = <<>> /\ result = "running"
      BY <3>1 DEF CtlInv, PlaceInv, Opening
    <3>3. xplrs' = opened'
      BY <1>3, <3>1 DEF GetContainerd, GetExplorer
    <3>4. QED
      BY <3>1, <3>2, <3>3
  <2>2. Asked' = {}
    BY <2>1 DEF Asked
  <2>3. (NoRows(rows, Asked))'
    BY <2>1, <2>2 DEF NoRows
  <2>4. (NoRows(rows, Asked) => /\ Sound(rows) /\ AllIDs(rows, Asked)
                                /\ rows \in Seq(Pics)
                                   /\ AllPairs(rows, Asked))'
    BY NothingYet, PTL
  <2>5. ListsExactly'
    BY <2>1 DEF ListsExactly
  <2>6. QED
    BY <2>3, <2>4, <2>5 DEF RowsInv
<1>4. CASE InitializeRuntime \/ GetDocker \/ GetPodman
  BY <1>2, <1>4
     DEF InitializeRuntime, GetDocker, GetPodman, GetExplorer, Opening
<1>5. CASE ListNext
  BY <1>5, RowsAdded
<1>6. CASE Show
  BY <1>6, ShownExactly
<1>7. CASE \/ LoopNext \/ MountOne \/ ScanOne \/ EndLoop \/ LoopsEnd
           \/ FindNext \/ UseFound \/ NotFound
  <2>1. command.kind \notin ListKinds /\ command' = command
    BY <1>7 DEF LoopNext, MountOne, ScanOne, EndLoop, LoopsEnd, FindNext,
                UseFound, NotFound, given, CtlInv, PlaceInv, LoopKinds,
                FindKinds, ListKinds
  <2>2. QED
    BY <2>1 DEF RowsInv, ListsExactly, RowKinds, PairKinds, ListKinds
<1>8. CASE UNCHANGED vars
  <2>1. /\ UNCHANGED <<given, config, opened>> /\ UNCHANGED <<shown, result>>
        /\ UNCHANGED <<pc, command, rows, xplrs>>
    BY <1>8 DEF vars, given, config
  <2>2. /\ \A t : Sound(t)' <=> Sound(t)
        /\ \A t, es : AllIDs(t, es)' <=> AllIDs(t, es)
        /\ \A t, es : AllPairs(t, es)' <=> AllPairs(t, es)
        /\ ListsExactly' <=> ListsExactly
    BY <2>1, SameFits
  <2>3. PICK s : s = rows
    OBVIOUS
  <2>4. PICK es : es = Asked
    OBVIOUS
  <2>5. rows' = s /\ Asked' = es
    BY <2>1, <2>3, <2>4 DEF Asked
  <2>6. /\ Sound(rows)' <=> Sound(s)
        /\ AllIDs(rows, Asked)' <=> AllIDs(s, es)
        /\ AllPairs(rows, Asked)' <=> AllPairs(s, es)
    BY <2>2, <2>5
  <2>7. QED
    BY <2>1, <2>2, <2>3, <2>4, <2>6 DEF RowsInv
<1>9. QED
  BY <1>2, <1>3, <1>4, <1>5, <1>6, <1>7, <1>8 DEF Next, Step, Done

\* Before the first explorer there is nothing.
LEMMA InitRows == Init => RowsInv
BY DEF Init, RowsInv, ListsExactly, Opening

\* A row says that its container runs, or that it has a process, only with
\* evidence of its own ID, whatever was merged into it.
THEOREM RowsAlwaysBacked == Spec => []RowsBacked
<1>1. Init => CtlInv /\ RowsInv
  BY InitCtl, InitRows
<1>2. CtlInv /\ RowsInv /\ [Next]_vars => (CtlInv /\ RowsInv)'
  BY NextCtl, NextRows
<1>3. CtlInv /\ RowsInv => RowsBacked
  <2> SUFFICES ASSUME CtlInv, RowsInv, command.kind \in RowKinds,
                      NEW r \in ToSet(rows)
               PROVE  StatusFits(r.id, r.status) /\ PidFits(r.id, r.pid)
    BY DEF RowsBacked, RowKinds, StatusFits, PidFits, Active
  <2>1. CASE pc \in Opening
    BY <2>1, NothingIn DEF CtlInv, PlaceInv
  <2>2. CASE pc \notin Opening
    <3>1. Sound(rows)
      BY <2>2 DEF RowsInv
    <3>2. QED
      BY <3>1 DEF Sound, Fits, ToSet
  <2>3. QED
    BY <2>1, <2>2
<1>4. QED
  BY <1>1, <1>2, <1>3, PTL DEF Spec

\* A list that is printed has what every explorer can list, and nothing else,
\* whatever is damaged in the evidence of another.
THEOREM ListedExactly == Spec => []ListsExactly
<1>1. Init => CtlInv /\ RowsInv
  BY InitCtl, InitRows
<1>2. CtlInv /\ RowsInv /\ [Next]_vars => (CtlInv /\ RowsInv)'
  BY NextCtl, NextRows
<1>3. RowsInv => ListsExactly
  BY DEF RowsInv
<1>4. QED
  BY <1>1, <1>2, <1>3, PTL DEF Spec
=============================================================================
