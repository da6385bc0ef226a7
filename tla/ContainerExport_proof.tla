----------------------- MODULE ContainerExport_proof -----------------------
(***************************************************************************)
(* The export loops, for every set of container IDs, mount points and      *)
(* setups: mounts are accounted for, files hold what was mounted for them, *)
(* and nil means exported.  Four invariants carry the proof: of the call   *)
(* under way, its mounts, the results of the exports, and their sources.   *)
(***************************************************************************)
EXTENDS ContainerExport, SequenceLemmas

\* The call under way is one that Calls has made.
CallInv ==
  /\ setup \in Setups /\ pc \in PC
  /\ todo \in Seq([engine : Engines, id : ID])
  /\ \A c \in ToSet(todo) : Named(c.engine, c.id) # {}
  /\ pc # "idle" => Named(engine, target) # {}
  /\ pass \in Nat /\ target \in ID \cup {None}
  /\ pc # "idle" => target \in ID /\ engine \in Engines /\ pass > 0

\* The program points between a mount and the return of its pass.
Copying == {"image", "imaging", "filled", "archive", "archiving"}

\* Which mounts and directories there are at each program point: those of
\* the defer stack, those that refused to go, and the one being made.  At
\* rmdir the last one may be stuck; nothing may be mounted at any of them.
PendingInv ==
  /\ defers \in Seq(Mountpoint) /\ IsInjective(defers)
  /\ \A mp \in ToSet(defers) :
       /\ mp \in dirs
       /\ mp \in stuck => pc = "rmdir" /\ mp = Last(defers)
  /\ \A mp \in DOMAIN mounts : mp \in ToSet(defers) \cup stuck
  /\ \A mp \in dirs :
       \/ mp \in ToSet(defers) \cup stuck
       \/ pc = "mount" /\ mp = mountpoint

PointInv ==
  /\ dirs \in SUBSET Mountpoint /\ stuck \in SUBSET dirs
  /\ mountpoint \in Mountpoint \cup {None}
  /\ pc = "idle" => defers = <<>>
  /\ pc = "mount" => mountpoint \in dirs \ (ToSet(defers) \cup stuck)
  /\ pc = "rmdir" =>
       /\ defers # <<>> /\ mountpoint = Last(defers)
       /\ mountpoint \in stuck => mountpoint \in DOMAIN mounts
  /\ pc \in Copying =>
       /\ defers # <<>> /\ mountpoint = Last(defers)
       /\ Source \in Yield(engine, target)

\* The defer stack grows by at most one mount with each pass.
PassInv ==
  /\ pc # "idle" => Len(defers) <= Passes(engine)
  /\ pc \in {"pass", "mkdir", "mount"} => Len(defers) < pass
  /\ pc \in {"mkdir", "mount"} \cup Copying =>
       Len(defers) <= pass /\ pass <= Passes(engine)

MountInv == PendingInv /\ PointInv /\ PassInv

\* What the two exports have answered at each program point.
StatusInv ==
  /\ imgStatus \in [ID -> Img!Status] /\ imgFile \in [ID -> Img!FileState]
  /\ arcStatus \in [ID -> Img!Status] /\ arcFile \in [ID -> Img!FileState]
  /\ imgHeld \in SUBSET ID /\ imgKept \in SUBSET ID /\ arcKept \in SUBSET ID
  /\ \A id \in ID :
       /\ imgStatus[id] \in {"populated", "ok"} =>
            imgFile[id] = "populated" \/ id \in imgHeld
       /\ arcStatus[id] \in {"populated", "ok"} => arcFile[id] = "populated"

Exported(id) ==
  /\ setup.image => imgStatus[id] = "ok"
  /\ setup.archive => arcStatus[id] = "ok"

ResultInv ==
  /\ result \in [ID -> {"none", "ok", "error"}]
  /\ pc \notin {"idle", "unwind", "rmdir"} => result[target] = "none"
  /\ pc \in {"archive", "archiving"} =>
       (setup.image => imgStatus[target] = "ok")
  /\ pc = "pass" /\ pass > 1 /\ engine.lists => Exported(target)
  /\ \A id \in ID :
       result[id] = "ok" /\ (\A e \in Engines : Reached(e)) =>
         Exported(id)

\* What export --all selects is what it makes calls for: the calls to come
\* and the one under way are for selected containers, files are theirs, and
\* each of them is still to come, under way or has its result.
Due(e, id) == Reached(e) /\ Selects(e, id)

SelectInv ==
  /\ pc \in {"unwind", "rmdir"} => result[target] # "none"
  /\ setup.all =>
       /\ \A c \in ToSet(todo) : Selects(c.engine, c.id)
       /\ pc # "idle" => Selects(engine, target)
       /\ \A id \in ID : imgFile[id] # "absent" \/ arcFile[id] # "absent" =>
            \E e \in Engines : Selects(e, id)
       /\ \A e \in Engines, id \in ID : Due(e, id) =>
            \/ \E c \in ToSet(todo) : c.id = id
            \/ pc # "idle" /\ id = target
            \/ result[id] # "none"

\* What was copied into the populated files, and into the image whose copy
\* has ended, is what a mount of their own ID left.
SourceInv ==
  /\ DOMAIN imgSource = ID /\ DOMAIN arcSource = ID
  /\ FilesHoldOwn
  /\ pc = "filled" => Owns(target, imgSource[target])

IInv == CallInv /\ MountInv /\ StatusInv /\ ResultInv /\ SourceInv /\ SelectInv

-----------------------------------------------------------------------------
\* Facts about the defer stack as a sequence.

\* Append pushes one element that was not there.
LEMMA Push ==
  ASSUME NEW S, NEW s \in Seq(S), NEW e \in S
  PROVE  /\ Append(s, e) \in Seq(S) /\ Append(s, e) # <<>>
         /\ Last(Append(s, e)) = e /\ Len(Append(s, e)) = Len(s) + 1
         /\ ToSet(Append(s, e)) = ToSet(s) \cup {e}
         /\ IsInjective(s) /\ e \notin ToSet(s) => IsInjective(Append(s, e))
<1> DEFINE t == Append(s, e)
<1>1. /\ t \in Seq(S) /\ t # <<>> /\ Len(t) = Len(s) + 1
      /\ DOMAIN t = 1..(Len(s) + 1) /\ DOMAIN s = 1..Len(s) /\ Len(s) \in Nat
  OBVIOUS
<1>2. t[Len(s) + 1] = e /\ \A i \in 1..Len(s) : t[i] = s[i]
  OBVIOUS
<1>3. Last(t) = e
  BY <1>1, <1>2 DEF Last
<1> HIDE DEF t
<1>4. ToSet(t) = ToSet(s) \cup {e}
  <2>1. \A x \in ToSet(t) : x \in ToSet(s) \cup {e}
    BY <1>1, <1>2 DEF ToSet
  <2>2. \A x \in ToSet(s) \cup {e} : x \in ToSet(t)
    BY <1>1, <1>2 DEF ToSet
  <2>3. QED
    BY <2>1, <2>2
<1>5. IsInjective(s) /\ e \notin ToSet(s) => IsInjective(t)
  BY <1>1, <1>2 DEF IsInjective, ToSet
<1>6. QED
  BY <1>1, <1>3, <1>4, <1>5 DEF t

\* Front pops the last element, and all others stay.
LEMMA Pop ==
  ASSUME NEW S, NEW s \in Seq(S), s # <<>>, IsInjective(s)
  PROVE  /\ Front(s) \in Seq(S) /\ Len(Front(s)) = Len(s) - 1
         /\ Last(s) \in ToSet(s) /\ Last(s) \in S
         /\ ToSet(Front(s)) = ToSet(s) \ {Last(s)}
         /\ IsInjective(Front(s))
<1> DEFINE t == Front(s)
<1>1. /\ Len(s) \in Nat /\ Len(s) > 0 /\ DOMAIN s = 1..Len(s)
  OBVIOUS
<1>2. /\ t \in Seq(S) /\ Len(t) = Len(s) - 1
      /\ DOMAIN t = 1..(Len(s) - 1)
      /\ \A i \in 1..(Len(s) - 1) : t[i] = s[i]
  BY <1>1, SubSeqProperties DEF Front
<1> HIDE DEF t
<1>3. Last(s) \in ToSet(s) /\ Last(s) \in S
  BY <1>1 DEF Last, ToSet
<1>4. ToSet(t) = ToSet(s) \ {Last(s)}
  <2>1. \A x \in ToSet(t) : x \in ToSet(s) \ {Last(s)}
    BY <1>1, <1>2 DEF ToSet, Last, IsInjective
  <2>2. \A x \in ToSet(s) \ {Last(s)} : x \in ToSet(t)
    <3> SUFFICES ASSUME NEW i \in 1..Len(s), s[i] # Last(s)
                 PROVE  s[i] \in ToSet(t)
      BY <1>1 DEF ToSet
    <3>1. i \in 1..(Len(s) - 1)
      BY <1>1 DEF Last
    <3>2. QED
      BY <1>1, <1>2, <3>1 DEF ToSet
  <2>3. QED
    BY <2>1, <2>2
<1>5. IsInjective(t)
  BY <1>1, <1>2 DEF IsInjective
<1>6. QED
  BY <1>1, <1>2, <1>3, <1>4, <1>5 DEF t

-----------------------------------------------------------------------------
\* The calls of a command

LEMMA PassesAre ==
  ASSUME NEW s \in Setups, NEW e \in ToSet(s.engines)
  PROVE  Passes(e) \in Nat
  BY SetupsAssumption DEF Passes

Call(s) == [engine : ToSet(s.engines), id : ID]

\* Which records of an engine export --all selects.
Keeps(s, e, id) ==
  \E r \in ToSet(e.listing) :
    r.id = id /\ r.match /\ (s.support \/ ~r.support)

\* ExportAllContainers of one engine calls for what it selects, if it lists
\* its containers and makes a pass.
LEMMA IncludedAre ==
  ASSUME NEW s \in Setups, NEW e \in ToSet(s.engines)
  PROVE  /\ Included(s, e) \in Seq(Call(s))
         /\ ToSet(Included(s, e)) =
              {c \in Call(s) : /\ c.engine = e /\ Keeps(s, e, c.id)
                               /\ Reached(e)}
<1> DEFINE keep == {r \in ToSet(e.listing) :
                      r.match /\ (s.support \/ ~r.support)}
           kept == Only(e.listing, keep)
           once == [i \in DOMAIN kept |-> [engine |-> e, id |-> kept[i].id]]
           n == Passes(e)
           V == Seq(Call(s))
           all == [p \in 1..n |-> once]
           due == {c \in Call(s) : c.engine = e /\ Keeps(s, e, c.id)}
<1>1. n \in Nat
  BY PassesAre
<1>2. /\ kept \in Seq(ToSet(e.listing)) /\ ToSet(kept) = keep
  <2>1. e.listing \in Seq(ToSet(e.listing))
    BY SetupsAssumption
  <2> HIDE DEF keep
  <2>2. /\ kept \in Seq(ToSet(e.listing))
        /\ ToSet(kept) = ToSet(e.listing) \cap keep
    BY <2>1, TakenIs
  <2>3. QED
    BY <2>2 DEF keep
<1>3. \A r \in ToSet(e.listing) : r.id \in ID
  BY SetupsAssumption DEF IDs, ToSet
<1>4. DOMAIN kept = 1..Len(kept) /\ Len(kept) \in Nat
  BY <1>2, LenProperties
<1>5. \A i \in DOMAIN kept : once[i] \in Call(s)
  <2> HIDE DEF keep
  <2>1. \A i \in DOMAIN kept : kept[i] \in ToSet(kept)
    BY DEF ToSet
  <2>2. \A i \in DOMAIN kept : kept[i].id \in ID
    BY <1>2, <1>3, <2>1, ElementsOf
  <2> HIDE DEF kept
  <2>3. QED
    BY <2>2 DEF Call
<1>6. once \in V
  <2> HIDE DEF kept
  <2>1. once \in [1..Len(kept) -> Call(s)]
    BY <1>4, <1>5
  <2> HIDE DEF once
  <2>2. QED
    BY <1>4, <2>1, SeqDef
<1>7. ToSet(once) = due
  <2> HIDE DEF keep
  <2>1. ToSet(once) = {[engine |-> e, id |-> r.id] : r \in ToSet(kept)}
    BY DEF ToSet
  <2>2. ToSet(once) = {[engine |-> e, id |-> r.id] : r \in keep}
    BY <1>2, <2>1
  <2>3. \A r \in keep : r.id \in ID
    BY <1>3 DEF keep
  <2>4. QED
    BY <2>2, <2>3 DEF keep, Keeps, Call
<1>8. CASE e.names /\ e.lists
  <2>1. Included(s, e) = FlattenSeq(all)
    BY <1>8 DEF Included
  <2> HIDE DEF once, V, due, n
  <2>2. all \in Seq(V)
    BY <1>1, <1>6, SeqDef
  <2>3. /\ FlattenSeq(all) \in Seq(Call(s))
        /\ ToSet(FlattenSeq(all)) = UNION {ToSet(all[i]) : i \in DOMAIN all}
    <3> HIDE DEF all
    <3> QED
      BY <2>2, Flattened DEF V
  <2>4. UNION {ToSet(all[i]) : i \in DOMAIN all} = IF n > 0 THEN due ELSE {}
    <3>1. DOMAIN all = 1..n /\ \A i \in 1..n : ToSet(all[i]) = due
      BY <1>7
    <3>2. n > 0 <=> 1 \in 1..n
      BY <1>1
    <3>3. n = 0 => 1..n = {}
      OBVIOUS
    <3> HIDE DEF all
    <3>4. QED
      BY <1>1, <3>1, <3>2, <3>3
  <2>5. QED
    BY <1>8, <2>1, <2>3, <2>4 DEF due, n, Reached
<1>9. CASE ~(e.names /\ e.lists)
  <2>1. Included(s, e) = <<>>
    BY <1>9 DEF Included
  <2>2. QED
    BY <1>9, <2>1, NothingIn DEF Reached
<1>10. QED
  BY <1>8, <1>9

\* What an engine finds is an ID of one of its records.
LEMMA RecordIs ==
  ASSUME NEW s \in Setups, NEW e \in ToSet(s.engines), NEW arg,
         Named(e, arg) # {}
  PROVE  /\ Record(e, arg).id \in ID /\ Named(e, Record(e, arg).id) # {}
<1> DEFINE T == ToSet(e.listing)
           r == Record(e, arg)
<1>1. e.listing \in Seq(T)
  BY SetupsAssumption
<1>2. T \cap Named(e, arg) # {}
  BY DEF Named
<1>3. r \in T
  <2> HIDE DEF T
  <2> QED
    BY <1>1, <1>2, FirstIs DEF T, Record
<1> HIDE DEF r
<1>4. r.id \in ID
  BY <1>3, SetupsAssumption DEF IDs, ToSet
<1>5. r \in Named(e, r.id)
  BY <1>3 DEF Named
<1>6. QED
  BY <1>4, <1>5 DEF r

\* export <id> makes one call at most, and export --all those it selects.
LEMMA CallsAre ==
  ASSUME NEW s \in Setups
  PROVE  /\ Calls(s) \in Seq(Call(s))
         /\ \A c \in ToSet(Calls(s)) : Named(c.engine, c.id) # {}
         /\ s.all => ToSet(Calls(s)) =
              {c \in Call(s) : /\ Keeps(s, c.engine, c.id)
                               /\ Reached(c.engine)}
<1> DEFINE E == ToSet(s.engines)
<1>1. s.engines \in Seq(E) /\ DOMAIN s.engines = 1..Len(s.engines)
      /\ Len(s.engines) \in Nat
  BY SetupsAssumption, LenProperties
<1>2. CASE s.all
  <2> DEFINE all == [i \in DOMAIN s.engines |-> Included(s, s.engines[i])]
             V == Seq(Call(s))
  <2>1. Calls(s) = FlattenSeq(all)
    BY <1>2 DEF Calls
  <2>2. \A i \in DOMAIN s.engines : s.engines[i] \in E
    BY DEF ToSet
  <2>3. \A i \in DOMAIN s.engines : Included(s, s.engines[i]) \in V
    BY <2>2, IncludedAre
  <2>4. all \in Seq(V)
    <3> HIDE DEF V
    <3>1. all \in [1..Len(s.engines) -> V]
      BY <1>1, <2>3
    <3> HIDE DEF all
    <3>2. QED
      BY <1>1, <3>1, SeqDef
  <2>5. DOMAIN all = DOMAIN s.engines
        /\ \A i \in DOMAIN all : all[i] = Included(s, s.engines[i])
    OBVIOUS
  <2> HIDE DEF all
  <2>6. /\ FlattenSeq(all) \in V
        /\ ToSet(FlattenSeq(all)) = UNION {ToSet(all[i]) : i \in DOMAIN all}
    BY <2>4, Flattened
  <2>7. UNION {ToSet(all[i]) : i \in DOMAIN all} =
          UNION {ToSet(Included(s, e)) : e \in E}
    BY <2>5 DEF ToSet
  <2>8. UNION {ToSet(Included(s, e)) : e \in E} =
          {c \in Call(s) : /\ Keeps(s, c.engine, c.id)
                           /\ Reached(c.engine)}
    <3>1. \A e \in E : ToSet(Included(s, e)) =
            {c \in Call(s) : /\ c.engine = e /\ Keeps(s, e, c.id)
                             /\ Reached(e)}
      BY IncludedAre
    <3>2. \A c \in Call(s) : c.engine \in E
      BY DEF Call
    <3> HIDE DEF E
    <3>3. QED
      BY <3>1, <3>2
  <2>9. \A c \in Call(s) : Keeps(s, c.engine, c.id) =>
          Named(c.engine, c.id) # {}
    BY DEF Keeps, Named
  <2>10. QED
    BY <2>1, <2>6, <2>7, <2>8, <2>9
<1>3. CASE ~s.all
  <2> DEFINE S == {e \in E : Finds(e, s.arg)}
             i == First(s.engines, S)
             id == Record(s.engines[i], s.arg).id
             c == [engine |-> s.engines[i], id |-> id]
  <2>1. Calls(s) = IF i = 0 THEN <<>> ELSE <<c>>
    BY <1>3 DEF Calls, Matching
  <2>2. i # 0 => s.engines[i] \in S
    <3> HIDE DEF S, E
    <3> QED
      BY <1>1, FirstIs
  <2> HIDE DEF i
  <2>3. i # 0 => /\ s.engines[i] \in E /\ id \in ID
                 /\ Named(s.engines[i], id) # {}
    BY <2>2, RecordIs DEF Finds
  <2> HIDE DEF id
  <2>4. i # 0 => c \in Call(s) /\ Named(c.engine, c.id) # {}
    BY <2>3 DEF Call
  <2> HIDE DEF c
  <2>5. ToSet(<<c>>) = {c} /\ ToSet(<<>>) = {}
    BY DEF ToSet
  <2>6. QED
    BY <1>3, <2>1, <2>4, <2>5
<1>4. QED
  BY <1>2, <1>3

-----------------------------------------------------------------------------
\* Every step keeps the call under way one that Calls has made.
LEMMA NextCallInv == CallInv /\ [Next]_vars => CallInv'
<1> SUFFICES ASSUME CallInv, [Next]_vars PROVE CallInv'
  OBVIOUS
<1> USE DEF CallInv, PC, Goto, Return, Engines, call, world
<1>1. CASE StartCall
  <2> DEFINE R == [engine : Engines, id : ID]
  <2>1. todo \in Seq(R) /\ todo # <<>>
    BY <1>1 DEF StartCall
  <2>2. Head(todo) \in R /\ Tail(todo) \in Seq(R)
    <3> HIDE DEF R, CallInv
    <3> QED
      BY <2>1
  <2>3. Head(todo).engine \in Engines /\ Head(todo).id \in ID
    BY <2>2
  <2>4. Head(todo) \in ToSet(todo) /\ ToSet(Tail(todo)) \subseteq ToSet(todo)
    <3> HIDE DEF R, CallInv
    <3> QED
      BY <2>1, HeadAndTail
  <2>5. QED
    BY <1>1, <2>2, <2>3, <2>4 DEF StartCall
<1>2. CASE NextPass
  <2>1. UNCHANGED <<setup, todo, target, engine>>
    BY <1>2 DEF NextPass
  <2>2. pc' \in PC /\ pass' \in {pass, pass + 1} /\ pc = "pass"
    BY <1>2 DEF NextPass
  <2>3. QED
    BY <2>1, <2>2
<1>3. CASE MakeMountpoint
  BY <1>3 DEF MakeMountpoint
<1>4. CASE Mount
  BY <1>4 DEF Mount
<1>5. CASE ExportImage
  BY <1>5 DEF ExportImage
<1>6. CASE AfterImage
  BY <1>6 DEF AfterImage
<1>7. CASE ExportArchive
  BY <1>7 DEF ExportArchive
<1>8. CASE AfterArchive
  BY <1>8 DEF AfterArchive
<1>9. CASE Unmount
  BY <1>9 DEF Unmount
<1>10. CASE RemoveMountpoint
  BY <1>10 DEF RemoveMountpoint
<1>11. CASE EndCall
  BY <1>11 DEF EndCall
<1>12. CASE CopyImage
  BY <1>12 DEF CopyImage
<1>13. CASE FinishImage
  BY <1>13 DEF FinishImage
<1>14. CASE FinishArchive
  BY <1>14 DEF FinishArchive
<1>15. CASE DamageImage
  BY <1>15 DEF DamageImage
<1>16. CASE UNCHANGED vars
  BY <1>16 DEF vars
<1>17. QED
  BY <1>1, <1>2, <1>3, <1>4, <1>5, <1>6, <1>7, <1>8, <1>9, <1>10, <1>11,
     <1>12, <1>13, <1>14, <1>15, <1>16 DEF Next, Step, Done

-----------------------------------------------------------------------------
\* Steps that touch neither mounts nor directories.
Quiet ==
  /\ UNCHANGED <<defers, mounts, dirs, stuck>>
  /\ \/ UNCHANGED <<pc, mountpoint>>
     \/ {pc, pc'} \cap {"mount", "rmdir"} = {}
  /\ mountpoint' \in {mountpoint, None}
  /\ pc' = "idle" => pc = "idle" \/ defers = <<>>
  /\ pc' \in Copying =>
       pc \in Copying /\ UNCHANGED <<mountpoint, engine, target>>

LEMMA QuietSteps ==
  ASSUME \/ StartCall \/ NextPass \/ ExportImage \/ AfterImage
         \/ ExportArchive \/ AfterArchive \/ EndCall \/ CopyImage
         \/ FinishImage \/ FinishArchive \/ DamageImage \/ UNCHANGED vars
  PROVE  Quiet
<1> USE DEF Quiet, Copying, Goto, Return, call, world
<1>1. CASE StartCall
  BY <1>1 DEF StartCall
<1>2. CASE NextPass
  <2>1. pc = "pass" /\ pc' \in {"pass", "unwind", "mkdir"} /\ UNCHANGED world
    BY <1>2 DEF NextPass
  <2>2. QED
    BY <2>1
<1>3. CASE ExportImage
  BY <1>3 DEF ExportImage
<1>4. CASE AfterImage
  BY <1>4 DEF AfterImage
<1>5. CASE ExportArchive
  BY <1>5 DEF ExportArchive
<1>6. CASE AfterArchive
  BY <1>6 DEF AfterArchive
<1>7. CASE EndCall
  BY <1>7 DEF EndCall
<1>8. CASE CopyImage
  BY <1>8 DEF CopyImage
<1>9. CASE FinishImage
  BY <1>9 DEF FinishImage
<1>10. CASE FinishArchive
  BY <1>10 DEF FinishArchive
<1>11. CASE DamageImage
  BY <1>11 DEF DamageImage
<1>12. CASE UNCHANGED vars
  BY <1>12 DEF vars
<1>13. QED
  BY <1>1, <1>2, <1>3, <1>4, <1>5, <1>6, <1>7, <1>8, <1>9, <1>10, <1>11,
     <1>12

\* Next as the steps that touch mounts, and the others.
LEMMA LoudSteps ==
  [Next]_vars =>
    Quiet \/ MakeMountpoint \/ Mount \/ Unmount \/ RemoveMountpoint
BY QuietSteps DEF Next, Step, Done

\* Each mount and each directory stays accounted for.
LEMMA NextPendingInv ==
  PendingInv /\ PointInv /\ [Next]_vars => PendingInv'
<1> SUFFICES ASSUME PendingInv, PointInv, [Next]_vars PROVE PendingInv'
  OBVIOUS
<1>1. CASE Quiet
  BY <1>1 DEF PendingInv, Quiet
<1>2. CASE MakeMountpoint
  BY <1>2 DEF MakeMountpoint, PendingInv, PointInv, Return
<1>3. CASE Mount
  <2>1. mountpoint \in Mountpoint /\ mountpoint \notin ToSet(defers)
    BY <1>3 DEF Mount, PointInv
  <2>2. CASE pc' = "image"
    <3>1. /\ defers' = Append(defers, mountpoint) /\ UNCHANGED <<dirs, stuck>>
          /\ DOMAIN mounts' \subseteq DOMAIN mounts \cup {mountpoint}
      BY <1>3, <2>2 DEF Mount, WithMount, Return
    <3>2. /\ defers' \in Seq(Mountpoint) /\ IsInjective(defers')
          /\ ToSet(defers') = ToSet(defers) \cup {mountpoint}
      BY <2>1, <3>1, Push DEF PendingInv
    <3>3. pc = "mount"
      BY <1>3 DEF Mount
    <3>4. QED
      BY <2>2, <3>1, <3>2, <3>3 DEF PendingInv, PointInv
  <2>3. CASE pc' # "image"
    BY <1>3, <2>1, <2>3 DEF Mount, Return, PendingInv, PointInv
  <2>4. QED
    BY <2>2, <2>3
<1>4. CASE Unmount
  <2>1. /\ pc = "unwind" /\ pc' = "rmdir"
        /\ defers # <<>> /\ UNCHANGED <<defers, dirs>>
    BY <1>4 DEF Unmount, Goto
  <2>2. Last(defers) \in ToSet(defers)
    BY <2>1, Pop DEF PendingInv
  <2>3. \/ DOMAIN mounts' = DOMAIN mounts \ {Last(defers)} /\ UNCHANGED stuck
        \/ stuck' = stuck \cup {Last(defers)} /\ UNCHANGED mounts
    BY <1>4 DEF Unmount, Restrict
  <2>4. QED
    BY <2>1, <2>2, <2>3 DEF PendingInv
<1>5. CASE RemoveMountpoint
  <2>1. /\ pc = "rmdir" /\ pc' = "unwind" /\ mountpoint = Last(defers)
        /\ defers # <<>> /\ defers' = Front(defers) /\ UNCHANGED mounts
    BY <1>5 DEF RemoveMountpoint, Goto, PointInv
  <2>2. /\ ToSet(defers') = ToSet(defers) \ {mountpoint}
        /\ defers' \in Seq(Mountpoint) /\ IsInjective(defers')
    BY <2>1, Pop DEF PendingInv
  <2>3. \/ /\ mountpoint \notin DOMAIN mounts
           /\ dirs' = dirs \ {mountpoint} /\ UNCHANGED stuck
        \/ stuck' = stuck \cup {mountpoint} /\ UNCHANGED dirs
    BY <1>5 DEF RemoveMountpoint
  <2>4. QED
    BY <2>1, <2>2, <2>3 DEF PendingInv
<1>6. QED
  BY <1>1, <1>2, <1>3, <1>4, <1>5, LoudSteps

\* Each program point has the mount it needs, that of its own container.
LEMMA NextPointInv ==
  PendingInv /\ PointInv /\ [Next]_vars => PointInv'
<1> SUFFICES ASSUME PendingInv, PointInv, [Next]_vars PROVE PointInv'
  OBVIOUS
<1>1. CASE Quiet
  <2>1. UNCHANGED <<mounts, mountpoint>> => UNCHANGED Source
    BY DEF Source
  <2>2. QED
    BY <1>1, <2>1 DEF PointInv, Quiet, Copying
<1>2. CASE MakeMountpoint
  <2>1. ToSet(defers) \cup stuck \subseteq dirs /\ pc = "mkdir"
    BY <1>2 DEF MakeMountpoint, PendingInv, PointInv
  <2>2. QED
    BY <1>2, <2>1 DEF MakeMountpoint, PointInv, Return, Copying
<1>3. CASE Mount
  <2>1. CASE pc' = "image"
    <3>1. /\ defers' = Append(defers, mountpoint)
          /\ \E x \in Yield(engine, target) : mounts' = WithMount(x)
          /\ UNCHANGED <<dirs, stuck, mountpoint, setup, engine, target>>
          /\ mountpoint \in Mountpoint /\ pc = "mount"
      BY <1>3, <2>1 DEF Mount, Return, PointInv, call
    <3>2. defers' # <<>> /\ mountpoint' = Last(defers')
      BY <3>1, Push DEF PendingInv
    <3>3. Source' \in Yield(engine', target')
      <4>1. mountpoint \notin DOMAIN mounts
        BY <3>1 DEF PendingInv, PointInv
      <4>2. PICK x \in Yield(engine, target) : mounts' = WithMount(x)
        BY <3>1
      <4>3. Source' = x
        BY <3>1, <4>1, <4>2 DEF WithMount, Source
      <4>4. QED
        BY <3>1, <4>2, <4>3
    <3>4. QED
      BY <2>1, <3>1, <3>2, <3>3 DEF PointInv
  <2>2. CASE pc' # "image"
    BY <1>3, <2>2 DEF Mount, Return, PointInv, Copying
  <2>3. QED
    BY <2>1, <2>2
<1>4. CASE Unmount
  <2>1. /\ pc = "unwind" /\ pc' = "rmdir" /\ defers # <<>>
        /\ UNCHANGED <<defers, dirs>> /\ mountpoint' = Last(defers)
    BY <1>4 DEF Unmount, Goto
  <2>2. /\ Last(defers) \in ToSet(defers) /\ Last(defers) \in Mountpoint
        /\ Last(defers) \in dirs \ stuck
    BY <2>1, Pop DEF PendingInv
  <2>3. \/ UNCHANGED stuck
        \/ /\ stuck' = stuck \cup {Last(defers)} /\ UNCHANGED mounts
           /\ Last(defers) \in DOMAIN mounts
    BY <1>4 DEF Unmount
  <2>4. QED
    BY <2>1, <2>2, <2>3 DEF PointInv, Copying
<1>5. CASE RemoveMountpoint
  <2>1. /\ pc = "rmdir" /\ pc' = "unwind" /\ mountpoint = Last(defers)
        /\ mountpoint \in dirs /\ UNCHANGED mountpoint
    BY <1>5, Pop DEF RemoveMountpoint, Goto, PointInv, PendingInv
  <2>2. \/ /\ mountpoint \notin DOMAIN mounts
           /\ dirs' = dirs \ {mountpoint} /\ UNCHANGED stuck
        \/ stuck' = stuck \cup {mountpoint} /\ UNCHANGED dirs
    BY <1>5 DEF RemoveMountpoint
  <2>3. QED
    BY <2>1, <2>2 DEF PointInv, Copying
<1>6. QED
  BY <1>1, <1>2, <1>3, <1>4, <1>5, LoudSteps

\* A call has one mount for each of its passes at most.
LEMMA NextPassInv ==
  CallInv /\ CallInv' /\ PendingInv /\ PointInv /\ PassInv /\ [Next]_vars
    => PassInv'
<1> SUFFICES ASSUME CallInv, CallInv', PendingInv, PointInv, PassInv,
                    [Next]_vars
             PROVE  PassInv'
  OBVIOUS
<1>a. Len(defers) \in Nat /\ pass \in Nat
  BY DEF PendingInv, CallInv
<1>b. pc # "idle" => Passes(engine) \in Nat
  BY PassesAre DEF CallInv, Engines
<1>c. pc' # "idle" => Passes(engine') \in Nat
  BY PassesAre DEF CallInv, Engines
<1> USE DEF PassInv, Copying, Goto, Return, call, world
<1>1. CASE StartCall
  <2>1. defers' = <<>> /\ pass' = 1 /\ pc' = "pass"
    BY <1>1 DEF StartCall, PointInv
  <2>2. QED
    BY <1>c, <2>1
<1>2. CASE NextPass
  <2>1. UNCHANGED <<engine, defers>> /\ pc = "pass"
    BY <1>2 DEF NextPass
  <2>2. \/ pc' = "unwind"
        \/ pc' = "pass" /\ pass' = pass + 1
        \/ pc' = "mkdir" /\ pass <= Passes(engine) /\ UNCHANGED pass
    BY <1>2 DEF NextPass
  <2>3. QED
    BY <1>a, <1>b, <2>1, <2>2
<1>3. CASE MakeMountpoint
  BY <1>3, <1>a, <1>b DEF MakeMountpoint
<1>4. CASE Mount
  <2>1. UNCHANGED <<engine, pass>> /\ pc = "mount"
    BY <1>4 DEF Mount
  <2>2. \/ pc' = "image" /\ Len(defers') = Len(defers) + 1
        \/ pc' = "unwind" /\ UNCHANGED defers
    <3>1. mountpoint \in Mountpoint
      BY <2>1 DEF PointInv
    <3>2. QED
      BY <1>4, <3>1, Push DEF Mount, PendingInv
  <2>3. QED
    BY <1>a, <1>b, <2>1, <2>2
<1>5. CASE ExportImage
  BY <1>5, <1>a, <1>b DEF ExportImage
<1>6. CASE AfterImage
  BY <1>6, <1>a, <1>b DEF AfterImage
<1>7. CASE ExportArchive
  BY <1>7, <1>a, <1>b DEF ExportArchive
<1>8. CASE AfterArchive
  BY <1>8, <1>a, <1>b DEF AfterArchive
<1>9. CASE Unmount
  BY <1>9, <1>a, <1>b DEF Unmount
<1>10. CASE RemoveMountpoint
  <2>1. /\ pc = "rmdir" /\ pc' = "unwind" /\ UNCHANGED engine
        /\ defers # <<>> /\ defers' = Front(defers)
    BY <1>10 DEF RemoveMountpoint, PointInv
  <2>2. Len(defers') = Len(defers) - 1
    BY <2>1, Pop DEF PendingInv
  <2>3. QED
    BY <1>a, <1>b, <2>1, <2>2
<1>11. CASE EndCall
  BY <1>11 DEF EndCall
<1>12. CASE CopyImage
  BY <1>12, <1>a, <1>b DEF CopyImage
<1>13. CASE FinishImage
  BY <1>13, <1>a, <1>b DEF FinishImage
<1>14. CASE FinishArchive
  BY <1>14, <1>a, <1>b DEF FinishArchive
<1>15. CASE DamageImage
  BY <1>15, <1>a, <1>b DEF DamageImage
<1>16. CASE UNCHANGED vars
  BY <1>16 DEF vars
<1>17. QED
  BY <1>1, <1>2, <1>3, <1>4, <1>5, <1>6, <1>7, <1>8, <1>9, <1>10, <1>11,
     <1>12, <1>13, <1>14, <1>15, <1>16 DEF Next, Step, Done

-----------------------------------------------------------------------------
\* A step of an image export keeps the statuses true, and all other files'.
LEMMA ImageStep ==
  ASSUME StatusInv, NEW c \in ID, UNCHANGED archive,
         \/ Img!Begin(c) \/ Img!Rewrite(c) \/ Img!Fill(c) \/ Img!Populate(c)
         \/ Img!ReturnOk(c) \/ Img!Withdraw(c) \/ Img!Refuse(c)
         \/ Img!Damage(c)
  PROVE  StatusInv' /\ \A id \in ID : id # c => imgStatus'[id] = imgStatus[id]
<1> USE DEF StatusInv, archive, Img!Status, Img!FileState, Img!Goes
<1>1. CASE Img!Begin(c)
  BY <1>1 DEF Img!Begin
<1>2. CASE Img!Rewrite(c)
  BY <1>2 DEF Img!Rewrite
<1>3. CASE Img!Fill(c)
  BY <1>3 DEF Img!Fill
<1>4. CASE Img!Populate(c)
  BY <1>4 DEF Img!Populate
<1>5. CASE Img!ReturnOk(c)
  BY <1>5 DEF Img!ReturnOk
<1>6. CASE Img!Withdraw(c)
  BY <1>6 DEF Img!Withdraw
<1>7. CASE Img!Refuse(c)
  BY <1>7 DEF Img!Refuse
<1>8. CASE Img!Damage(c)
  BY <1>8 DEF Img!Damage
<1>9. QED
  BY <1>1, <1>2, <1>3, <1>4, <1>5, <1>6, <1>7, <1>8

\* The same of an archive export, whose file nothing else writes to.
LEMMA ArchiveStep ==
  ASSUME StatusInv, NEW c \in ID, UNCHANGED image,
         \/ Arc!Begin(c) \/ Arc!Rewrite(c) \/ Arc!Populate(c)
         \/ Arc!ReturnOk(c) \/ Arc!Withdraw(c) \/ Arc!Refuse(c)
  PROVE  StatusInv' /\ \A id \in ID : id # c => arcStatus'[id] = arcStatus[id]
<1> USE DEF StatusInv, image, Img!Status, Img!FileState, Arc!Goes
<1>1. CASE Arc!Begin(c)
  BY <1>1 DEF Arc!Begin
<1>2. CASE Arc!Rewrite(c)
  BY <1>2 DEF Arc!Rewrite
<1>3. CASE Arc!Populate(c)
  BY <1>3 DEF Arc!Populate
<1>4. CASE Arc!ReturnOk(c)
  BY <1>4 DEF Arc!ReturnOk
<1>5. CASE Arc!Withdraw(c)
  BY <1>5 DEF Arc!Withdraw
<1>6. CASE Arc!Refuse(c)
  BY <1>6 DEF Arc!Refuse
<1>7. QED
  BY <1>1, <1>2, <1>3, <1>4, <1>5, <1>6

\* The steps at which files and statuses may change, and whose status.
Still == UNCHANGED <<image, archive>>
ImageMoves ==
  /\ pc \in {"image", "imaging", "filled"} /\ UNCHANGED arcStatus
  /\ \A id \in ID : id # target => imgStatus'[id] = imgStatus[id]
ArchiveMoves ==
  /\ pc \in {"archive", "archiving"} /\ UNCHANGED imgStatus
  /\ \A id \in ID : id # target => arcStatus'[id] = arcStatus[id]

\* Only the status of the container under way changes, and the promises keep
\* what they say of its file.
LEMMA NextStatusInv ==
  CallInv /\ StatusInv /\ [Next]_vars =>
    /\ StatusInv'
    /\ UNCHANGED <<imgStatus, arcStatus>> \/ ImageMoves \/ ArchiveMoves
<1> SUFFICES ASSUME CallInv, StatusInv, [Next]_vars
             PROVE  /\ StatusInv'
                    /\ \/ UNCHANGED <<imgStatus, arcStatus>>
                       \/ ImageMoves \/ ArchiveMoves
  OBVIOUS
<1>a. pc # "idle" => target \in ID
  BY DEF CallInv
<1>1. CASE Still
  BY <1>1 DEF Still, StatusInv, image, archive
<1>2. CASE ExportImage /\ ~Still
  BY <1>2, <1>a, ImageStep
     DEF ExportImage, Still, ImageMoves, Goto, archive
<1>3. CASE CopyImage
  BY <1>3, <1>a, ImageStep DEF CopyImage, ImageMoves, Goto, archive
<1>4. CASE FinishImage
  BY <1>4, <1>a, ImageStep DEF FinishImage, ImageMoves, archive
<1>5. CASE DamageImage
  BY <1>5, ImageStep DEF DamageImage, Img!Damage, archive
<1>6. CASE ExportArchive /\ ~Still
  BY <1>6, <1>a, ArchiveStep
     DEF ExportArchive, Still, ArchiveMoves, Goto, image
<1>7. CASE FinishArchive
  BY <1>7, <1>a, ArchiveStep DEF FinishArchive, ArchiveMoves, image
<1>8. CASE StartCall \/ NextPass \/ MakeMountpoint \/ Mount
  BY <1>1, <1>8 DEF StartCall, NextPass, MakeMountpoint, Mount, Still
<1>9. CASE AfterImage \/ AfterArchive \/ Unmount
  BY <1>1, <1>9 DEF AfterImage, AfterArchive, Unmount, Still
<1>10. CASE RemoveMountpoint \/ EndCall \/ UNCHANGED vars
  BY <1>1, <1>10 DEF RemoveMountpoint, EndCall, Still, vars
<1>11. QED
  BY <1>1, <1>2, <1>3, <1>4, <1>5, <1>6, <1>7, <1>8, <1>9, <1>10
     DEF Next, Step, Done

\* A step that leaves setup and the results alone leaves what nil says true,
\* for the container whose statuses change has no result yet.
LEMMA ResultsStand ==
  ASSUME CallInv, ResultInv, UNCHANGED <<setup, result>>,
         \/ UNCHANGED <<imgStatus, arcStatus>> \/ ImageMoves \/ ArchiveMoves
  PROVE  \A id \in ID :
           (result[id] = "ok" /\ \A e \in Engines : Reached(e))'
             => Exported(id)'
<1> SUFFICES ASSUME NEW id \in ID, result[id] = "ok",
                    \A e \in Engines : Reached(e)
             PROVE  Exported(id)'
  BY DEF Engines
<1>1. Exported(id)
  BY DEF ResultInv
<1>2. UNCHANGED <<imgStatus[id], arcStatus[id]>>
  <2>1. ImageMoves \/ ArchiveMoves => id # target
    BY DEF ResultInv, ImageMoves, ArchiveMoves
  <2>2. QED
    BY <2>1 DEF ImageMoves, ArchiveMoves
<1>3. QED
  BY <1>1, <1>2 DEF Exported

\* Results are told when the call returns, and stay true.
LEMMA NextResultInv ==
  CallInv /\ CallInv' /\ StatusInv /\ ResultInv /\ [Next]_vars => ResultInv'
<1> SUFFICES ASSUME CallInv, CallInv', StatusInv, ResultInv, [Next]_vars
             PROVE  ResultInv'
  OBVIOUS
<1> DEFINE Told ==
      \A id \in ID :
        result[id] = "ok" /\ (\A e \in Engines : Reached(e)) =>
          Exported(id)
<1>a. \/ UNCHANGED <<imgStatus, arcStatus>> \/ ImageMoves \/ ArchiveMoves
  BY NextStatusInv
<1>b. UNCHANGED <<setup, result>> => Told'
  BY <1>a, ResultsStand
<1>c. pc # "idle" => target \in ID /\ engine \in Engines
  BY DEF CallInv
<1>d. ASSUME NEW c \in ID, NEW r \in {"none", "error"},
             result' = [result EXCEPT ![c] = r],
             UNCHANGED <<setup, imgStatus, arcStatus>>
      PROVE  Told' /\ result'[c] = r
                   /\ result' \in [ID -> {"none", "ok", "error"}]
  BY <1>d DEF ResultInv, Exported, Engines
<1> HIDE DEF Told
<1>1. CASE StartCall
  <2>1. /\ Head(todo).id \in ID /\ target' = Head(todo).id
    BY <1>1 DEF StartCall, Goto, CallInv
  <2>2. /\ pc' = "pass" /\ pass' = 1
        /\ result' = [result EXCEPT ![Head(todo).id] = "none"]
        /\ UNCHANGED <<setup, imgStatus, arcStatus>>
    BY <1>1 DEF StartCall, Goto, image, archive
  <2>3. /\ Told' /\ result'[target'] = "none"
        /\ result' \in [ID -> {"none", "ok", "error"}]
    BY <1>d, <2>1, <2>2
  <2>4. QED
    BY <2>2, <2>3 DEF ResultInv, Told
<1>2. CASE NextPass
  <2>1. /\ pc = "pass" /\ UNCHANGED <<setup, engine, target>>
        /\ UNCHANGED <<imgStatus, arcStatus>>
    BY <1>2 DEF NextPass, call, Return, image, archive
  <2>2. CASE UNCHANGED result /\ pc' = "pass" /\ ~engine.lists
    BY <1>b, <2>1, <2>2 DEF ResultInv, Told
  <2>3. CASE UNCHANGED result /\ pc' = "mkdir"
    BY <1>b, <2>1, <2>3 DEF ResultInv, Told
  <2>4. CASE Return("error")
    BY <1>c, <1>d, <2>1, <2>4 DEF ResultInv, Told, Return
  <2>5. CASE pass > Passes(engine) /\ Return("ok")
    <3>1. (\A e \in Engines : Reached(e)) => Exported(target)
      <4>1. \A e \in Engines : Passes(e) \in Nat
        BY PassesAre DEF CallInv, Engines
      <4>2. pass \in Nat
        BY DEF CallInv
      <4>3. QED
        BY <1>c, <2>1, <2>5, <4>1, <4>2 DEF ResultInv, Reached
    <3>2. result' = [result EXCEPT ![target] = "ok"] /\ pc' = "unwind"
      BY <2>5 DEF Return
    <3>3. Told'
      BY <1>c, <2>1, <3>1, <3>2 DEF ResultInv, Told, Exported, Engines
    <3>4. QED
      BY <1>c, <2>1, <3>2, <3>3 DEF ResultInv, Told
  <2>6. QED
    BY <1>2, <2>2, <2>3, <2>4, <2>5 DEF NextPass
<1>3. CASE MakeMountpoint
  <2>1. /\ pc = "mkdir" /\ UNCHANGED <<setup, target, imgStatus, arcStatus>>
        /\ \/ UNCHANGED result /\ pc' = "mount"
           \/ result' = [result EXCEPT ![target] = "error"] /\ pc' = "unwind"
    BY <1>3 DEF MakeMountpoint, Return, call, image, archive
  <2>2. QED
    BY <1>b, <1>c, <1>d, <2>1 DEF ResultInv, Told
<1>4. CASE Mount
  <2>1. /\ pc = "mount" /\ UNCHANGED <<setup, target, imgStatus, arcStatus>>
        /\ \/ UNCHANGED result /\ pc' = "image"
           \/ result' = [result EXCEPT ![target] = "error"] /\ pc' = "unwind"
    BY <1>4 DEF Mount, Return, call, image, archive
  <2>2. QED
    BY <1>b, <1>c, <1>d, <2>1 DEF ResultInv, Told
<1>5. CASE ExportImage
  <2>1. /\ pc = "image" /\ UNCHANGED <<setup, target, result>>
        /\ \/ pc' = "imaging"
           \/ pc' = "archive" /\ ~setup.image
    BY <1>5 DEF ExportImage, Goto, call
  <2>2. QED
    BY <1>b, <2>1 DEF ResultInv, Told
<1>6. CASE AfterImage
  <2>1. /\ pc \in {"imaging", "filled"}
        /\ UNCHANGED <<setup, target, imgStatus, arcStatus>>
        /\ \/ /\ UNCHANGED result /\ pc' = "archive"
              /\ imgStatus[target] = "ok"
           \/ result' = [result EXCEPT ![target] = "error"] /\ pc' = "unwind"
    BY <1>6 DEF AfterImage, Return, call, image, archive
  <2>2. QED
    BY <1>b, <1>c, <1>d, <2>1 DEF ResultInv, Told
<1>7. CASE ExportArchive
  <2>1. /\ pc = "archive" /\ UNCHANGED <<setup, target, result, imgStatus>>
        /\ \/ pc' = "archiving"
           \/ pc' = "pass" /\ ~setup.archive /\ UNCHANGED arcStatus
    BY <1>7 DEF ExportArchive, Goto, image, archive
  <2>2. QED
    BY <1>b, <2>1 DEF ResultInv, Told, Exported
<1>8. CASE AfterArchive
  <2>1. /\ pc = "archiving"
        /\ UNCHANGED <<setup, target, imgStatus, arcStatus>>
        /\ \/ /\ UNCHANGED result /\ pc' = "pass"
              /\ arcStatus[target] = "ok"
           \/ result' = [result EXCEPT ![target] = "error"] /\ pc' = "unwind"
    BY <1>8 DEF AfterArchive, Return, image, archive
  <2>2. QED
    BY <1>b, <1>c, <1>d, <2>1 DEF ResultInv, Told, Exported
<1>9. CASE CopyImage \/ FinishImage
  <2>1. /\ pc \in {"imaging", "filled"} /\ pc' \in {"imaging", "filled"}
        /\ UNCHANGED <<setup, target, result>>
    BY <1>9 DEF CopyImage, FinishImage, Goto, call
  <2>2. QED
    BY <1>b, <2>1 DEF ResultInv, Told
<1>10. CASE FinishArchive
  <2>1. /\ pc = "archiving"
        /\ UNCHANGED <<pc, setup, target, result, imgStatus>>
    BY <1>10 DEF FinishArchive, call, image
  <2>2. QED
    BY <1>b, <2>1 DEF ResultInv, Told
<1>11. CASE DamageImage \/ UNCHANGED vars
  <2>1. /\ UNCHANGED <<pc, setup, engine, target, pass, result>>
        /\ UNCHANGED <<imgStatus, arcStatus>>
    BY <1>11 DEF DamageImage, Img!Damage, call, image, archive, vars
  <2>2. QED
    BY <1>b, <2>1 DEF ResultInv, Told, Exported
<1>12. CASE Unmount \/ RemoveMountpoint \/ EndCall
  <2>1. /\ pc' \in {"rmdir", "unwind", "idle"} /\ UNCHANGED <<setup, result>>
    BY <1>12 DEF Unmount, RemoveMountpoint, EndCall, Goto, call
  <2>2. QED
    BY <1>b, <2>1 DEF ResultInv, Told
<1>13. QED
  BY <1>1, <1>2, <1>3, <1>4, <1>5, <1>6, <1>7, <1>8, <1>9, <1>10, <1>11,
     <1>12 DEF Next, Step, Done

-----------------------------------------------------------------------------
\* The sources: a file that is populated, or stays so, has a source of its
\* own, which changes only as the copy fills the file.
LEMMA NextSourceInv ==
  CallInv /\ PointInv /\ StatusInv /\ SourceInv /\ [Next]_vars => SourceInv'
<1> SUFFICES ASSUME CallInv, PointInv, StatusInv, SourceInv, [Next]_vars
             PROVE  SourceInv'
  OBVIOUS
<1>a. pc # "idle" => target \in ID /\ engine \in Engines
                     /\ Named(engine, target) # {}
  BY DEF CallInv
<1>b. \A id, x : setup' = setup => (Owns(id, x)' <=> Owns(id, x))
  BY DEF Owns, Engines
<1>c. pc \in Copying => Owns(target, Source)
  BY <1>a DEF PointInv, Owns, Copying
<1>d. imgFile \in [ID -> Img!FileState] /\ arcFile \in [ID -> Img!FileState]
  BY DEF StatusInv
<1> USE DEF SourceInv, FilesHoldOwn
<1>1. ASSUME Still, setup' = setup, pc' = "filled" => UNCHANGED <<pc, target>>
      PROVE  SourceInv'
  BY <1>1, <1>b DEF Still, image, archive
<1>2. CASE ExportImage /\ ~Still
  BY <1>2, <1>b DEF ExportImage, Still, Img!Begin, Goto, call, archive
<1>3. CASE CopyImage
  <2>1. /\ pc \in Copying /\ UNCHANGED <<setup, target, archive>>
        /\ target \in ID
    BY <1>3, <1>a DEF CopyImage, Goto, Copying, call
  <2>2. CASE Img!Rewrite(target) /\ UNCHANGED <<pc, imgSource>>
    BY <1>b, <1>d, <2>1, <2>2 DEF Img!Rewrite, archive
  <2>3. CASE /\ Img!Fill(target)
             /\ imgSource' = [imgSource EXCEPT ![target] = Source]
    BY <1>b, <1>c, <1>d, <2>1, <2>3 DEF Img!Fill, archive
  <2>4. QED
    BY <1>3, <2>2, <2>3 DEF CopyImage
<1>4. CASE FinishImage
  <2>1. /\ UNCHANGED <<pc, setup, target, imgSource, archive>> /\ target \in ID
    BY <1>4, <1>a DEF FinishImage, call
  <2>2. \/ pc = "filled" /\ Img!Populate(target)
        \/ Img!ReturnOk(target) \/ Img!Withdraw(target) \/ Img!Refuse(target)
    BY <1>4 DEF FinishImage
  <2>3. \A id \in ID : imgFile'[id] = "populated" =>
          imgFile[id] = "populated" \/ (id = target /\ pc = "filled")
    BY <1>d, <2>1, <2>2
       DEF Img!Populate, Img!ReturnOk, Img!Withdraw, Img!Refuse
  <2>4. QED
    BY <1>b, <2>1, <2>3 DEF archive
<1>5. CASE DamageImage
  <2>1. /\ UNCHANGED <<pc, setup, target, imgSource, archive>>
        /\ \A id \in ID : imgFile'[id] = "populated" =>
             imgFile[id] = "populated"
    BY <1>5, <1>d DEF DamageImage, Img!Damage, call
  <2>2. QED
    BY <1>b, <2>1 DEF archive
<1>6. CASE ExportArchive /\ ~Still
  BY <1>6, <1>b DEF ExportArchive, Still, Arc!Begin, Goto, image
<1>7. CASE FinishArchive
  <2>1. /\ pc = "archiving" /\ UNCHANGED <<pc, setup, target, image>>
        /\ target \in ID
    BY <1>7, <1>a DEF FinishArchive, call
  <2>2. CASE /\ UNCHANGED arcSource
             /\ \/ Arc!Rewrite(target) \/ Arc!ReturnOk(target)
                \/ Arc!Withdraw(target) \/ Arc!Refuse(target)
    <3>1. \A id \in ID : arcFile'[id] = "populated" =>
            arcFile[id] = "populated"
      BY <1>d, <2>1, <2>2
         DEF Arc!Rewrite, Arc!ReturnOk, Arc!Withdraw, Arc!Refuse
    <3>2. QED
      BY <1>b, <2>1, <2>2, <3>1 DEF image
  <2>3. CASE /\ Arc!Populate(target)
             /\ arcSource' = [arcSource EXCEPT ![target] = Source]
    <3>1. Owns(target, Source)
      BY <1>c, <2>1 DEF Copying
    <3>2. arcFile' \in {arcFile, [arcFile EXCEPT ![target] = "populated"]}
      BY <2>3 DEF Arc!Populate
    <3>3. QED
      BY <1>b, <1>d, <2>1, <2>3, <3>1, <3>2 DEF image
  <2>4. QED
    BY <1>7, <2>2, <2>3 DEF FinishArchive
<1>8. CASE StartCall \/ NextPass \/ MakeMountpoint \/ Mount
  BY <1>1, <1>8 DEF StartCall, NextPass, MakeMountpoint, Mount, Still, Goto,
     Return, call
<1>9. CASE AfterImage \/ AfterArchive \/ Unmount
  BY <1>1, <1>9 DEF AfterImage, AfterArchive, Unmount, Still, Goto, Return,
     call
<1>10. CASE RemoveMountpoint \/ EndCall \/ UNCHANGED vars
  BY <1>1, <1>10 DEF RemoveMountpoint, EndCall, Still, vars, Goto, call
<1>11. CASE (ExportImage \/ ExportArchive) /\ Still
  BY <1>1, <1>11 DEF ExportImage, ExportArchive, Goto, call
<1>12. QED
  BY <1>2, <1>3, <1>4, <1>5, <1>6, <1>7, <1>8, <1>9, <1>10, <1>11
     DEF Next, Step, Done

-----------------------------------------------------------------------------
\* The selection

\* A file appears only for the container under way.
LEMMA FilesAppear ==
  ASSUME CallInv, StatusInv, [Next]_vars, NEW id \in ID,
         ~(pc # "idle" /\ id = target)
  PROVE  /\ imgFile'[id] # "absent" => imgFile[id] # "absent"
         /\ arcFile'[id] # "absent" => arcFile[id] # "absent"
<1>a. pc # "idle" => target \in ID /\ id # target
  BY DEF CallInv
<1>b. /\ imgFile \in [ID -> Img!FileState] /\ arcFile \in [ID -> Img!FileState]
  BY DEF StatusInv
<1>1. CASE Still
  BY <1>1 DEF Still, image, archive
<1>2. CASE ExportImage /\ ~Still
  BY <1>2 DEF ExportImage, Still, Img!Begin, archive
<1>3. CASE CopyImage
  BY <1>3, <1>a, <1>b DEF CopyImage, Goto, Img!Rewrite, Img!Fill, archive
<1>4. CASE FinishImage
  <2>1. pc # "idle" /\ UNCHANGED arcFile
    BY <1>4 DEF FinishImage, archive
  <2>2. \/ Img!Populate(target) \/ Img!ReturnOk(target)
        \/ Img!Withdraw(target) \/ Img!Refuse(target)
    BY <1>4 DEF FinishImage
  <2>3. QED
    BY <1>a, <1>b, <2>1, <2>2
       DEF Img!Populate, Img!ReturnOk, Img!Withdraw, Img!Refuse
<1>5. CASE DamageImage
  BY <1>5, <1>b DEF DamageImage, Img!Damage, archive
<1>6. CASE ExportArchive /\ ~Still
  BY <1>6 DEF ExportArchive, Still, Arc!Begin, image
<1>7. CASE FinishArchive
  <2>1. pc # "idle" /\ UNCHANGED imgFile
    BY <1>7 DEF FinishArchive, image
  <2>2. \/ Arc!Rewrite(target) \/ Arc!Populate(target)
        \/ Arc!ReturnOk(target) \/ Arc!Withdraw(target)
        \/ Arc!Refuse(target)
    BY <1>7 DEF FinishArchive
  <2>3. QED
    BY <1>a, <1>b, <2>1, <2>2
       DEF Arc!Rewrite, Arc!Populate, Arc!ReturnOk, Arc!Withdraw, Arc!Refuse
<1>8. CASE StartCall \/ NextPass \/ MakeMountpoint \/ Mount
  BY <1>1, <1>8 DEF StartCall, NextPass, MakeMountpoint, Mount, Still
<1>9. CASE AfterImage \/ AfterArchive \/ Unmount
  BY <1>1, <1>9 DEF AfterImage, AfterArchive, Unmount, Still
<1>10. CASE RemoveMountpoint \/ EndCall \/ UNCHANGED vars
  BY <1>1, <1>10 DEF RemoveMountpoint, EndCall, Still, vars
<1>11. QED
  BY <1>1, <1>2, <1>3, <1>4, <1>5, <1>6, <1>7, <1>8, <1>9, <1>10
     DEF Next, Step, Done

\* But for the start of a call, a step keeps the call, and its result once
\* there is one; the call ends with a result.
Goes ==
  /\ UNCHANGED <<setup, todo, engine, target>>
  /\ pc' # "idle" => pc # "idle"
  /\ pc' = "idle" => pc \in {"idle", "unwind"}
  /\ \/ UNCHANGED result /\ (pc' \in {"unwind", "rmdir"} =>
                               pc \in {"unwind", "rmdir"})
     \/ \E res \in {"ok", "error"} :
          result' = [result EXCEPT ![target] = res] /\ pc # "idle"

LEMMA CallGoes ==
  ASSUME [Next]_vars, ~StartCall
  PROVE  Goes
<1> USE DEF Goes, Goto, Return, call
<1>1. CASE NextPass
  BY <1>1 DEF NextPass
<1>2. CASE MakeMountpoint
  BY <1>2 DEF MakeMountpoint
<1>3. CASE Mount
  BY <1>3 DEF Mount
<1>4. CASE ExportImage
  BY <1>4 DEF ExportImage
<1>5. CASE AfterImage
  BY <1>5 DEF AfterImage
<1>6. CASE ExportArchive
  BY <1>6 DEF ExportArchive
<1>7. CASE AfterArchive
  BY <1>7 DEF AfterArchive
<1>8. CASE Unmount
  BY <1>8 DEF Unmount
<1>9. CASE RemoveMountpoint
  BY <1>9 DEF RemoveMountpoint
<1>10. CASE EndCall
  BY <1>10 DEF EndCall
<1>11. CASE CopyImage
  BY <1>11 DEF CopyImage
<1>12. CASE FinishImage
  BY <1>12 DEF FinishImage
<1>13. CASE FinishArchive
  BY <1>13 DEF FinishArchive
<1>14. CASE DamageImage
  BY <1>14 DEF DamageImage
<1>15. CASE UNCHANGED vars
  BY <1>15 DEF vars
<1>16. QED
  BY <1>1, <1>2, <1>3, <1>4, <1>5, <1>6, <1>7, <1>8, <1>9, <1>10, <1>11,
     <1>12, <1>13, <1>14, <1>15 DEF Next, Step, Done

\* Every step keeps the calls and the files those of the selection.
LEMMA NextSelectInv ==
  CallInv /\ StatusInv /\ ResultInv /\ SelectInv /\ [Next]_vars => SelectInv'
<1> SUFFICES ASSUME CallInv, StatusInv, ResultInv, SelectInv, [Next]_vars
             PROVE  SelectInv'
  OBVIOUS
<1>a. result \in [ID -> {"none", "ok", "error"}]
  BY DEF ResultInv
<1>b. pc # "idle" => target \in ID /\ engine \in Engines
  BY DEF CallInv
<1>c. setup' = setup
  BY CallGoes DEF Goes, StartCall
<1>d. /\ \A e, id : Selects(e, id)' <=> Selects(e, id)
      /\ \A e, id : Due(e, id)' <=> Due(e, id)
      /\ Engines' = Engines
  BY <1>c DEF Due, Selects, Engines
<1>1. ASSUME setup.all
      PROVE  \A id \in ID :
               imgFile'[id] # "absent" \/ arcFile'[id] # "absent" =>
                 \E e \in Engines : Selects(e, id)
  BY <1>1, <1>b, FilesAppear DEF SelectInv
<1>2. CASE StartCall
  <2> DEFINE c == Head(todo)
  <2>1. /\ c \in ToSet(todo) /\ ToSet(todo) = {c} \cup ToSet(Tail(todo))
        /\ c.id \in ID
    <3>1. todo # <<>> /\ todo \in Seq([engine : Engines, id : ID])
      BY <1>2 DEF StartCall, CallInv
    <3> DEFINE C == [engine : Engines, id : ID]
    <3>2. /\ c \in C /\ c \in ToSet(todo)
          /\ ToSet(todo) = {c} \cup ToSet(Tail(todo))
      <4> HIDE DEF C
      <4> QED
        BY <3>1, HeadAndTail DEF C
    <3>3. QED
      BY <3>2
  <2>2. /\ pc = "idle" /\ pc' = "pass" /\ todo' = Tail(todo)
        /\ engine' = c.engine /\ target' = c.id
        /\ result' = [result EXCEPT ![c.id] = "none"]
    BY <1>2 DEF StartCall, Goto
  <2> HIDE DEF c
  <2>3. ASSUME setup.all, NEW e \in Engines, NEW id \in ID, Due(e, id)
        PROVE  \/ \E d \in ToSet(todo') : d.id = id
               \/ id = target'
               \/ result'[id] # "none"
    <3>1. (\E d \in ToSet(todo) : d.id = id) \/ result[id] # "none"
      BY <2>2, <2>3 DEF SelectInv
    <3>2. QED
      BY <1>a, <2>1, <2>2, <3>1
  <2>4. setup.all => /\ \A d \in ToSet(todo') : Selects(d.engine, d.id)
                     /\ Selects(engine', target')
    BY <2>1, <2>2 DEF SelectInv
  <2>5. QED
    BY <1>1, <1>c, <1>d, <2>2, <2>3, <2>4 DEF SelectInv
<1>3. CASE Goes
  <2>1. /\ UNCHANGED <<todo, engine, target>>
        /\ pc' # "idle" => pc # "idle"
    BY <1>3 DEF Goes
  <2>2. /\ pc' \in {"unwind", "rmdir"} => result'[target] # "none"
        /\ pc' = "idle" /\ pc # "idle" => result'[target] # "none"
        /\ \A id \in ID : result[id] # "none" => result'[id] # "none"
    BY <1>3, <1>a, <1>b DEF Goes, SelectInv
  <2>3. ASSUME setup.all, NEW e \in Engines, NEW id \in ID, Due(e, id)
        PROVE  \/ \E d \in ToSet(todo') : d.id = id
               \/ pc' # "idle" /\ id = target'
               \/ result'[id] # "none"
    BY <2>1, <2>2, <2>3 DEF SelectInv
  <2>4. setup.all => /\ \A d \in ToSet(todo') : Selects(d.engine, d.id)
                     /\ pc' # "idle" => Selects(engine', target')
    BY <2>1 DEF SelectInv
  <2>5. QED
    BY <1>1, <1>c, <1>d, <2>1, <2>2, <2>3, <2>4 DEF SelectInv
<1>4. QED
  BY <1>2, <1>3, CallGoes

-----------------------------------------------------------------------------
LEMMA InitIInv == Init => IInv
<1> SUFFICES ASSUME Init PROVE IInv
  OBVIOUS
<1>1. CallInv
  BY CallsAre DEF Init, CallInv, Engines, PC, Call
<1>2. MountInv
  BY DEF Init, MountInv, PendingInv, PointInv, PassInv, Copying, ToSet,
         IsInjective
<1>3. StatusInv
  BY DEF Init, StatusInv, Img!Init, Arc!Init, Img!Status, Img!FileState
<1>4. ResultInv
  BY DEF Init, ResultInv
<1>5. SourceInv
  BY DEF Init, SourceInv, FilesHoldOwn, Img!Init, Arc!Init
<1>6. SelectInv
  <2>1. /\ setup \in Setups /\ todo = Calls(setup) /\ pc = "idle"
        /\ \A id \in ID : imgFile[id] = "absent" /\ arcFile[id] = "absent"
    BY DEF Init, Img!Init, Arc!Init
  <2>2. ASSUME setup.all
        PROVE  /\ \A c \in ToSet(todo) : Selects(c.engine, c.id)
               /\ \A e \in Engines, id \in ID : Due(e, id) =>
                    \E c \in ToSet(todo) : c.id = id
    <3>1. ToSet(todo) =
            {c \in Call(setup) : /\ Keeps(setup, c.engine, c.id)
                                 /\ Reached(c.engine)}
      BY <2>1, <2>2, CallsAre
    <3>2. \A e, id : Keeps(setup, e, id) <=> Selects(e, id)
      BY DEF Keeps, Selects
    <3>3. ASSUME NEW e \in Engines, NEW id \in ID, Due(e, id)
          PROVE  \E c \in ToSet(todo) : c.id = id
      <4> DEFINE c == [engine |-> e, id |-> id]
      <4>1. c \in Call(setup) /\ c.engine = e /\ c.id = id
        BY DEF Call, Engines
      <4> HIDE DEF c
      <4>2. c \in ToSet(todo)
        BY <3>1, <3>2, <3>3, <4>1 DEF Due
      <4>3. QED
        BY <4>1, <4>2
    <3>4. QED
      BY <3>1, <3>2, <3>3
  <2>3. QED
    BY <2>1, <2>2 DEF SelectInv
<1>7. QED
  BY <1>1, <1>2, <1>3, <1>4, <1>5, <1>6 DEF IInv

LEMMA NextIInv == IInv /\ [Next]_vars => IInv'
BY NextCallInv, NextPendingInv, NextPointInv, NextPassInv, NextStatusInv,
   NextResultInv, NextSourceInv, NextSelectInv DEF IInv, MountInv

\* The inductive invariant of the export loops.
THEOREM Invariant == Spec => []IInv
BY InitIInv, NextIInv, PTL DEF Spec

\* Every variable keeps its type, for every setup whose calls have theirs.
THEOREM TypeCorrect == Spec => []TypeOK
<1>1. IInv => TypeOK
  BY DEF IInv, CallInv, MountInv, PendingInv, PointInv, StatusInv, ResultInv,
         SourceInv, TypeOK
<1>2. QED
  BY <1>1, Invariant, PTL

\* A populated file holds what MountContainer of its own ID left at a mount
\* point, in all explorers' ExportContainer and over all the calls.
THEOREM SourceIsOwn == Spec => []FilesHoldOwn
<1>1. IInv => FilesHoldOwn
  BY DEF IInv, SourceInv
<1>2. QED
  BY <1>1, Invariant, PTL

\* On every path of a call each mount and directory is on the defer stack or
\* its clean-up was refused, and only refused ones outlive the call.
THEOREM NothingIsLost == Spec => []MountsAccounted
<1>1. IInv => MountsAccounted
  <2> SUFFICES ASSUME IInv PROVE MountsAccounted
    OBVIOUS
  <2>1. /\ DOMAIN mounts \subseteq ToSet(defers) \cup stuck
        /\ dirs \subseteq ToSet(defers) \cup stuck \cup {mountpoint}
    BY DEF IInv, MountInv, PendingInv
  <2>2. pc = "idle" => dirs = stuck
    BY NothingIn DEF IInv, MountInv, PendingInv, PointInv
  <2>3. pc # "idle" => IsInjective(defers) /\ Len(defers) <= Passes(engine)
    BY DEF IInv, MountInv, PendingInv, PassInv
  <2>4. QED
    BY <2>1, <2>2, <2>3 DEF MountsAccounted
<1>2. QED
  BY <1>1, Invariant, PTL

\* An ExportContainer that returned nil has populated the files asked for,
\* where every explorer lists its containers and makes a pass.
THEOREM NilIsTrue == Spec => []NilMeansExported
<1>1. IInv => NilMeansExported
  BY DEF IInv, StatusInv, ResultInv, Exported, NilMeansExported
<1>2. QED
  BY <1>1, Invariant, PTL

\* export --all is the selection and nothing else: no file of a container
\* that is filtered out, and a result for each that is not, where its engine
\* can be listed (ExportAllContainers of the three explorers).
THEOREM SelectionOnly == Spec => []SelectionIsExported
<1>1. IInv => SelectionIsExported
  <2> SUFFICES ASSUME IInv, setup.all, NEW id \in ID
               PROVE  /\ imgFile[id] # "absent" \/ arcFile[id] # "absent" =>
                           \E e \in Engines : Selects(e, id)
                      /\ Finished /\ result[id] = "none" =>
                           \A e \in Engines :
                             Reached(e) => ~Selects(e, id)
    BY DEF SelectionIsExported
  <2>1. ASSUME Finished, NEW e \in Engines, Due(e, id)
        PROVE  result[id] # "none"
    <3>1. pc = "idle" /\ ToSet(todo) = {}
      BY <2>1, NothingIn DEF Finished
    <3>2. QED
      BY <2>1, <3>1 DEF IInv, SelectInv
  <2>2. QED
    BY <2>1 DEF IInv, SelectInv, Due
<1>2. QED
  BY <1>1, Invariant, PTL
=============================================================================
