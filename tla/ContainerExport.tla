--------------------------- MODULE ContainerExport ---------------------------
(***************************************************************************)
(* The export command over the explorers: cmd/commands/export.go picks the *)
(* explorers, explorer.ExportAllContainers or ExportContainer mounts the   *)
(* container once per namespace, exports its files and, when the function  *)
(* returns, unwinds the deferred unmounts in LIFO order.                   *)
(*                                                                         *)
(* The two file exports are the promises that ImageExport and              *)
(* ArchiveExport implement; their steps interleave with nothing else, for  *)
(* the command is one thread, but a damaged image can change at any time.  *)
(***************************************************************************)
EXTENDS Naturals, SequencesExt, Selection

CONSTANTS
  ID,              \* container IDs, the names of the exported files
  Mountpoint,      \* names utils.GetMountPoint can draw
  Setups,          \* the evidence and the options a run may meet
  MaxStuck,        \* bound: mount points that may fail to be cleaned up
  None             \* no container, mount point or content

\* A setup is [engines, image, archive, support, all, arg].  An engine is
\* [type, namespaces, names, lists, listing]: how many namespaces there are,
\* whether ListNamespaces and ListContainers succeed, and the records in
\* their order.  A record is [id, name, yields, support, match]: yields is
\* what may be at the mount point when MountContainer of it returned nil,
\* None if nothing was mounted, and match is IncludeContainer.

VARIABLES
  setup, todo,                   \* the calls of ExportContainer still to make
  pc, engine, target, pass,      \* the call under way
  mountpoint, defers,            \* its locals: defers is the defer stack
  mounts,                        \* mount point -> content, all live mounts
  dirs, stuck,                   \* mount directories; those umount refused
  result,                        \* history: [ID -> result of the last call]
  imgStatus, imgFile, imgHeld, imgKept,      \* promise: raw images
  arcStatus, arcFile, arcKept,               \* promise: archives
  imgSource, arcSource           \* history: [ID -> what was copied into it]

image == <<imgStatus, imgFile, imgHeld, imgKept, imgSource>>
archive == <<arcStatus, arcFile, arcKept, arcSource>>
call == <<setup, todo, engine, target, pass>>
world == <<mountpoint, defers, mounts, dirs, stuck>>
vars == <<call, pc, world, result, image, archive>>

Img == INSTANCE ExportPromise WITH Container <- ID, status <- imgStatus,
         file <- imgFile, held <- imgHeld, kept <- imgKept
Arc == INSTANCE ExportPromise WITH Container <- ID, status <- arcStatus,
         file <- arcFile, held <- {}, kept <- arcKept

-----------------------------------------------------------------------------
\* Which calls a command makes.

IDs(e) == {e.listing[i].id : i \in DOMAIN e.listing}

\* podman has one pass; containerd and docker one per namespace.
Passes(e) == IF e.type = "podman" THEN 1 ELSE e.namespaces

\* The records that GetContainerByID may mean: podman takes names as well.
Named(e, arg) ==
  {r \in ToSet(e.listing) : r.id = arg \/ (e.type = "podman" /\ r.name = arg)}

\* The first of them is the one it returns, and the one that is mounted.
Record(e, arg) == e.listing[First(e.listing, Named(e, arg))]
Yield(e, id) == Record(e, id).yields

\* Only containerd finds an ID without listing all the containers, but it
\* goes through the namespaces.
Finds(e, arg) ==
  /\ Named(e, arg) # {}
  /\ IF e.type = "containerd" THEN e.names ELSE e.lists

\* ForMatchingContainer: the first explorer that knows the argument.
Matching(s) ==
  LET i == First(s.engines, {e \in ToSet(s.engines) : Finds(e, s.arg)})
      e == s.engines[i]
  IN  IF i = 0 THEN <<>> ELSE <<[engine |-> e, id |-> Record(e, s.arg).id]>>

\* ExportAllContainers: each pass goes through the whole listing.
Included(s, e) ==
  LET keep == {r \in ToSet(e.listing) : r.match /\ (s.support \/ ~r.support)}
      kept == Only(e.listing, keep)
      once == [i \in DOMAIN kept |-> [engine |-> e, id |-> kept[i].id]]
  IN  IF e.names /\ e.lists THEN FlattenSeq([p \in 1..Passes(e) |-> once])
      ELSE <<>>

Calls(s) ==
  IF s.all
  THEN FlattenSeq([i \in DOMAIN s.engines |-> Included(s, s.engines[i])])
  ELSE Matching(s)

\* What the theorems assume of a setup: engines and listings are sequences,
\* the records have IDs, and ListNamespaces returns a number of namespaces.
ASSUME SetupsAssumption ==
  \A s \in Setups :
    /\ s.engines \in Seq(ToSet(s.engines))
    /\ \A e \in ToSet(s.engines) :
         /\ e.listing \in Seq(ToSet(e.listing)) /\ IDs(e) \subseteq ID
         /\ e.namespaces \in Nat

-----------------------------------------------------------------------------
PC == {"idle", "pass", "mkdir", "mount", "image", "imaging", "filled",
       "archive", "archiving", "unwind", "rmdir"}

TypeOK ==
  /\ setup \in Setups /\ pc \in PC
  /\ target \in ID \cup {None} /\ pass \in Nat
  /\ mountpoint \in Mountpoint \cup {None}
  /\ defers \in Seq(Mountpoint)
  /\ DOMAIN mounts \subseteq dirs
  /\ dirs \in SUBSET Mountpoint /\ stuck \in SUBSET dirs
  /\ result \in [ID -> {"none", "ok", "error"}]
  /\ imgStatus \in [ID -> Img!Status] /\ imgFile \in [ID -> Img!FileState]
  /\ arcStatus \in [ID -> Img!Status] /\ arcFile \in [ID -> Img!FileState]
  /\ imgHeld \in SUBSET ID /\ imgKept \in SUBSET ID /\ arcKept \in SUBSET ID
  /\ DOMAIN imgSource = ID /\ DOMAIN arcSource = ID

Init ==
  /\ setup \in Setups
  /\ todo = Calls(setup)
  /\ pc = "idle" /\ engine = None /\ target = None /\ pass = 0
  /\ mountpoint = None /\ defers = <<>>
  /\ mounts = <<>> /\ dirs = {} /\ stuck = {}
  /\ result = [id \in ID |-> "none"]
  /\ Img!Init /\ Arc!Init
  /\ imgSource = [id \in ID |-> None] /\ arcSource = [id \in ID |-> None]

Goto(from, to) == pc = from /\ pc' = to

\* ExportContainer(id) of the explorer; ExportAllContainers logs its error
\* and goes on with the next container.
StartCall ==
  /\ todo # <<>>
  /\ Goto("idle", "pass")
  /\ engine' = Head(todo).engine /\ target' = Head(todo).id /\ pass' = 1
  /\ todo' = Tail(todo)
  /\ result' = [result EXCEPT ![Head(todo).id] = "none"]
  /\ UNCHANGED <<setup, world, image, archive>>

\* Return with err = nil or not: the deferred functions run first.
Return(res) ==
  /\ pc' = "unwind"
  /\ result' = [result EXCEPT ![target] = res]

\* ListNamespaces, whose error ends the call, and the head of the loop over
\* them.  A listing error is logged and the namespace skipped; when all are
\* skipped the call returns nil.
NextPass ==
  /\ pc = "pass"
  /\ \/ ~engine.names /\ Return("error") /\ UNCHANGED call
     \/ /\ engine.names /\ pass > Passes(engine)
        /\ Return("ok")
        /\ UNCHANGED call
     \/ /\ engine.names /\ pass <= Passes(engine) /\ ~engine.lists
        /\ pass' = pass + 1
        /\ UNCHANGED <<pc, setup, todo, engine, target, result>>
     \/ /\ engine.names /\ pass <= Passes(engine) /\ engine.lists
        /\ pc' = "mkdir"
        /\ UNCHANGED <<call, result>>
  /\ UNCHANGED <<world, image, archive>>

\* os.MkdirAll of the output directory and of a mount point that does not
\* exist yet; a drawn name that exists is drawn again.
MakeMountpoint ==
  /\ pc = "mkdir"
  /\ \/ /\ \E mp \in Mountpoint \ dirs :
             mountpoint' = mp /\ dirs' = dirs \cup {mp}
        /\ pc' = "mount"
        /\ UNCHANGED result
     \/ Return("error") /\ UNCHANGED <<mountpoint, dirs>>
  /\ UNCHANGED <<call, defers, mounts, stuck, image, archive>>

\* The mounts after a MountContainer that returned nil, having mounted x at
\* the new mount point, or nothing.
WithMount(x) ==
  IF x = None THEN mounts
  ELSE [mp \in DOMAIN mounts \cup {mountpoint} |->
          IF mp = mountpoint THEN x ELSE mounts[mp]]

\* Mutant: one variable holds the mount point that is to be unmounted.
MountForgetsEarlier ==
  /\ pc = "mount"
  /\ \E x \in Yield(engine, target) : mounts' = WithMount(x)
  /\ defers' = <<mountpoint>>
  /\ pc' = "image"
  /\ UNCHANGED <<call, mountpoint, dirs, stuck, result, image,
                 archive>>

\* Mutant: a failed mount is only logged.
MountIgnoresError ==
  /\ pc = "mount" /\ pc' = "image"
  /\ defers' = Append(defers, mountpoint)
  /\ \/ \E x \in Yield(engine, target) : mounts' = WithMount(x)
     \/ UNCHANGED mounts
  /\ UNCHANGED <<call, mountpoint, dirs, stuck, result, image,
                 archive>>

\* A failed mount removes its directory, as best it can, and returns.
Mount ==
  /\ pc = "mount"
  /\ \/ /\ \E x \in Yield(engine, target) : mounts' = WithMount(x)
        /\ defers' = Append(defers, mountpoint)
        /\ pc' = "image"
        /\ UNCHANGED <<dirs, stuck, result>>
     \/ /\ \/ dirs' = dirs \ {mountpoint} /\ UNCHANGED stuck
           \/ /\ Cardinality(stuck) < MaxStuck
              /\ stuck' = stuck \cup {mountpoint} /\ UNCHANGED dirs
        /\ Return("error")
        /\ UNCHANGED <<mounts, defers>>
  /\ UNCHANGED <<call, mountpoint, image, archive>>

-----------------------------------------------------------------------------
\* The file exports.

\* What a file is filled with: whatever is at the mount point.
Source == IF mountpoint \in DOMAIN mounts THEN mounts[mountpoint] ELSE None

ExportImage ==
  /\ UNCHANGED <<call, world, result, archive, imgSource>>
  /\ \/ Goto("image", "imaging") /\ setup.image /\ Img!Begin(target)
     \/ Goto("image", "archive") /\ ~setup.image /\ UNCHANGED image

CopyImage ==
  /\ \/ pc = "imaging" /\ Img!Rewrite(target) /\ UNCHANGED <<pc, imgSource>>
     \/ /\ Goto("imaging", "filled") /\ Img!Fill(target)
        /\ imgSource' = [imgSource EXCEPT ![target] = Source]
  /\ UNCHANGED <<call, world, result, archive>>

FinishImage ==
  /\ \/ pc = "filled" /\ (Img!Populate(target) \/ Img!ReturnOk(target))
     \/ pc \in {"imaging", "filled"}
        /\ (Img!Withdraw(target) \/ Img!Refuse(target))
  /\ UNCHANGED <<call, pc, world, result, archive, imgSource>>

\* Mutant: the error of the image export is only logged.
AfterImageIgnoresError ==
  /\ pc \in {"imaging", "filled"}
  /\ imgStatus[target] \in {"ok", "error"} /\ pc' = "archive"
  /\ UNCHANGED <<call, world, result, image, archive>>

AfterImage ==
  /\ pc \in {"imaging", "filled"}
  /\ \/ imgStatus[target] = "ok" /\ pc' = "archive" /\ UNCHANGED result
     \/ imgStatus[target] = "error" /\ Return("error")
  /\ UNCHANGED <<call, world, image, archive>>

ExportArchive ==
  /\ UNCHANGED <<world, setup, todo, engine, target, result, image>>
  /\ \/ /\ Goto("archive", "archiving") /\ setup.archive
        /\ Arc!Begin(target) /\ UNCHANGED <<pass, arcSource>>
     \/ /\ Goto("archive", "pass") /\ ~setup.archive
        /\ pass' = pass + 1 /\ UNCHANGED archive

FinishArchive ==
  /\ pc = "archiving" /\ UNCHANGED pc
  /\ \/ /\ \/ Arc!Rewrite(target) \/ Arc!ReturnOk(target)
           \/ Arc!Withdraw(target) \/ Arc!Refuse(target)
        /\ UNCHANGED arcSource
     \/ /\ Arc!Populate(target)
        /\ arcSource' = [arcSource EXCEPT ![target] = Source]
  /\ UNCHANGED <<call, world, result, image>>

AfterArchive ==
  /\ pc = "archiving"
  /\ \/ /\ arcStatus[target] = "ok"
        /\ pc' = "pass" /\ pass' = pass + 1
        /\ UNCHANGED result
     \/ arcStatus[target] = "error" /\ Return("error") /\ UNCHANGED pass
  /\ UNCHANGED <<setup, todo, engine, target, world, image, archive>>

-----------------------------------------------------------------------------
\* The deferred functions: unmount, then remove the directory.

\* Where nothing is mounted umount fails, which is logged, and it is the same.
Unmount ==
  /\ defers # <<>>
  /\ Goto("unwind", "rmdir")
  /\ mountpoint' = Last(defers)
  /\ \/ /\ mounts' = Restrict(mounts, DOMAIN mounts \ {Last(defers)})
        /\ UNCHANGED stuck
     \/ /\ Last(defers) \in DOMAIN mounts /\ Cardinality(stuck) < MaxStuck
        /\ stuck' = stuck \cup {Last(defers)}
        /\ UNCHANGED mounts
  /\ UNCHANGED <<call, defers, dirs, result, image, archive>>

\* Mutant: the directory entry goes whatever is mounted there.
RemoveMountpointAlways ==
  /\ Goto("rmdir", "unwind")
  /\ dirs' = dirs \ {mountpoint}
  /\ defers' = Front(defers)
  /\ UNCHANGED <<call, mountpoint, mounts, stuck, result, image,
                 archive>>

\* os.Remove refuses a directory that is still a mount point.
RemoveMountpoint ==
  /\ Goto("rmdir", "unwind")
  /\ \/ /\ mountpoint \notin DOMAIN mounts
        /\ dirs' = dirs \ {mountpoint} /\ UNCHANGED stuck
     \/ /\ mountpoint \in stuck \/ Cardinality(stuck) < MaxStuck
        /\ stuck' = stuck \cup {mountpoint} /\ UNCHANGED dirs
  /\ defers' = Front(defers)
  /\ UNCHANGED <<call, mountpoint, mounts, result, image, archive>>

\* Mutant: a call that failed is made again.
EndCallRetries ==
  /\ Goto("unwind", "idle")
  /\ defers = <<>>
  /\ mountpoint' = None
  /\ todo' = IF result[target] = "ok" THEN todo
             ELSE <<[engine |-> engine, id |-> target]>> \o todo
  /\ UNCHANGED <<setup, engine, target, pass, defers, mounts, dirs, stuck,
                 result, image, archive>>

\* Mutant: a call that failed ends the command.
EndCallAborts ==
  /\ Goto("unwind", "idle")
  /\ defers = <<>>
  /\ mountpoint' = None
  /\ todo' = IF result[target] = "ok" THEN todo ELSE <<>>
  /\ UNCHANGED <<setup, engine, target, pass, defers, mounts, dirs, stuck,
                 result, image, archive>>

EndCall ==
  /\ Goto("unwind", "idle")
  /\ defers = <<>>
  /\ mountpoint' = None
  /\ UNCHANGED <<call, defers, mounts, dirs, stuck, result, image,
                 archive>>

-----------------------------------------------------------------------------
DamageImage ==
  /\ \E id \in ID : Img!Damage(id)
  /\ UNCHANGED <<call, pc, world, result, archive, imgSource>>

\* The command has returned.
Done ==
  /\ pc = "idle" /\ todo = <<>>
  /\ UNCHANGED vars

Step ==
  \/ StartCall \/ NextPass \/ MakeMountpoint \/ Mount
  \/ ExportImage \/ AfterImage \/ ExportArchive \/ AfterArchive
  \/ Unmount \/ RemoveMountpoint \/ EndCall

Next ==
  Step \/ CopyImage \/ FinishImage \/ FinishArchive \/ DamageImage \/ Done

\* Each step is taken in turn, and each file export returns, which is what
\* ImageExport and ArchiveExport show of them.
Fairness ==
  /\ WF_vars(Step)
  /\ WF_vars(CopyImage) /\ WF_vars(FinishImage)
  /\ WF_vars(FinishArchive)

Spec == Init /\ [][Next]_vars
FairSpec == Spec /\ Fairness

-----------------------------------------------------------------------------
Engines == ToSet(setup.engines)
Finished == pc = "idle" /\ todo = <<>>
Reached(e) == e.names /\ e.lists /\ Passes(e) > 0

\* MountContainer of that ID leaves x at the mount point, if it returns nil.
Owns(id, x) ==
  \E e \in Engines : Named(e, id) # {} /\ x \in Yield(e, id)

(***************************************************************************)
(* A populated file holds what a MountContainer of its own ID left at the  *)
(* mount point: over several calls and passes no file is filled from the   *)
(* mount of another container, from one whose mount had failed, or from    *)
(* one that was unmounted already (containerd/export.go:101-141).  It does *)
(* not say that MountContainer mounted something, nor the right layers.    *)
(***************************************************************************)
FilesHoldOwn ==
  \A id \in ID :
    /\ imgFile[id] = "populated" => Owns(id, imgSource[id])
    /\ arcFile[id] = "populated" => Owns(id, arcSource[id])

(***************************************************************************)
(* Whatever path a call takes, each mount and each directory it made is    *)
(* still on the defer stack, or its clean-up was refused; once the call    *)
(* has returned only refused ones are left.  A call holds one mount per    *)
(* namespace at most, at distinct mount points, although all of them stay  *)
(* mounted until it returns.                                               *)
(***************************************************************************)
MountsAccounted ==
  /\ DOMAIN mounts \subseteq ToSet(defers) \cup stuck
  /\ dirs \subseteq ToSet(defers) \cup stuck \cup {mountpoint}
  /\ IF pc = "idle" THEN dirs = stuck
     ELSE IsInjective(defers) /\ Len(defers) <= Passes(engine)

(***************************************************************************)
(* ExportContainer returned nil: the files asked for are populated         *)
(* (explorers.go:36 "ExportContainer exports a container as an image or    *)
(* archive"), with what FilesHoldOwn says.  Where the containers cannot be *)
(* listed in any namespace the nil says nothing (docker/export.go:40-56).  *)
(***************************************************************************)
NilMeansExported ==
  \A id \in ID :
    result[id] = "ok" /\ (\A e \in Engines : Reached(e)) =>
      /\ setup.image => imgFile[id] = "populated" \/ id \in imgHeld
      /\ setup.archive => arcFile[id] = "populated"

(***************************************************************************)
(* export --all is the selection and nothing else: no file is created for  *)
(* a container that the filter or the support flag excludes, and when the  *)
(* command returns each selected one has been exported or has failed,      *)
(* whatever happened to the others (ExportAllContainers logs and goes on). *)
(***************************************************************************)
Selects(e, id) ==
  \E r \in ToSet(e.listing) :
    r.id = id /\ r.match /\ (r.support => setup.support)

SelectionIsExported ==
  setup.all =>
    \A id \in ID :
      /\ imgFile[id] # "absent" \/ arcFile[id] # "absent" =>
           \E e \in Engines : Selects(e, id)
      /\ Finished /\ result[id] = "none" =>
           \A e \in Engines : Reached(e) => ~Selects(e, id)

\* The command returns, whatever fails.
CommandReturns == <>Finished
=============================================================================
